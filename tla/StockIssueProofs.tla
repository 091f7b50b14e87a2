--------------------------- MODULE StockIssueProofs ---------------------------
(***************************************************************************)
(* Theorems about StockIssue, for any requests, lines and places.          *)
(*                                                                         *)
(* A balance row is taken from by one open transaction at a time, and what *)
(* that one has taken is covered by the balance (Exclusive, Covered). What *)
(* is issued for a line follows from what an approval holds in hand        *)
(* (Sound), and that lines belong to one request for good (LinesOwned).    *)
(***************************************************************************)
EXTENDS StockIssue, FunctionTheorems, FiniteSetTheorems, TLAPS

Busy == {r \in Request : req[r] # NoRequest}
Open == {r \in Request : InTransaction(r)}

\* A request in flight has read lines of its own material request; an approval
\* has taken for the lines it is through with, for each what it asks at most.
Sound(q) ==
    /\ q.kind \in {"approve", "issue", "rfq", "po"} =>
          \A l \in q.lines : owner[l] = q.mr
    /\ q.kind = "issue" =>
          /\ q.left \subseteq q.lines
          /\ \A l \in q.left : PlaceOf[l] \in Place
          /\ q.reading \in q.left \cup {NoLine}
          /\ \A l \in Line : q.taken[l] <= Asked[l]
          /\ \A l \in Line : l \notin q.lines \/ l \in q.left => q.taken[l] = 0

RequestsSound == \A r \in Busy : Sound(req[r])

LinesOwned ==
    /\ \A m \in Mr : \A l \in mr[m].lines : owner[l] = m
    /\ \A l \in Line : owner[l] = NoMr => issued[l] = 0

\* Two open transactions have not both taken from a place.
Exclusive ==
    \A r, s \in Open : r # s =>
        \A p \in Place : req[r].out[p] = 0 \/ req[s].out[p] = 0

Covered ==
    \A p \in Place \ stale :
        /\ onHand[p] >= 0
        /\ \A r \in Open : req[r].out[p] <= onHand[p]

IInv ==
    /\ TypeOK
    /\ RequestsSound
    /\ LinesOwned
    /\ Exclusive
    /\ Covered
    /\ IssuedAsAsked
    /\ OneDocument

-------------------------------------------------------------------------------
(* Requests in flight.                                                     *)

LEMMA Kinds ==
    ASSUME NEW q \in InFlight
    PROVE  /\ q.kind \in {"update", "move", "approve", "rfq", "po", "issue"}
           /\ q.mr \in Mr
           /\ q.kind = "move" => q.to \in {"SUBMITTED", "DECLINED", "CANCELLED"}
           /\ q.kind \in {"approve", "issue", "rfq", "po"} => q.lines \in SUBSET Line
           /\ q.kind = "issue" =>
                 /\ q.left \in SUBSET Line /\ q.reading \in Line \cup {NoLine}
                 /\ q.read \in Int
                 /\ q.taken \in [Line -> Nat] /\ q.out \in [Place -> Nat]
BY DEF InFlight, Issuing

LEMMA InitIInv == Init => IInv
<1> SUFFICES ASSUME Init PROVE IInv
    OBVIOUS
<1>1. TypeOK
  <2>1. PICK status \in [Mr -> {"DRAFT", "SUBMITTED"}] :
            mr = [m \in Mr |-> [status |-> status[m], lines |-> LinesOf(m),
                                rfq |-> NoDoc, po |-> NoDoc]]
        BY DEF Init
  <2>2. mr \in [Mr -> MrRow]
        BY <2>1 DEF MrRow, MrStatus, LinesOf
  <2> QED  BY <2>2 DEF Init, TypeOK
<1>2. \A m \in Mr : mr[m].lines = LinesOf(m) /\ mr[m].status \in {"DRAFT", "SUBMITTED"}
      BY DEF Init
<1>3. RequestsSound /\ LinesOwned /\ Exclusive /\ Covered
      BY <1>2 DEF Init, RequestsSound, Busy, LinesOwned, LinesOf, Exclusive, Covered,
                  Open, InTransaction
<1>4. IssuedAsAsked
      BY LineAssumption DEF Init, IssuedAsAsked, LinesOf
<1>5. OneDocument
      BY <1>2 DEF Init, OneDocument, DocsOf
<1> QED  BY <1>1, <1>3, <1>4, <1>5 DEF IInv

\* A step that changes the requests alone (and what counts as stale), and puts a
\* sound one in a slot, whose transaction keeps to the locks and the balances.
LEMMA RequestStep ==
    ASSUME IInv, NEW r \in Request, NEW new \in InFlight \cup {NoRequest},
           req' = [req EXCEPT ![r] = new],
           UNCHANGED <<mr, owner, onHand, received, issued, doc, raced>>,
           stale \subseteq stale', stale' \subseteq Place,
           new # NoRequest => Sound(new),
           new # NoRequest /\ new.kind = "issue" =>
               \A p \in Place :
                   /\ \A s \in Open \ {r} : new.out[p] = 0 \/ req[s].out[p] = 0
                   /\ p \notin stale' => new.out[p] <= onHand[p]
    PROVE  IInv'
<1>1. req \in [Request -> InFlight \cup {NoRequest}]
      BY DEF IInv, TypeOK
<1>2. TypeOK'
      BY <1>1 DEF IInv, TypeOK
<1>3. \A s \in Request : req'[s] = IF s = r THEN new ELSE req[s]
      BY <1>1
<1>4. RequestsSound'
  <2> SUFFICES ASSUME NEW s \in Request, req'[s] # NoRequest
               PROVE  Sound(req'[s])
      BY DEF RequestsSound, Busy, Sound
  <2> QED  BY <1>3 DEF IInv, RequestsSound, Busy
<1>5. \A s \in Open' : \/ s = r /\ new # NoRequest /\ new.kind = "issue" /\ req'[s] = new
                       \/ s # r /\ s \in Open /\ req'[s] = req[s]
      BY <1>3 DEF Open, InTransaction
<1>6. Exclusive'
  <2> SUFFICES ASSUME NEW s \in Open', NEW t \in Open', s # t, NEW p \in Place
               PROVE  req'[s].out[p] = 0 \/ req'[t].out[p] = 0
      BY DEF Exclusive
  <2>1. CASE s = r
        BY <1>5, <2>1
  <2>2. CASE t = r
        BY <1>5, <2>2
  <2>3. CASE s # r /\ t # r
        BY <1>5, <2>3 DEF IInv, Exclusive
  <2> QED  BY <2>1, <2>2, <2>3
<1>7. Covered'
      BY <1>5 DEF IInv, Covered
<1>8. (LinesOwned /\ IssuedAsAsked /\ OneDocument)'
      BY DEF IInv, LinesOwned, IssuedAsAsked, LinesOf, OneDocument, DocsOf
<1> QED  BY <1>2, <1>4, <1>6, <1>7, <1>8 DEF IInv

-------------------------------------------------------------------------------
(* Reading, and the statements of an approval.                             *)

LEMMA BeginKeeps ==
    ASSUME IInv, NEW r \in Request, NEW q \in InFlight, Begin(r, q), Sound(q),
           q.kind # "issue"
    PROVE  IInv'
<1>1. stale \subseteq Place
      BY DEF IInv, TypeOK
<1> QED  BY <1>1, RequestStep DEF Begin

LEMMA ReadKeeps ==
    ASSUME IInv, NEW r \in Request, NEW m \in Mr,
           \/ Update(r, m) \/ Submit(r, m) \/ Decline(r, m) \/ Cancel(r, m)
           \/ Approve(r, m) \/ ConvertToRfq(r, m) \/ ConvertToPo(r, m)
    PROVE  IInv'
<1>1. CASE Update(r, m)
  <2> DEFINE q == [kind |-> "update", mr |-> m]
  <2>1. q \in InFlight /\ Sound(q)
        BY DEF InFlight, Sound
  <2> QED  BY <1>1, <2>1, BeginKeeps DEF Update
<1>2. ASSUME NEW to \in {"SUBMITTED", "DECLINED", "CANCELLED"},
             Begin(r, [kind |-> "move", mr |-> m, to |-> to])
      PROVE  IInv'
  <2> DEFINE q == [kind |-> "move", mr |-> m, to |-> to]
  <2>1. q \in InFlight /\ Sound(q)
        BY DEF InFlight, Sound
  <2> QED  BY <1>2, <2>1, BeginKeeps
<1>3. ASSUME NEW kind \in {"approve", "rfq", "po"},
             Begin(r, [kind |-> kind, mr |-> m, lines |-> mr[m].lines])
      PROVE  IInv'
  <2> DEFINE q == [kind |-> kind, mr |-> m, lines |-> mr[m].lines]
  <2>1. mr[m].lines \in SUBSET Line
        BY DEF IInv, TypeOK, MrRow
  <2>2. q \in InFlight
        BY <2>1 DEF InFlight
  <2>3. Sound(q)
        BY DEF Sound, IInv, LinesOwned
  <2> QED  BY <1>3, <2>2, <2>3, BeginKeeps
<1> QED  BY <1>1, <1>2, <1>3 DEF Submit, Decline, Cancel, Approve, ConvertToRfq, ConvertToPo

LEMMA RollBackKeeps ==
    ASSUME IInv, NEW r \in Request, RollBack(r)
    PROVE  IInv'
<1>1. stale \subseteq Place
      BY DEF IInv, TypeOK
<1> QED  BY <1>1, RequestStep DEF RollBack

\* What an open transaction is after a statement that takes nothing.
LEMMA TakeNothing ==
    ASSUME IInv, NEW r \in Request, InTransaction(r),
           NEW left \in SUBSET req[r].left, NEW reading \in left \cup {NoLine},
           NEW read \in Int,
           GoOn(r, left, reading, read, req[r].taken, req[r].out),
           UNCHANGED <<mr, owner, onHand, received, issued, doc, raced, stale>>
    PROVE  IInv'
<1>0. PICK q : q = req[r]
      OBVIOUS
<1>1. q \in InFlight /\ q.kind = "issue" /\ Sound(q)
      BY <1>0 DEF IInv, TypeOK, RequestsSound, Busy, InTransaction
<1>2. /\ q.mr \in Mr /\ q.lines \in SUBSET Line /\ q.left \in SUBSET Line
      /\ q.taken \in [Line -> Nat] /\ q.out \in [Place -> Nat]
      BY <1>1, Kinds
<1> DEFINE new == [kind |-> "issue", mr |-> q.mr, lines |-> q.lines, left |-> left,
                   reading |-> reading, read |-> read, taken |-> q.taken, out |-> q.out]
<1>3. new \in InFlight
      BY <1>0, <1>2 DEF InFlight, Issuing
<1>4. Sound(new)
      BY <1>0, <1>1, <1>2 DEF Sound
<1>5. \A p \in Place :
          /\ \A s \in Open \ {r} : q.out[p] = 0 \/ req[s].out[p] = 0
          /\ p \notin stale => q.out[p] <= onHand[p]
      BY <1>0 DEF IInv, Exclusive, Covered, Open
<1>6. req' = [req EXCEPT ![r] = new] /\ new.out = q.out
      BY <1>0 DEF GoOn
<1>7. stale \subseteq Place
      BY DEF IInv, TypeOK
<1> HIDE DEF new
<1> QED  BY <1>3, <1>4, <1>5, <1>6, <1>7, RequestStep

LEMMA OpenApprovalKeeps ==
    ASSUME IInv, NEW r \in Request, OpenApproval(r)
    PROVE  IInv'
<1>0. PICK q : q = req[r]
      OBVIOUS
<1>1. q \in InFlight /\ q.kind = "approve" /\ Sound(q)
      BY <1>0 DEF IInv, TypeOK, RequestsSound, Busy, OpenApproval
<1>2. q.mr \in Mr /\ q.lines \in SUBSET Line
      BY <1>1, Kinds
<1> DEFINE left == {l \in q.lines : PlaceOf[l] # NoPlace}
           none == [l \in Line |-> 0]
           out == [p \in Place |-> 0]
           new == [kind |-> "issue", mr |-> q.mr, lines |-> q.lines, left |-> left,
                   reading |-> NoLine, read |-> 0, taken |-> none, out |-> out]
<1>3. none \in [Line -> Nat] /\ out \in [Place -> Nat]
      OBVIOUS
<1>4. new \in InFlight
      BY <1>2, <1>3 DEF InFlight, Issuing
<1>5. Sound(new)
      BY <1>1, <1>2, LineAssumption DEF Sound
<1>6. \A p \in Place :
          /\ \A s \in Open \ {r} : new.out[p] = 0 \/ req[s].out[p] = 0
          /\ p \notin stale => new.out[p] <= onHand[p]
      BY DEF IInv, Covered
<1>7. req' = [req EXCEPT ![r] = new]
      BY <1>0 DEF OpenApproval, GoOn
<1>8. stale \subseteq Place /\ UNCHANGED <<mr, owner, onHand, received, issued, doc, raced, stale>>
      BY DEF IInv, TypeOK, OpenApproval
<1> HIDE DEF new
<1> QED  BY <1>4, <1>5, <1>6, <1>7, <1>8, RequestStep

LEMMA ReadOnHandKeeps ==
    ASSUME IInv, NEW r \in Request, NEW l \in Line, ReadOnHand(r, l)
    PROVE  IInv'
<1>0. PICK q : q = req[r]
      OBVIOUS
<1>1. q \in InFlight /\ q.kind = "issue" /\ Sound(q) /\ l \in q.left
      BY <1>0 DEF IInv, TypeOK, RequestsSound, Busy, InTransaction, ReadOnHand
<1>2. q.out \in [Place -> Nat] /\ PlaceOf[l] \in Place /\ onHand \in [Place -> Int]
      BY <1>1, Kinds DEF Sound, IInv, TypeOK
<1>3. onHand[PlaceOf[l]] - q.out[PlaceOf[l]] \in Int
      BY <1>2
<1> QED  BY <1>0, <1>1, <1>3, TakeNothing DEF ReadOnHand

LEMMA IssueNothingKeeps ==
    ASSUME IInv, NEW r \in Request, IssueNothing(r)
    PROVE  IInv'
BY TakeNothing DEF IssueNothing

LEMMA ClampedBounds ==
    ASSUME NEW l \in Line, NEW read \in Int
    PROVE  Clamped(l, read) \in Int /\ Clamped(l, read) <= Asked[l] /\ Clamped(l, read) <= read
BY LineAssumption DEF Clamped

LEMMA IssueOutKeeps ==
    ASSUME IInv, NEW r \in Request, IssueOut(r)
    PROVE  IInv'
<1>0. PICK q : q = req[r]
      OBVIOUS
<1>1. q \in InFlight /\ q.kind = "issue" /\ Sound(q) /\ r \in Open
      BY <1>0 DEF IInv, TypeOK, RequestsSound, Busy, InTransaction, IssueOut, Open
<1>2. /\ q.mr \in Mr /\ q.lines \in SUBSET Line /\ q.left \in SUBSET Line
      /\ q.taken \in [Line -> Nat] /\ q.out \in [Place -> Nat] /\ q.read \in Int
      BY <1>1, Kinds
<1>3. PICK l : l = q.reading
      OBVIOUS
<1>4. l \in q.left /\ l \in Line /\ PlaceOf[l] \in Place /\ q.taken[l] = 0
      BY <1>0, <1>1, <1>2, <1>3 DEF IssueOut, Sound
<1>5. PICK p \in Place : p = PlaceOf[l]
      BY <1>4
<1>6. PICK n : n = Clamped(l, q.read)
      OBVIOUS
<1>7. n \in Nat /\ n <= Asked[l] /\ n <= q.read
      BY <1>0, <1>2, <1>3, <1>4, <1>6, ClampedBounds DEF IssueOut
<1> DEFINE left == q.left \ {l}
           taken == [q.taken EXCEPT ![l] = @ + n]
           out == [q.out EXCEPT ![p] = @ + n]
           new == [kind |-> "issue", mr |-> q.mr, lines |-> q.lines, left |-> left,
                   reading |-> NoLine, read |-> 0, taken |-> taken, out |-> out]
<1>8. taken \in [Line -> Nat] /\ out \in [Place -> Nat]
      BY <1>2, <1>4, <1>7
<1>9. \A k \in Line : taken[k] = IF k = l THEN n ELSE q.taken[k]
      BY <1>2, <1>4, <1>7
<1>10. \A x \in Place : out[x] = IF x = p THEN q.out[p] + n ELSE q.out[x]
      BY <1>2, <1>5
<1>11. new \in InFlight
      BY <1>2, <1>8 DEF InFlight, Issuing
<1>12. /\ new.kind = "issue" /\ new.mr = q.mr /\ new.lines = q.lines /\ new.left = left
       /\ new.reading = NoLine /\ new.taken = taken /\ new.out = out
      OBVIOUS
<1>13. /\ req' = [req EXCEPT ![r] = new]
       /\ stale' = IF onHand[p] - q.out[p] < q.read THEN stale \cup {p} ELSE stale
       /\ BalanceFree(p, Request \ {r})
       /\ UNCHANGED <<mr, owner, onHand, received, issued, doc, raced>>
      BY <1>0, <1>3, <1>5, <1>6 DEF IssueOut, GoOn
<1> HIDE DEF new, taken, out
<1>14. Sound(new)
  <2>1. \A k \in left : k \in q.left /\ k # l
        OBVIOUS
  <2>2. \A k \in Line : taken[k] <= Asked[k]
        BY <1>1, <1>7, <1>9 DEF Sound
  <2>3. \A k \in Line : k \notin q.lines \/ k \in left => taken[k] = 0
        BY <1>1, <1>4, <1>9, <2>1 DEF Sound
  <2> QED  BY <1>1, <1>12, <2>1, <2>2, <2>3 DEF Sound
<1>15. \A x \in Place :
          /\ \A s \in Open \ {r} : out[x] = 0 \/ req[s].out[x] = 0
          /\ x \notin stale' => out[x] <= onHand[x]
  <2> SUFFICES ASSUME NEW x \in Place
               PROVE  /\ \A s \in Open \ {r} : out[x] = 0 \/ req[s].out[x] = 0
                      /\ x \notin stale' => out[x] <= onHand[x]
      OBVIOUS
  <2>1. CASE x # p
        BY <1>0, <1>1, <1>10, <1>13, <2>1 DEF IInv, Exclusive, Covered
  <2>2. CASE x = p
    <3>1. ASSUME NEW s \in Open \ {r} PROVE req[s].out[x] = 0
      <4>1. req[s] \in InFlight /\ req[s].kind = "issue"
            BY DEF Open, InTransaction, IInv, TypeOK
      <4>2. req[s].out \in [Place -> Nat]
            BY <4>1, Kinds
      <4>3. ~(req[s].out[x] > 0)
            BY <1>13, <2>2 DEF BalanceFree, Open
      <4> QED  BY <4>2, <4>3
    <3>2. onHand[p] \in Int /\ q.out[p] \in Nat
          BY <1>2 DEF IInv, TypeOK
    <3>3. ASSUME x \notin stale' PROVE out[x] <= onHand[x]
      <4>1. ~(onHand[p] - q.out[p] < q.read)
            BY <1>13, <2>2, <3>3
      <4> QED  BY <1>2, <1>7, <1>10, <2>2, <3>2, <4>1
    <3> QED  BY <3>1, <3>3
  <2> QED  BY <2>1, <2>2
<1>16. stale \subseteq stale' /\ stale' \subseteq Place
      BY <1>13 DEF IInv, TypeOK
<1> QED  BY <1>11, <1>12, <1>13, <1>14, <1>15, <1>16, RequestStep

-------------------------------------------------------------------------------
(* Commits.                                                                *)

\* A commit frees its slot; what it leaves unmarked, its handler still admits.
LEMMA Ended ==
    ASSUME IInv, NEW r \in Request, NEW kinds, Commit(r, kinds)
    PROVE  /\ req[r] \in InFlight /\ req[r].kind \in kinds /\ Sound(req[r])
           /\ req' \in [Request -> InFlight \cup {NoRequest}]
           /\ req'[r] = NoRequest /\ \A s \in Request : s # r => req'[s] = req[s]
           /\ \A s \in Open' : s # r /\ s \in Open /\ req'[s] = req[s]
           /\ raced \subseteq raced' /\ raced' \subseteq Mr
           /\ req[r].mr \notin raced' => Admits(req[r])
<1>1. req[r] \in InFlight /\ Sound(req[r])
      BY DEF IInv, TypeOK, RequestsSound, Busy, Commit
<1>2. req[r].mr \in Mr
      BY <1>1, Kinds
<1>3. /\ req' \in [Request -> InFlight \cup {NoRequest}]
      /\ req'[r] = NoRequest /\ \A s \in Request : s # r => req'[s] = req[s]
      BY DEF IInv, TypeOK, Commit
<1>4. \A s \in Open' : s # r /\ s \in Open /\ req'[s] = req[s]
      BY <1>3 DEF Open, InTransaction
<1>5. /\ raced \subseteq raced' /\ raced' \subseteq Mr
      /\ req[r].mr \notin raced' => Admits(req[r])
  <2>1. raced' = IF Admits(req[r]) THEN raced ELSE raced \cup {req[r].mr}
        BY DEF Commit
  <2>2. raced \subseteq Mr
        BY DEF IInv, TypeOK
  <2>3. CASE Admits(req[r])
        BY <2>1, <2>2, <2>3, Zenon
  <2>4. CASE ~Admits(req[r])
        BY <1>2, <2>1, <2>2, <2>4
  <2> QED  BY <2>3, <2>4
<1> QED  BY <1>1, <1>3, <1>4, <1>5 DEF Commit

\* The other requests stay sound: a line that has an owner keeps it.
LEMMA OthersSound ==
    ASSUME IInv, NEW r \in Request, NEW kinds, Commit(r, kinds),
           \A l \in Line : owner[l] # NoMr => owner'[l] = owner[l]
    PROVE  RequestsSound' /\ Exclusive'
<1>1. RequestsSound'
  <2> SUFFICES ASSUME NEW s \in Request, req'[s] # NoRequest
               PROVE  /\ req'[s].kind \in {"approve", "issue", "rfq", "po"} =>
                            \A l \in req'[s].lines : owner'[l] = req'[s].mr
                      /\ req'[s].kind = "issue" =>
                            /\ req'[s].left \subseteq req'[s].lines
                            /\ \A l \in req'[s].left : PlaceOf[l] \in Place
                            /\ req'[s].reading \in req'[s].left \cup {NoLine}
                            /\ \A l \in Line : req'[s].taken[l] <= Asked[l]
                            /\ \A l \in Line :
                                  l \notin req'[s].lines \/ l \in req'[s].left =>
                                      req'[s].taken[l] = 0
      BY DEF RequestsSound, Busy, Sound
  <2>0. PICK q : q = req[s]
        OBVIOUS
  <2>1. req'[s] = q /\ q \in InFlight /\ Sound(q)
        BY <2>0, Ended DEF IInv, TypeOK, RequestsSound, Busy
  <2>2. q.mr \in Mr /\ (q.kind \in {"approve", "issue", "rfq", "po"} => q.lines \in SUBSET Line)
        BY <2>1, Kinds
  <2>3. q.kind \in {"approve", "issue", "rfq", "po"} => \A l \in q.lines : owner'[l] = q.mr
        BY <2>1, <2>2, LineAssumption DEF Sound
  <2> QED  BY <2>1, <2>3 DEF Sound
<1>2. Exclusive'
      BY Ended DEF IInv, Exclusive
<1> QED  BY <1>1, <1>2

\* A row with its status changed, or its lines.
LEMMA MovedRow ==
    ASSUME NEW row \in MrRow, NEW status \in MrStatus
    PROVE  /\ [row EXCEPT !.status = status] \in MrRow
           /\ [row EXCEPT !.status = status]
                 = [status |-> status, lines |-> row.lines, rfq |-> row.rfq, po |-> row.po]
BY DEF MrRow

LEMMA ReplacedRow ==
    ASSUME NEW row \in MrRow, NEW lines \in SUBSET Line
    PROVE  /\ [row EXCEPT !.lines = lines] \in MrRow
           /\ [row EXCEPT !.lines = lines]
                 = [status |-> row.status, lines |-> lines, rfq |-> row.rfq, po |-> row.po]
BY DEF MrRow

\* A request whose check still holds when its write lands is not past that check.
LEMMA StatusOf ==
    ASSUME IInv, NEW m \in Mr
    PROVE  /\ mr[m] \in MrRow /\ mr[m].status \in MrStatus
           /\ mr[m].lines \in SUBSET Line
BY DEF IInv, TypeOK, MrRow

LEMMA CommitUpdateKeeps ==
    ASSUME IInv, NEW r \in Request, CommitUpdate(r)
    PROVE  IInv'
<1>1. PICK m : m = req[r].mr
      OBVIOUS
<1>2. /\ Commit(r, {"update"})
      /\ UNCHANGED <<onHand, received, issued, doc, stale>>
      BY DEF CommitUpdate
<1>3. PICK new \in SUBSET {l \in Line : owner[l] = NoMr} :
          /\ owner' = [l \in Line |-> IF l \in new THEN m ELSE owner[l]]
          /\ mr' = [mr EXCEPT ![m].lines = new]
      BY <1>1 DEF CommitUpdate
<1>4. m \in Mr /\ (m \notin raced' => mr[m].status = "DRAFT")
  <2>1. req[r] \in InFlight /\ req[r].kind = "update"
            /\ (req[r].mr \notin raced' => Admits(req[r]))
        BY <1>2, Ended
  <2> QED  BY <1>1, <2>1, Kinds DEF Admits
<1>5. mr \in [Mr -> MrRow]
      BY DEF IInv, TypeOK
<1>6. /\ mr' \in [Mr -> MrRow]
      /\ \A k \in Mr : k # m => mr'[k] = mr[k]
      /\ mr'[m].status = mr[m].status /\ mr'[m].lines = new
  <2>1. mr' = [mr EXCEPT ![m] = [mr[m] EXCEPT !.lines = new]]
        BY <1>3, Zenon
  <2>2. /\ [mr[m] EXCEPT !.lines = new] \in MrRow
        /\ [mr[m] EXCEPT !.lines = new] = [status |-> mr[m].status, lines |-> new,
                                           rfq |-> mr[m].rfq, po |-> mr[m].po]
        BY <1>4, <1>5, ReplacedRow
  <2> QED  BY <1>4, <1>5, <2>1, <2>2
<1>7. owner' \in [Line -> Mr \cup {NoMr}]
      BY <1>3, <1>4 DEF IInv, TypeOK
<1>8. /\ \A l \in new : l \in Line /\ owner[l] = NoMr /\ owner'[l] = m
      /\ \A l \in Line : l \notin new => owner'[l] = owner[l]
      /\ \A l \in Line : owner[l] # NoMr => owner'[l] = owner[l]
      BY <1>3
<1>9. TypeOK'
      BY <1>2, <1>6, <1>7, Ended DEF IInv, TypeOK
<1>10. RequestsSound' /\ Exclusive'
      BY <1>2, <1>8, OthersSound
<1>11. LinesOwned'
  <2>1. ASSUME NEW k \in Mr, NEW l \in mr'[k].lines PROVE owner'[l] = k
    <3>1. CASE k = m
          BY <1>6, <1>8, <2>1, <3>1
    <3>2. CASE k # m
      <4>1. l \in mr[k].lines /\ l \in Line
            BY <1>6, <2>1, <3>2, StatusOf
      <4>2. owner[l] = k
            BY <4>1 DEF IInv, LinesOwned
      <4> QED  BY <1>8, <4>1, <4>2, LineAssumption
    <3> QED  BY <3>1, <3>2
  <2>2. \A l \in Line : owner'[l] = NoMr => issued'[l] = 0
        BY <1>2, <1>4, <1>8, LineAssumption DEF IInv, LinesOwned
  <2> QED  BY <2>1, <2>2 DEF LinesOwned
<1>12. Covered'
      BY <1>2, Ended DEF IInv, Covered
<1>13. IssuedAsAsked'
  <2> SUFFICES ASSUME NEW k \in Mr \ raced', NEW l \in Line, owner'[l] = k
               PROVE  /\ issued[l] <= Asked[l]
                      /\ issued[l] > 0 =>
                            /\ l \in mr'[k].lines
                            /\ mr'[k].status \in {"APPROVED", "CONVERTED", "CANCELLED"}
      BY <1>2 DEF IssuedAsAsked, LinesOf
  <2>1. k \notin raced
        BY <1>2, Ended
  <2>2. CASE l \in new
        BY <1>8, <2>2, LineAssumption DEF IInv, LinesOwned
  <2>3. CASE l \notin new /\ k = m
    <3>1. owner[l] = m /\ mr[m].status = "DRAFT"
          BY <1>4, <1>8, <2>3
    <3>2. ~(issued[l] > 0) /\ issued[l] <= Asked[l]
          BY <2>1, <2>3, <3>1 DEF IInv, IssuedAsAsked, LinesOf
    <3> QED  BY <3>2
  <2>4. CASE l \notin new /\ k # m
        BY <1>6, <1>8, <2>1, <2>4 DEF IInv, IssuedAsAsked, LinesOf
  <2> QED  BY <2>2, <2>3, <2>4
<1>14. OneDocument'
  <2>1. \A k \in Mr : DocsOf(k)' = DocsOf(k)
        BY <1>2 DEF DocsOf
  <2> SUFFICES ASSUME NEW k \in Mr \ raced'
               PROVE  /\ mr'[k].status = "CONVERTED" <=> DocsOf(k) # {}
                      /\ \A d, e \in DocsOf(k) : d = e
                      /\ \A d \in DocsOf(k) : /\ doc[d].lines = mr'[k].lines
                                               /\ d \in {mr'[k].rfq, mr'[k].po}
      BY <1>2, <2>1 DEF OneDocument
  <2>2. k \notin raced
        BY <1>2, Ended
  <2>3. CASE k = m
    <3>1. DocsOf(m) = {} /\ mr'[m].status # "CONVERTED"
          BY <1>4, <1>6, <2>2, <2>3 DEF IInv, OneDocument
    <3> QED  BY <2>3, <3>1
  <2>4. CASE k # m
        BY <1>6, <2>2, <2>4 DEF IInv, OneDocument
  <2> QED  BY <2>3, <2>4
<1> QED  BY <1>9, <1>10, <1>11, <1>12, <1>13, <1>14 DEF IInv

\* A step that leaves lines, issues and documents alone and moves one request.
LEMMA CommitMoveKeeps ==
    ASSUME IInv, NEW r \in Request, CommitMove(r)
    PROVE  IInv'
<1>0. PICK q : q = req[r]
      OBVIOUS
<1>1. PICK m : m = q.mr
      OBVIOUS
<1>2. /\ Commit(r, {"move"})
      /\ mr' = [mr EXCEPT ![m].status = q.to]
      /\ UNCHANGED <<owner, onHand, received, issued, doc, stale>>
      BY <1>0, <1>1 DEF CommitMove
<1>3. /\ m \in Mr /\ q.to \in {"SUBMITTED", "DECLINED", "CANCELLED"}
      /\ m \notin raced' => q.to \in MR_TRANSITIONS[mr[m].status]
  <2>1. q \in InFlight /\ q.kind = "move" /\ (q.mr \notin raced' => Admits(q))
        BY <1>0, <1>2, Ended
  <2> QED  BY <1>1, <2>1, Kinds DEF Admits
<1>4. mr \in [Mr -> MrRow]
      BY DEF IInv, TypeOK
<1>5. /\ mr' \in [Mr -> MrRow]
      /\ \A k \in Mr : k # m => mr'[k] = mr[k]
      /\ \A k \in Mr : mr'[k].lines = mr[k].lines
      /\ mr'[m].status = q.to
  <2>1. mr' = [mr EXCEPT ![m] = [mr[m] EXCEPT !.status = q.to]]
        BY <1>2, Zenon
  <2>2. q.to \in MrStatus
        BY <1>3 DEF MrStatus
  <2>3. /\ [mr[m] EXCEPT !.status = q.to] \in MrRow
        /\ [mr[m] EXCEPT !.status = q.to] = [status |-> q.to, lines |-> mr[m].lines,
                                             rfq |-> mr[m].rfq, po |-> mr[m].po]
        BY <1>3, <1>4, <2>2, MovedRow
  <2> QED  BY <1>3, <1>4, <2>1, <2>3
<1>6. m \notin raced' =>
          /\ mr[m].status \notin {"CONVERTED", "DECLINED", "CANCELLED"}
          /\ mr[m].status \in {"APPROVED", "CONVERTED", "CANCELLED"} => q.to = "CANCELLED"
      BY <1>3, StatusOf DEF MR_TRANSITIONS, MrStatus
<1>7. TypeOK'
      BY <1>2, <1>5, Ended DEF IInv, TypeOK
<1>8. RequestsSound' /\ Exclusive'
      BY <1>2, OthersSound
<1>9. LinesOwned' /\ Covered'
      BY <1>2, <1>5, Ended DEF IInv, LinesOwned, Covered
<1>10. IssuedAsAsked'
  <2> SUFFICES ASSUME NEW k \in Mr \ raced', NEW l \in Line, owner[l] = k
               PROVE  /\ issued[l] <= Asked[l]
                      /\ issued[l] > 0 =>
                            /\ l \in mr'[k].lines
                            /\ mr'[k].status \in {"APPROVED", "CONVERTED", "CANCELLED"}
      BY <1>2 DEF IssuedAsAsked, LinesOf
  <2>1. k \notin raced
        BY <1>2, Ended
  <2> QED  BY <1>5, <1>6, <2>1 DEF IInv, IssuedAsAsked, LinesOf
<1>11. OneDocument'
  <2>1. \A k \in Mr : DocsOf(k)' = DocsOf(k)
        BY <1>2 DEF DocsOf
  <2> SUFFICES ASSUME NEW k \in Mr \ raced'
               PROVE  /\ mr'[k].status = "CONVERTED" <=> DocsOf(k) # {}
                      /\ \A d, e \in DocsOf(k) : d = e
                      /\ \A d \in DocsOf(k) : /\ doc[d].lines = mr'[k].lines
                                               /\ d \in {mr'[k].rfq, mr'[k].po}
      BY <1>2, <2>1 DEF OneDocument
  <2>2. k \notin raced
        BY <1>2, Ended
  <2>3. CASE k = m
    <3>1. DocsOf(m) = {} /\ mr'[m].status # "CONVERTED"
          BY <1>3, <1>5, <1>6, <2>2, <2>3 DEF IInv, OneDocument
    <3> QED  BY <2>3, <3>1
  <2>4. CASE k # m
        BY <1>5, <2>2, <2>4 DEF IInv, OneDocument
  <2> QED  BY <2>3, <2>4
<1> QED  BY <1>7, <1>8, <1>9, <1>10, <1>11 DEF IInv

LEMMA CommitConvertKeeps ==
    ASSUME IInv, NEW r \in Request, NEW d \in Doc, CommitConvert(r, d)
    PROVE  IInv'
<1>0. PICK q : q = req[r]
      OBVIOUS
<1>1. PICK m : m = q.mr
      OBVIOUS
<1> DEFINE new == [mr |-> m, lines |-> q.lines]
           row == [status |-> "CONVERTED", lines |-> mr[m].lines,
                   rfq |-> IF q.kind = "rfq" THEN d ELSE mr[m].rfq,
                   po  |-> IF q.kind = "po" THEN d ELSE mr[m].po]
<1>2. /\ Commit(r, {"rfq", "po"})
      /\ doc[d] = NoDoc
      /\ doc' = [doc EXCEPT ![d] = new]
      /\ mr' = [mr EXCEPT ![m] = row]
      /\ UNCHANGED <<owner, onHand, received, issued, stale>>
      BY <1>0, <1>1 DEF CommitConvert
<1>3. /\ m \in Mr /\ q.kind \in {"rfq", "po"} /\ q.lines \in SUBSET Line
      /\ m \notin raced' => mr[m].status = "APPROVED" /\ q.lines = mr[m].lines
  <2>1. q \in InFlight /\ q.kind \in {"rfq", "po"} /\ (q.mr \notin raced' => Admits(q))
        BY <1>0, <1>2, Ended
  <2> QED  BY <1>1, <2>1, Kinds DEF Admits
<1>4. mr \in [Mr -> MrRow] /\ doc \in [Doc -> DocRow \cup {NoDoc}]
      BY DEF IInv, TypeOK
<1>5. new \in DocRow /\ new # NoDoc /\ new.mr = m /\ new.lines = q.lines
      BY <1>3, NoDocAssumption DEF DocRow
<1>6. /\ row \in MrRow /\ row.status = "CONVERTED" /\ row.lines = mr[m].lines
      /\ d \in {row.rfq, row.po}
      BY <1>3, <1>4 DEF MrRow, MrStatus
<1> HIDE DEF new, row
<1>7. /\ mr' \in [Mr -> MrRow] /\ mr'[m] = row
      /\ \A k \in Mr : k # m => mr'[k] = mr[k]
      /\ \A k \in Mr : mr'[k].lines = mr[k].lines
      BY <1>2, <1>3, <1>4, <1>6
<1>8. /\ doc' \in [Doc -> DocRow \cup {NoDoc}] /\ doc'[d] = new
      /\ \A e \in Doc : e # d => doc'[e] = doc[e]
      BY <1>2, <1>4, <1>5
<1>9. TypeOK'
      BY <1>2, <1>7, <1>8, Ended DEF IInv, TypeOK
<1>10. RequestsSound' /\ Exclusive'
      BY <1>2, OthersSound
<1>11. LinesOwned' /\ Covered'
      BY <1>2, <1>7, Ended DEF IInv, LinesOwned, Covered
<1>12. IssuedAsAsked'
  <2> SUFFICES ASSUME NEW k \in Mr \ raced', NEW l \in Line, owner[l] = k
               PROVE  /\ issued[l] <= Asked[l]
                      /\ issued[l] > 0 =>
                            /\ l \in mr'[k].lines
                            /\ mr'[k].status \in {"APPROVED", "CONVERTED", "CANCELLED"}
      BY <1>2 DEF IssuedAsAsked, LinesOf
  <2>1. k \notin raced
        BY <1>2, Ended
  <2> QED  BY <1>6, <1>7, <2>1 DEF IInv, IssuedAsAsked, LinesOf
<1>13. OneDocument'
  <2> SUFFICES ASSUME NEW k \in Mr \ raced'
               PROVE  /\ mr'[k].status = "CONVERTED" <=> DocsOf(k)' # {}
                      /\ \A e, f \in DocsOf(k)' : e = f
                      /\ \A e \in DocsOf(k)' : /\ doc'[e].lines = mr'[k].lines
                                                /\ e \in {mr'[k].rfq, mr'[k].po}
      BY DEF OneDocument
  <2>1. k \notin raced
        BY <1>2, Ended
  <2>2. CASE k = m
    <3>1. DocsOf(m) = {}
          BY <1>3, <2>1, <2>2 DEF IInv, OneDocument
    <3>2. DocsOf(m)' = {d}
          BY <1>5, <1>8, <3>1 DEF DocsOf
    <3> QED  BY <1>3, <1>5, <1>6, <1>7, <1>8, <2>2, <3>2
  <2>3. CASE k # m
    <3>1. DocsOf(k)' = DocsOf(k) /\ \A e \in DocsOf(k) : doc'[e] = doc[e]
          BY <1>2, <1>5, <1>8, <2>3 DEF DocsOf
    <3> QED  BY <1>7, <2>1, <2>3, <3>1 DEF IInv, OneDocument
  <2> QED  BY <2>2, <2>3
<1> QED  BY <1>9, <1>10, <1>11, <1>12, <1>13 DEF IInv

LEMMA CommitApprovalKeeps ==
    ASSUME IInv, NEW r \in Request, CommitApproval(r)
    PROVE  IInv'
<1>0. PICK q : q = req[r]
      OBVIOUS
<1>1. PICK m : m = q.mr
      OBVIOUS
<1>2. /\ Commit(r, {"issue"})
      /\ q.left = {}
      /\ mr' = [mr EXCEPT ![m].status = "APPROVED"]
      /\ onHand' = [p \in Place |-> onHand[p] - q.out[p]]
      /\ issued' = [l \in Line |-> issued[l] + q.taken[l]]
      /\ UNCHANGED <<owner, received, doc, stale>>
      BY <1>0, <1>1 DEF CommitApproval
<1>3. /\ q \in InFlight /\ q.kind = "issue" /\ Sound(q) /\ r \in Open
      /\ m \notin raced' => Admits(q)
      BY <1>0, <1>1, <1>2, Ended DEF Open, InTransaction, Commit
<1>4. /\ m \in Mr /\ q.lines \in SUBSET Line
      /\ q.taken \in [Line -> Nat] /\ q.out \in [Place -> Nat]
      BY <1>1, <1>3, Kinds
<1>5. mr \in [Mr -> MrRow] /\ onHand \in [Place -> Int] /\ issued \in [Line -> Nat]
      BY DEF IInv, TypeOK
<1>6. m \notin raced' => mr[m].status = "SUBMITTED" /\ q.lines = mr[m].lines
      BY <1>1, <1>3, <1>4, StatusOf DEF Admits, MR_TRANSITIONS, MrStatus
<1>7. /\ mr' \in [Mr -> MrRow]
      /\ \A k \in Mr : k # m => mr'[k] = mr[k]
      /\ \A k \in Mr : mr'[k].lines = mr[k].lines
      /\ mr'[m].status = "APPROVED"
  <2>1. mr' = [mr EXCEPT ![m] = [mr[m] EXCEPT !.status = "APPROVED"]]
        BY <1>2, Zenon
  <2>2. /\ [mr[m] EXCEPT !.status = "APPROVED"] \in MrRow
        /\ [mr[m] EXCEPT !.status = "APPROVED"]
              = [status |-> "APPROVED", lines |-> mr[m].lines,
                 rfq |-> mr[m].rfq, po |-> mr[m].po]
        BY <1>4, <1>5, MovedRow DEF MrStatus
  <2> QED  BY <1>4, <1>5, <2>1, <2>2
<1>8. /\ \A p \in Place : onHand'[p] = onHand[p] - q.out[p] /\ onHand'[p] \in Int
      /\ \A l \in Line : issued'[l] = issued[l] + q.taken[l] /\ issued'[l] \in Nat
      BY <1>2, <1>4, <1>5
<1>9. TypeOK'
  <2>1. onHand' \in [Place -> Int] /\ issued' \in [Line -> Nat]
        BY <1>2, <1>4, <1>5
  <2> QED  BY <1>2, <1>7, <2>1, Ended DEF IInv, TypeOK
<1>10. RequestsSound' /\ Exclusive'
      BY <1>2, OthersSound
<1>11. \A l \in Line : q.taken[l] # 0 => l \in q.lines /\ owner[l] = m
      BY <1>1, <1>3 DEF Sound
<1>12. LinesOwned'
  <2>1. \A l \in Line : owner[l] = NoMr => issued'[l] = 0
        BY <1>4, <1>8, <1>11, LineAssumption DEF IInv, LinesOwned
  <2> QED  BY <1>2, <1>7, <2>1 DEF IInv, LinesOwned
<1>13. Covered'
  <2> SUFFICES ASSUME NEW p \in Place, p \notin stale
               PROVE  /\ onHand'[p] >= 0
                      /\ \A s \in Open' : req'[s].out[p] <= onHand'[p]
      BY <1>2 DEF Covered
  <2>1. onHand[p] >= 0 /\ q.out[p] <= onHand[p]
        BY <1>0, <1>3 DEF IInv, Covered
  <2>2. onHand[p] \in Int /\ q.out[p] \in Nat
        BY <1>4, <1>5
  <2>3. ASSUME NEW s \in Open' PROVE req'[s].out[p] <= onHand'[p]
    <3>1. s # r /\ s \in Open /\ req'[s] = req[s]
          BY <1>2, Ended
    <3>2. req[s].out[p] = 0 \/ q.out[p] = 0
          BY <1>0, <1>3, <3>1 DEF IInv, Exclusive
    <3>3. req[s].out[p] <= onHand[p]
          BY <3>1 DEF IInv, Covered
    <3>4. CASE req[s].out[p] = 0
          BY <1>8, <2>1, <2>2, <3>1, <3>4
    <3>5. CASE q.out[p] = 0
          BY <1>8, <2>2, <3>1, <3>3, <3>5
    <3> QED  BY <3>2, <3>4, <3>5
  <2> QED  BY <1>8, <2>1, <2>2, <2>3
<1>14. IssuedAsAsked'
  <2> SUFFICES ASSUME NEW k \in Mr \ raced', NEW l \in Line, owner[l] = k
               PROVE  /\ issued'[l] <= Asked[l]
                      /\ issued'[l] > 0 =>
                            /\ l \in mr'[k].lines
                            /\ mr'[k].status \in {"APPROVED", "CONVERTED", "CANCELLED"}
      BY <1>2 DEF IssuedAsAsked, LinesOf
  <2>1. k \notin raced
        BY <1>2, Ended
  <2>2. /\ issued[l] <= Asked[l]
        /\ issued[l] > 0 => mr[k].status \in {"APPROVED", "CONVERTED", "CANCELLED"}
        /\ issued[l] > 0 => l \in mr[k].lines
        BY <2>1 DEF IInv, IssuedAsAsked, LinesOf
  <2>3. CASE k = m
    <3>1. issued[l] = 0
          BY <1>5, <1>6, <2>2, <2>3
    <3>2. issued'[l] = q.taken[l] /\ q.taken[l] \in Nat /\ q.taken[l] <= Asked[l]
          BY <1>3, <1>4, <1>8, <3>1 DEF Sound
    <3> QED  BY <1>6, <1>7, <1>11, <2>3, <3>2
  <2>4. CASE k # m
    <3>1. issued'[l] = issued[l]
          BY <1>4, <1>5, <1>8, <1>11, <2>4
    <3> QED  BY <1>7, <2>2, <2>4, <3>1
  <2> QED  BY <2>3, <2>4
<1>15. OneDocument'
  <2>1. \A k \in Mr : DocsOf(k)' = DocsOf(k)
        BY <1>2 DEF DocsOf
  <2> SUFFICES ASSUME NEW k \in Mr \ raced'
               PROVE  /\ mr'[k].status = "CONVERTED" <=> DocsOf(k) # {}
                      /\ \A d, e \in DocsOf(k) : d = e
                      /\ \A d \in DocsOf(k) : /\ doc[d].lines = mr'[k].lines
                                               /\ d \in {mr'[k].rfq, mr'[k].po}
      BY <1>2, <2>1 DEF OneDocument
  <2>2. k \notin raced
        BY <1>2, Ended
  <2>3. CASE k = m
    <3>1. DocsOf(m) = {}
          BY <1>6, <2>2, <2>3 DEF IInv, OneDocument
    <3> QED  BY <1>7, <2>3, <3>1
  <2>4. CASE k # m
        BY <1>7, <2>2, <2>4 DEF IInv, OneDocument
  <2> QED  BY <2>3, <2>4
<1> QED  BY <1>9, <1>10, <1>12, <1>13, <1>14, <1>15 DEF IInv

LEMMA ApplyInKeeps ==
    ASSUME IInv, NEW p \in Place, ApplyIn(p)
    PROVE  IInv'
<1>1. /\ onHand' = [onHand EXCEPT ![p] = @ + 1]
      /\ received' = [received EXCEPT ![p] = @ + 1]
      /\ UNCHANGED <<mr, owner, issued, doc, req, raced, stale>>
      BY DEF ApplyIn
<1>2. onHand \in [Place -> Int] /\ received \in [Place -> Nat]
      BY DEF IInv, TypeOK
<1>3. \A x \in Place : /\ onHand[x] \in Int
                        /\ onHand'[x] = IF x = p THEN onHand[x] + 1 ELSE onHand[x]
      BY <1>1, <1>2
<1>4. TypeOK'
      BY <1>1, <1>2 DEF IInv, TypeOK
<1>5. (RequestsSound /\ LinesOwned /\ Exclusive /\ IssuedAsAsked /\ OneDocument)'
      BY <1>1 DEF IInv, RequestsSound, Busy, Sound, LinesOwned, Exclusive, Open,
                  InTransaction, IssuedAsAsked, LinesOf, OneDocument, DocsOf
<1>6. Covered'
  <2> SUFFICES ASSUME NEW x \in Place, x \notin stale
               PROVE  /\ onHand'[x] >= 0
                      /\ \A s \in Open : req[s].out[x] <= onHand'[x]
      BY <1>1 DEF Covered, Open, InTransaction
  <2>1. onHand[x] >= 0 /\ \A s \in Open : req[s].out[x] <= onHand[x]
        BY DEF IInv, Covered
  <2>2. \A s \in Open : req[s].out[x] \in Nat
    <3> SUFFICES ASSUME NEW s \in Open PROVE req[s].out[x] \in Nat
        OBVIOUS
    <3>1. req[s] \in InFlight /\ req[s].kind = "issue"
          BY DEF Open, InTransaction, IInv, TypeOK
    <3> QED  BY <3>1, Kinds
  <2> QED  BY <1>3, <2>1, <2>2
<1> QED  BY <1>4, <1>5, <1>6 DEF IInv

-------------------------------------------------------------------------------
(* The theorems.                                                           *)

LEMMA StepIInv == IInv /\ [Next]_vars => IInv'
<1> SUFFICES ASSUME IInv, [Next]_vars PROVE IInv'
    OBVIOUS
<1>1. CASE UNCHANGED vars
      BY <1>1 DEF vars, IInv, TypeOK, RequestsSound, Busy, Sound, LinesOwned, Exclusive,
                  Covered, Open, InTransaction, IssuedAsAsked, LinesOf, OneDocument, DocsOf
<1>2. CASE \E p \in Place : ApplyIn(p)
      BY <1>2, ApplyInKeeps
<1>3. ASSUME NEW r \in Request, NEW m \in Mr,
             \/ Update(r, m) \/ Submit(r, m) \/ Decline(r, m) \/ Cancel(r, m)
             \/ Approve(r, m) \/ ConvertToRfq(r, m) \/ ConvertToPo(r, m)
      PROVE  IInv'
      BY <1>3, ReadKeeps
<1>4. ASSUME NEW r \in Request,
             \/ RollBack(r) \/ CommitUpdate(r) \/ CommitMove(r)
             \/ \E d \in Doc : CommitConvert(r, d)
      PROVE  IInv'
      BY <1>4, RollBackKeeps, CommitUpdateKeeps, CommitMoveKeeps, CommitConvertKeeps
<1>5. ASSUME NEW r \in Request,
             \/ OpenApproval(r) \/ \E l \in Line : ReadOnHand(r, l)
             \/ IssueNothing(r) \/ IssueOut(r) \/ CommitApproval(r)
      PROVE  IInv'
      BY <1>5, OpenApprovalKeeps, ReadOnHandKeeps, IssueNothingKeeps, IssueOutKeeps,
         CommitApprovalKeeps
<1> QED  BY <1>1, <1>2, <1>3, <1>4, <1>5 DEF Next

\* The inductive invariant holds throughout.
THEOREM Invariance == Spec => []IInv
BY InitIInv, StepIInv, PTL DEF Spec

\* Every row and every request in flight has its type.
THEOREM TypeCorrect == Spec => []TypeOK
<1>1. IInv => TypeOK
      BY DEF IInv
<1> QED  BY <1>1, Invariance, PTL

\* A balance below zero is the work of an approval that took from a balance which
\* had gone down since it was read.
THEOREM ClampCovers == Spec => []OnHandCoversIssues
<1>1. IInv => OnHandCoversIssues
      BY DEF IInv, Covered, OnHandCoversIssues
<1> QED  BY <1>1, Invariance, PTL

\* No more is issued for a line than it asks for, and only by its approval, as long
\* as no write lands on the request that its handler would by then refuse.
THEOREM IssueOnce == Spec => []IssuedAsAsked
<1>1. IInv => IssuedAsAsked
      BY DEF IInv
<1> QED  BY <1>1, Invariance, PTL

\* A request is converted into one document at most, for the lines it has, as long as
\* no write lands on it that its handler would by then refuse.
THEOREM ConvertOnce == Spec => []OneDocument
<1>1. IInv => OneDocument
      BY DEF IInv
<1> QED  BY <1>1, Invariance, PTL

-------------------------------------------------------------------------------
(* Totals.                                                                 *)

LEMMA UnitsAre ==
    ASSUME NEW f, NEW ls
    PROVE  /\ \A u \in Units(f, ls) : /\ u = <<u[1], u[2]>>
                                      /\ u[1] \in ls /\ u[2] \in 1..f[u[1]]
           /\ \A l \in ls : \A n \in 1..f[l] : <<l, n>> \in Units(f, ls)
BY DEF Units

LEMMA UnitsOfOne ==
    ASSUME NEW l, NEW n \in Nat
    PROVE  IsFiniteSet({l} \X (1..n)) /\ Cardinality({l} \X (1..n)) = n
<1>1. IsFiniteSet({l}) /\ Cardinality({l}) = 1
      BY FS_Singleton
<1>2. IsFiniteSet(1..n) /\ Cardinality(1..n) = IF 1 > n THEN 0 ELSE n - 1 + 1
      BY FS_Interval
<1>3. Cardinality(1..n) = n
      BY <1>2
<1>4. IsFiniteSet({l} \X (1..n)) /\ Cardinality({l} \X (1..n)) = Cardinality({l}) * Cardinality(1..n)
      BY <1>1, <1>2, FS_Product
<1> QED  BY <1>1, <1>3, <1>4

LEMMA UnitsFinite ==
    ASSUME NEW f \in [Line -> Nat], NEW ls \in SUBSET Line
    PROVE  IsFiniteSet(Units(f, ls)) /\ Total(f, ls) \in Nat
<1>1. IsFiniteSet(ls)
      BY LineAssumption, FS_Subset
<1> DEFINE Of(l) == {l} \X (1..f[l])
<1>2. IsFiniteSet({Of(l) : l \in ls})
  <2> DEFINE T == {Of(l) : l \in ls}
             all == [l \in ls |-> Of(l)]
  <2>1. all \in [ls -> T] /\ \A t \in T : \E l \in ls : all[l] = t
        OBVIOUS
  <2> HIDE DEF T, all
  <2>2. all \in Surjection(ls, T)
        BY <2>1, Fun_IsSurj
  <2> QED  BY <1>1, <2>2, FS_Surjection DEF T
<1>3. ASSUME NEW l \in ls PROVE IsFiniteSet(Of(l))
      BY UnitsOfOne
<1>4. IsFiniteSet(UNION {Of(l) : l \in ls})
  <2> HIDE DEF Of
  <2>1. \A t \in {Of(l) : l \in ls} : IsFiniteSet(t)
        BY <1>3
  <2> QED  BY <1>2, <2>1, FS_UNION
<1>5. IsFiniteSet(Units(f, ls))
      BY <1>4 DEF Units
<1> QED  BY <1>5, FS_CardinalityType DEF Total

\* A total over no units.
LEMMA TotalNone ==
    ASSUME NEW f \in [Line -> Nat], NEW ls \in SUBSET Line, \A l \in ls : f[l] = 0
    PROVE  Total(f, ls) = 0
<1>1. Units(f, ls) = {}
      BY UnitsAre
<1> QED  BY <1>1, FS_EmptySet DEF Total

LEMMA CardinalityOfRest ==
    ASSUME NEW S, NEW T, IsFiniteSet(S), T \subseteq S
    PROVE  Cardinality(S \ T) = Cardinality(S) - Cardinality(T)
<1>1. Cardinality(S \ T) = Cardinality(S) - Cardinality(S \cap T)
      BY FS_Difference
<1>2. S \cap T = T
      OBVIOUS
<1> QED  BY <1>1, <1>2

\* The units of a sum are those of its first part, and as many more as the
\* second part has.
LEMMA TotalAdds ==
    ASSUME NEW f \in [Line -> Nat], NEW g \in [Line -> Nat], NEW ls \in SUBSET Line,
           NEW h \in [Line -> Nat], \A l \in Line : h[l] = f[l] + g[l]
    PROVE  Total(h, ls) = Total(f, ls) + Total(g, ls)
<1> DEFINE U == Units(f, ls)
           V == Units(g, ls)
           W == Units(h, ls) \ U
           up == [u \in V |-> <<u[1], f[u[1]] + u[2]>>]
<1>1. IsFiniteSet(U) /\ IsFiniteSet(V) /\ IsFiniteSet(Units(h, ls))
      BY UnitsFinite
<1>2. U \subseteq Units(h, ls)
  <2> SUFFICES ASSUME NEW u \in U PROVE u \in Units(h, ls)
      OBVIOUS
  <2>1. u = <<u[1], u[2]>> /\ u[1] \in ls /\ u[2] \in 1..f[u[1]]
        BY UnitsAre
  <2>2. u[2] \in 1..h[u[1]]
        BY <2>1
  <2> QED  BY <2>1, <2>2, UnitsAre
<1>3. \A u \in V : up[u] \in W
  <2> SUFFICES ASSUME NEW u \in V PROVE up[u] \in W
      OBVIOUS
  <2>1. u[1] \in ls /\ u[2] \in 1..g[u[1]]
        BY UnitsAre
  <2>2. f[u[1]] + u[2] \in 1..h[u[1]] /\ f[u[1]] + u[2] \notin 1..f[u[1]]
        BY <2>1
  <2>3. <<u[1], f[u[1]] + u[2]>> \in Units(h, ls)
        BY <2>1, <2>2, UnitsAre
  <2>4. <<u[1], f[u[1]] + u[2]>> \notin U
        BY <2>2, UnitsAre
  <2> QED  BY <2>3, <2>4
<1>4. \A u, v \in V : up[u] = up[v] => u = v
  <2> SUFFICES ASSUME NEW u \in V, NEW v \in V, up[u] = up[v] PROVE u = v
      OBVIOUS
  <2>1. /\ u = <<u[1], u[2]>> /\ u[1] \in ls /\ u[2] \in 1..g[u[1]]
        /\ v = <<v[1], v[2]>> /\ v[1] \in ls /\ v[2] \in 1..g[v[1]]
        BY UnitsAre
  <2>2. u[1] = v[1] /\ f[u[1]] + u[2] = f[v[1]] + v[2]
        OBVIOUS
  <2>3. u[2] = v[2]
        BY <2>1, <2>2
  <2> QED  BY <2>1, <2>2, <2>3
<1>5. \A w \in W : \E u \in V : up[u] = w
  <2> SUFFICES ASSUME NEW w \in W PROVE \E u \in V : up[u] = w
      OBVIOUS
  <2>1. w = <<w[1], w[2]>> /\ w[1] \in ls /\ w[2] \in 1..h[w[1]]
        BY UnitsAre
  <2>2. w[2] \notin 1..f[w[1]]
        BY <2>1, UnitsAre
  <2>3. w[2] - f[w[1]] \in 1..g[w[1]]
        BY <2>1, <2>2
  <2>4. PICK u : u = <<w[1], w[2] - f[w[1]]>>
        OBVIOUS
  <2>5. u \in V
        BY <2>1, <2>3, <2>4, UnitsAre
  <2>6. f[u[1]] + u[2] = w[2]
        BY <2>1, <2>4
  <2> QED  BY <2>1, <2>4, <2>5, <2>6
<1>6. up \in Bijection(V, W)
  <2> HIDE DEF V, W
  <2>1. up \in [V -> W]
        BY <1>3
  <2> HIDE DEF up
  <2> QED  BY <1>4, <1>5, <2>1, Fun_IsBij
<1>7. Cardinality(W) = Cardinality(V)
      BY <1>1, <1>6, FS_Bijection DEF ExistsBijection
<1>8. Cardinality(W) = Cardinality(Units(h, ls)) - Cardinality(U)
      BY <1>1, <1>2, CardinalityOfRest
<1>9. Cardinality(U) \in Nat /\ Cardinality(V) \in Nat /\ Cardinality(Units(h, ls)) \in Nat
      BY <1>1, FS_CardinalityType
<1>10. Cardinality(Units(h, ls)) = Cardinality(U) + Cardinality(V)
  <2> HIDE DEF U, V, W
  <2> QED  BY <1>7, <1>8, <1>9
<1> QED  BY <1>10 DEF Total

\* A total of one line's units.
LEMMA TotalOne ==
    ASSUME NEW f \in [Line -> Nat], NEW ls \in SUBSET Line, NEW l \in ls,
           \A k \in ls : k # l => f[k] = 0
    PROVE  Total(f, ls) = f[l]
<1>1. Units(f, ls) = {l} \X (1..f[l])
  <2>1. ASSUME NEW u \in Units(f, ls) PROVE u \in {l} \X (1..f[l])
        BY UnitsAre
  <2>2. ASSUME NEW u \in {l} \X (1..f[l]) PROVE u \in Units(f, ls)
        BY UnitsAre
  <2> QED  BY <2>1, <2>2
<1>2. PICK n \in Nat : n = f[l]
      OBVIOUS
<1>3. Cardinality({l} \X (1..n)) = n
      BY UnitsOfOne
<1> QED  BY <1>1, <1>2, <1>3 DEF Total

-------------------------------------------------------------------------------
(* The balance and its ledger. What an open transaction took from a place  *)
(* is what it took for the lines of that place, so that its commit moves   *)
(* both sides by the same number.                                          *)

TakenByPlace ==
    \A r \in Open : \A p \in Place :
        req[r].out[p] = Total(req[r].taken, LinesAt(p))

Ledger == TakenByPlace /\ BalanceIsLedger

LEMMA InitLedger == Init => Ledger
<1> SUFFICES ASSUME Init PROVE Ledger
    OBVIOUS
<1>1. TakenByPlace
      BY DEF Init, TakenByPlace, Open, InTransaction
<1>2. ASSUME NEW p \in Place PROVE onHand[p] = received[p] - Total(issued, LinesAt(p))
  <2>1. issued \in [Line -> Nat] /\ \A l \in LinesAt(p) : issued[l] = 0
        BY DEF Init, LinesAt
  <2>2. Total(issued, LinesAt(p)) = 0
        BY <2>1, TotalNone DEF LinesAt
  <2>3. onHand[p] = 0 /\ received[p] = 0
        BY DEF Init
  <2> QED  BY <2>2, <2>3
<1> QED  BY <1>1, <1>2 DEF Ledger, BalanceIsLedger

\* A step that writes no balance and no movement, and leaves one request changed.
LEMMA RequestLedger ==
    ASSUME IInv, Ledger, NEW r \in Request, NEW new,
           req' = [req EXCEPT ![r] = new],
           UNCHANGED <<onHand, received, issued>>,
           new # NoRequest /\ new.kind = "issue" =>
               \A p \in Place : new.out[p] = Total(new.taken, LinesAt(p))
    PROVE  Ledger'
<1>1. \A s \in Request : req'[s] = IF s = r THEN new ELSE req[s]
      BY DEF IInv, TypeOK
<1>2. TakenByPlace'
  <2> SUFFICES ASSUME NEW s \in Open', NEW p \in Place
               PROVE  req'[s].out[p] = Total(req'[s].taken, LinesAt(p))
      BY DEF TakenByPlace, Total, Units, LinesAt
  <2>1. CASE s = r
        BY <1>1, <2>1 DEF Open, InTransaction
  <2>2. CASE s # r
        BY <1>1, <2>2 DEF Open, InTransaction, Ledger, TakenByPlace
  <2> QED  BY <2>1, <2>2
<1>3. BalanceIsLedger'
      BY DEF Ledger, BalanceIsLedger, Total, Units, LinesAt
<1> QED  BY <1>2, <1>3 DEF Ledger

LEMMA OpenApprovalLedger ==
    ASSUME IInv, Ledger, NEW r \in Request, OpenApproval(r)
    PROVE  Ledger'
<1> DEFINE none == [l \in Line |-> 0]
           new == [kind |-> "issue", mr |-> req[r].mr, lines |-> req[r].lines,
                   left |-> {l \in req[r].lines : PlaceOf[l] # NoPlace},
                   reading |-> NoLine, read |-> 0, taken |-> none,
                   out |-> [p \in Place |-> 0]]
<1>1. req' = [req EXCEPT ![r] = new] /\ UNCHANGED <<onHand, received, issued>>
      BY DEF OpenApproval, GoOn
<1>2. ASSUME NEW p \in Place PROVE new.out[p] = Total(new.taken, LinesAt(p))
  <2>1. none \in [Line -> Nat] /\ \A l \in LinesAt(p) : none[l] = 0
        BY DEF LinesAt
  <2> HIDE DEF none
  <2>2. Total(none, LinesAt(p)) = 0
        BY <2>1, TotalNone DEF LinesAt
  <2> QED  BY <2>2
<1> HIDE DEF new
<1> QED  BY <1>1, <1>2, RequestLedger

\* A statement that takes nothing.
LEMMA TakeNothingLedger ==
    ASSUME IInv, Ledger, NEW r \in Request, InTransaction(r), NEW left, NEW reading,
           NEW read, GoOn(r, left, reading, read, req[r].taken, req[r].out),
           UNCHANGED <<onHand, received, issued>>
    PROVE  Ledger'
<1> DEFINE new == [kind |-> "issue", mr |-> req[r].mr, lines |-> req[r].lines,
                   left |-> left, reading |-> reading, read |-> read,
                   taken |-> req[r].taken, out |-> req[r].out]
<1>1. req' = [req EXCEPT ![r] = new]
      BY DEF GoOn
<1>2. \A p \in Place : new.out[p] = Total(new.taken, LinesAt(p))
      BY DEF Ledger, TakenByPlace, Open
<1> HIDE DEF new
<1> QED  BY <1>1, <1>2, RequestLedger

LEMMA IssueOutLedger ==
    ASSUME IInv, Ledger, NEW r \in Request, IssueOut(r)
    PROVE  Ledger'
<1>0. PICK q : q = req[r]
      OBVIOUS
<1>1. q \in InFlight /\ q.kind = "issue" /\ Sound(q) /\ r \in Open
      BY <1>0 DEF IInv, TypeOK, RequestsSound, Busy, InTransaction, IssueOut, Open
<1>2. /\ q.left \in SUBSET Line /\ q.read \in Int
      /\ q.taken \in [Line -> Nat] /\ q.out \in [Place -> Nat]
      BY <1>1, Kinds
<1>3. PICK l : l = q.reading
      OBVIOUS
<1>4. l \in Line /\ PlaceOf[l] \in Place
      BY <1>0, <1>1, <1>2, <1>3 DEF IssueOut, Sound
<1>5. PICK n : n = Clamped(l, q.read)
      OBVIOUS
<1>6. n \in Nat
      BY <1>0, <1>2, <1>3, <1>4, <1>5, ClampedBounds DEF IssueOut
<1> DEFINE taken == [q.taken EXCEPT ![l] = @ + n]
           out == [q.out EXCEPT ![PlaceOf[l]] = @ + n]
           one == [k \in Line |-> IF k = l THEN n ELSE 0]
           new == [kind |-> "issue", mr |-> q.mr, lines |-> q.lines,
                   left |-> q.left \ {l}, reading |-> NoLine, read |-> 0,
                   taken |-> taken, out |-> out]
<1>7. req' = [req EXCEPT ![r] = new] /\ UNCHANGED <<onHand, received, issued>>
      BY <1>0, <1>3, <1>5 DEF IssueOut, GoOn
<1>8. new.taken = taken /\ new.out = out
      OBVIOUS
<1>9. /\ taken \in [Line -> Nat] /\ one \in [Line -> Nat]
      /\ \A k \in Line : taken[k] = q.taken[k] + one[k]
      /\ one[l] = n /\ \A k \in Line : k # l => one[k] = 0
      BY <1>2, <1>4, <1>6
<1>10. \A p \in Place : out[p] = IF p = PlaceOf[l] THEN q.out[p] + n ELSE q.out[p]
      BY <1>2, <1>4
<1> HIDE DEF new, taken, out, one
<1>11. ASSUME NEW p \in Place PROVE out[p] = Total(taken, LinesAt(p))
  <2>1. LinesAt(p) \in SUBSET Line
        BY DEF LinesAt
  <2>2. Total(taken, LinesAt(p)) = Total(q.taken, LinesAt(p)) + Total(one, LinesAt(p))
        BY <1>2, <1>9, <2>1, TotalAdds
  <2>3. q.out[p] = Total(q.taken, LinesAt(p))
        BY <1>0, <1>1 DEF Ledger, TakenByPlace
  <2>4. CASE p = PlaceOf[l]
    <3>1. l \in LinesAt(p)
          BY <1>4, <2>4 DEF LinesAt
    <3>2. Total(one, LinesAt(p)) = one[l]
          BY <1>9, <2>1, <3>1, TotalOne
    <3> QED  BY <1>9, <1>10, <2>2, <2>3, <2>4, <3>2
  <2>5. CASE p # PlaceOf[l]
    <3>1. \A k \in LinesAt(p) : one[k] = 0
          BY <1>9, <2>5 DEF LinesAt
    <3>2. Total(one, LinesAt(p)) = 0
          BY <1>9, <2>1, <3>1, TotalNone
    <3>3. q.out[p] \in Nat
          BY <1>2
    <3> QED  BY <1>10, <2>2, <2>3, <2>5, <3>2, <3>3
  <2> QED  BY <2>4, <2>5
<1> QED  BY <1>7, <1>8, <1>11, RequestLedger

LEMMA CommitApprovalLedger ==
    ASSUME IInv, Ledger, NEW r \in Request, CommitApproval(r)
    PROVE  Ledger'
<1>0. PICK q : q = req[r]
      OBVIOUS
<1>1. /\ Commit(r, {"issue"})
      /\ onHand' = [p \in Place |-> onHand[p] - q.out[p]]
      /\ issued' = [l \in Line |-> issued[l] + q.taken[l]]
      /\ UNCHANGED received
      BY <1>0 DEF CommitApproval
<1>2. q \in InFlight /\ q.kind = "issue" /\ r \in Open
      BY <1>0, <1>1, Ended DEF Open, InTransaction, Commit
<1>3. /\ q.taken \in [Line -> Nat] /\ q.out \in [Place -> Nat]
      /\ onHand \in [Place -> Int] /\ received \in [Place -> Nat]
      /\ issued \in [Line -> Nat]
      BY <1>2, Kinds DEF IInv, TypeOK
<1>4. issued' \in [Line -> Nat] /\ \A l \in Line : issued'[l] = issued[l] + q.taken[l]
      BY <1>1, <1>3
<1>5. TakenByPlace'
      BY <1>1, Ended DEF Ledger, TakenByPlace, Total, Units, LinesAt
<1>6. ASSUME NEW p \in Place PROVE onHand'[p] = received'[p] - Total(issued', LinesAt(p))
  <2>1. LinesAt(p) \in SUBSET Line
        BY DEF LinesAt
  <2>2. Total(issued', LinesAt(p)) = Total(issued, LinesAt(p)) + Total(q.taken, LinesAt(p))
        BY <1>3, <1>4, <2>1, TotalAdds
  <2>3. Total(issued, LinesAt(p)) \in Nat /\ Total(q.taken, LinesAt(p)) \in Nat
        BY <1>3, <2>1, UnitsFinite
  <2>4. /\ onHand[p] = received[p] - Total(issued, LinesAt(p))
        /\ q.out[p] = Total(q.taken, LinesAt(p))
        BY <1>0, <1>2 DEF Ledger, BalanceIsLedger, TakenByPlace
  <2>5. onHand'[p] = onHand[p] - q.out[p] /\ received'[p] = received[p]
        BY <1>1
  <2>6. received[p] \in Nat
        BY <1>3
  <2> QED  BY <2>2, <2>3, <2>4, <2>5, <2>6
<1>7. BalanceIsLedger'
      BY <1>6 DEF BalanceIsLedger, Total, Units, LinesAt
<1> QED  BY <1>5, <1>7 DEF Ledger

LEMMA ApplyInLedger ==
    ASSUME IInv, Ledger, NEW p \in Place, ApplyIn(p)
    PROVE  Ledger'
<1>1. /\ onHand' = [onHand EXCEPT ![p] = @ + 1]
      /\ received' = [received EXCEPT ![p] = @ + 1]
      /\ UNCHANGED <<issued, req>>
      BY DEF ApplyIn
<1>2. TakenByPlace'
      BY <1>1 DEF Ledger, TakenByPlace, Open, InTransaction, Total, Units, LinesAt
<1>3. ASSUME NEW x \in Place PROVE onHand'[x] = received'[x] - Total(issued, LinesAt(x))
  <2>1. onHand \in [Place -> Int] /\ received \in [Place -> Nat]
        BY DEF IInv, TypeOK
  <2>2. Total(issued, LinesAt(x)) \in Nat
        BY UnitsFinite DEF IInv, TypeOK, LinesAt
  <2>3. onHand[x] = received[x] - Total(issued, LinesAt(x))
        BY DEF Ledger, BalanceIsLedger
  <2> QED  BY <1>1, <2>1, <2>2, <2>3
<1>4. BalanceIsLedger'
      BY <1>1, <1>3 DEF BalanceIsLedger, Total, Units, LinesAt
<1> QED  BY <1>2, <1>4 DEF Ledger

LEMMA StepLedger == IInv /\ Ledger /\ [Next]_vars => Ledger'
<1> SUFFICES ASSUME IInv, Ledger, [Next]_vars PROVE Ledger'
    OBVIOUS
<1>1. CASE UNCHANGED vars
      BY <1>1 DEF vars, Ledger, TakenByPlace, Open, InTransaction, BalanceIsLedger,
                  Total, Units, LinesAt
<1>2. CASE \E p \in Place : ApplyIn(p)
      BY <1>2, ApplyInLedger
<1>3. ASSUME NEW r \in Request, NEW q, q.kind # "issue", Begin(r, q)
      PROVE  Ledger'
      BY <1>3, RequestLedger DEF Begin
<1>4. ASSUME NEW r \in Request, NEW m \in Mr,
             \/ Update(r, m) \/ Submit(r, m) \/ Decline(r, m) \/ Cancel(r, m)
             \/ Approve(r, m) \/ ConvertToRfq(r, m) \/ ConvertToPo(r, m)
      PROVE  Ledger'
  <2>1. CASE Update(r, m)
        BY <1>3, <2>1 DEF Update
  <2>2. CASE Submit(r, m) \/ Decline(r, m) \/ Cancel(r, m)
        BY <1>3, <2>2 DEF Submit, Decline, Cancel
  <2>3. CASE Approve(r, m) \/ ConvertToRfq(r, m) \/ ConvertToPo(r, m)
        BY <1>3, <2>3 DEF Approve, ConvertToRfq, ConvertToPo
  <2> QED  BY <1>4, <2>1, <2>2, <2>3
<1>5. ASSUME NEW r \in Request, RollBack(r) PROVE Ledger'
      BY <1>5, RequestLedger DEF RollBack
<1>6. ASSUME NEW r \in Request,
             CommitUpdate(r) \/ CommitMove(r) \/ \E d \in Doc : CommitConvert(r, d)
      PROVE  Ledger'
  <2>1. req' = [req EXCEPT ![r] = NoRequest] /\ UNCHANGED <<onHand, received, issued>>
        BY <1>6 DEF CommitUpdate, CommitMove, CommitConvert, Commit
  <2> QED  BY <2>1, RequestLedger
<1>7. ASSUME NEW r \in Request, NEW l \in Line, ReadOnHand(r, l) PROVE Ledger'
      BY <1>7, TakeNothingLedger DEF ReadOnHand
<1>8. ASSUME NEW r \in Request, IssueNothing(r) PROVE Ledger'
      BY <1>8, TakeNothingLedger DEF IssueNothing
<1> QED  BY <1>1, <1>2, <1>4, <1>5, <1>6, <1>7, <1>8, OpenApprovalLedger,
            IssueOutLedger, CommitApprovalLedger DEF Next

\* However receipts and approvals overlap, and however many, each balance is what
\* came in less what was issued for the lines drawn from it.
THEOREM LedgerKept == Spec => []BalanceIsLedger
<1>1. Ledger => BalanceIsLedger
      BY DEF Ledger
<1> QED  BY <1>1, InitLedger, StepLedger, Invariance, PTL DEF Spec

===============================================================================
