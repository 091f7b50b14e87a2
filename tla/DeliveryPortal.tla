---------------------------- MODULE DeliveryPortal ----------------------------
(***************************************************************************)
(* The public delivery portal of one purchase order: the page behind the   *)
(* QR link (PublicDeliveryPage.tsx), the mailed access codes of            *)
(* delivery-code.service.ts, and the session token a code is exchanged     *)
(* for, with the calls it admits (access-tokens.service.ts,                *)
(* delivery-portal.service.ts).                                            *)
(*                                                                         *)
(* A page runs the four steps of the form and waits for the calls it made; *)
(* a call is a request at the server, which goes on when the page gives up *)
(* on it or is reopened. Each database round trip of a request is a step.  *)
(* All pages use one link and one e-mail address, the case in which they   *)
(* meet: the codes of that address are one row, replaced as a whole.       *)
(***************************************************************************)
EXTENDS Naturals, Sequences, FiniteSets, SequencesExt

CONSTANTS
    Page,          \* browser tabs opened from the QR code
    Req,           \* bound: requests at the server at one time
    File,          \* damage photos and supporting files the person attaches
    MaxActive,     \* MAX_ACTIVE_CODES, 3 in the code
    MaxAttempts,   \* MAX_ATTEMPTS of a code row, 3 in the code
    LinkLimit,     \* maxAttempts of the link's token, 10 in the code
    CallLimit,     \* maxAttempts of a session token, 10 in the code
    MaxCodes,      \* bound: codes generated
    MaxFaults      \* bound: answers lost and requests that die

ASSUME LimitAssumption ==
    {MaxActive, MaxAttempts, LinkLimit, CallLimit} \subseteq Nat \ {0}
ASSUME BoundAssumption == MaxCodes \in Nat /\ MaxFaults \in Nat

VARIABLES
    page,      \* page[p]: the step of the form
    waits,     \* waits[p]: the requests page p awaits
    todo,      \* todo[p]: the files of this submission still to be sent
    failed,    \* failed[p]: the files of this submission whose upload failed
    holds,     \* holds[p]: the session whose token the page has, or 0
    req,       \* req[r]: a request at the server
    slot,      \* the DeliveryAccessCode row: codes, newest first, and misses
    generated, \* how many codes were generated; codes are numbered so
    lapsed,    \* the newest code whose 15 minutes are over
    mailed,    \* the codes that reached the person
    linkCalls, \* attempts of the link's token
    sessions,  \* DELIVERY_SESSION tokens, in the order they were issued
    reports,   \* delivery reports made here: reports[i] is the session that did
    due,       \* history: codes stored since the row was deleted, newest first
    opened,    \* history: opened[c], how many sessions code c opened
    crossed,   \* history: the row was written over codes the writer had not read
    unlucky,   \* history: pages with a call that got lost or was turned away
    faults     \* history: faults so far

pageVars == <<page, waits, todo, failed, holds>>
codeVars == <<slot, generated, lapsed, mailed, due, opened, crossed>>
sessionVars == <<sessions, reports>>
faultVars == <<unlucky, faults>>
portalVars == <<pageVars, req, codeVars, linkCalls, sessionVars, faultVars>>

-------------------------------------------------------------------------------

Step == {"closed", "error", "identify", "code", "form", "uploading",
         "finalizing", "submitted"}

Code == 1..MaxCodes
Mistyped == 0

\* A row without codes is no row: none is ever written empty.
Slot == [codes : Seq(Code), attempts : Nat]
NoSlot == [codes |-> <<>>, attempts |-> 0]

Session == [calls : 0..CallLimit, used : BOOLEAN, live : BOOLEAN, report : Nat]

Idle == [op |-> "none"]
CodeReq == [op : {"identify", "verify"}, page : Page, code : Nat,
            seen : Seq(Code), valid : Seq(Code), attempts : Nat]
SessionReq == [op : {"submit", "finalize"}, page : Page,
               step : {"read", "admitted", "created"}, session : Nat,
               used : BOOLEAN, report : Nat]
UploadReq == [op : {"upload"}, page : Page, file : File]

PortalTypeOK ==
    /\ page \in [Page -> Step] /\ waits \in [Page -> SUBSET Req]
    /\ todo \in [Page -> SUBSET File] /\ failed \in [Page -> SUBSET File]
    /\ holds \in [Page -> Nat]
    /\ req \in [Req -> {Idle} \cup CodeReq \cup SessionReq \cup UploadReq]
    /\ slot \in Slot /\ Len(slot.codes) <= MaxActive
    /\ generated \in 0..MaxCodes /\ lapsed \in 0..generated
    /\ mailed \subseteq 1..generated
    /\ linkCalls \in 0..LinkLimit
    /\ sessions \in Seq(Session) /\ reports \in Seq(Nat)
    /\ due \in Seq(Code) /\ opened \in [Code -> Nat] /\ crossed \in BOOLEAN
    /\ unlucky \subseteq Page /\ faults \in 0..MaxFaults

\* A link that was just generated for an order that can be delivered.
PortalInit ==
    /\ page = [p \in Page |-> "closed"] /\ waits = [p \in Page |-> {}]
    /\ todo = [p \in Page |-> {}] /\ failed = [p \in Page |-> {}]
    /\ holds = [p \in Page |-> 0]
    /\ req = [r \in Req |-> Idle]
    /\ slot = NoSlot /\ generated = 0 /\ lapsed = 0 /\ mailed = {}
    /\ linkCalls = 0 /\ sessions = <<>> /\ reports = <<>>
    /\ due = <<>> /\ opened = [c \in Code |-> 0] /\ crossed = FALSE
    /\ unlucky = {} /\ faults = 0

\* The codes still valid, in the order of the list: the k-th is the one in the
\* live place that has k live places up to it.
Unexpired(codes) ==
    LET live == {i \in DOMAIN codes : codes[i] > lapsed}
        Nth(k) == CHOOSE i \in live : Cardinality({j \in live : j <= i}) = k
    IN  [k \in 1..Cardinality(live) |-> codes[Nth(k)]]

Newest(codes) == SubSeq(codes, 1, IF Len(codes) < MaxActive THEN Len(codes)
                                                            ELSE MaxActive)

-------------------------------------------------------------------------------
(* Answers. A page that no longer awaits the request does not see one.     *)

\* Mutant: the page goes on when its report was refused.
AfterAnyway(step, op, ok) ==
    CASE op = "identify" -> IF ok THEN "code" ELSE step
      [] op = "verify"   -> IF ok THEN "form" ELSE step
      [] op = "submit"   -> "uploading"
      [] op = "upload"   -> step
      [] op = "finalize" -> IF ok THEN "submitted" ELSE "form"

\* Where the page goes on an answer to a call of this kind.
After(step, op, ok) ==
    CASE op = "identify" -> IF ok THEN "code" ELSE step
      [] op = "verify"   -> IF ok THEN "form" ELSE step
      [] op = "submit"   -> IF ok THEN "uploading" ELSE "form"
      [] op = "upload"   -> step
      [] op = "finalize" -> IF ok THEN "submitted" ELSE "form"

\* What page p does when its request r is answered, or given up on; s is the
\* session of a successful verification. Uploads are started as soon as the
\* report is there, and allSettled takes any outcome.
Settle(p, r, ok, s) ==
    LET op == req[r].op
    IN IF r \in waits[p]
       THEN /\ waits' = [waits EXCEPT ![p] = @ \ {r}]
            /\ page' = [page EXCEPT ![p] = After(@, op, ok)]
            /\ todo' = [todo EXCEPT ![p] = IF op = "submit" /\ ok THEN File ELSE @]
            /\ failed' = [failed EXCEPT ![p] =
                   IF op = "submit" /\ ok THEN {}
                   ELSE IF op = "upload" /\ ~ok THEN @ \cup {req[r].file} ELSE @]
            /\ holds' = [holds EXCEPT ![p] = IF op = "verify" /\ ok THEN s ELSE @]
       ELSE UNCHANGED pageVars

Reply(r, ok) ==
    /\ Settle(req[r].page, r, ok, 0)
    /\ req' = [req EXCEPT ![r] = Idle]

-------------------------------------------------------------------------------
(* The page.                                                               *)

\* The QR code is scanned, or the page reloaded: what it held is gone. The
\* order is read with the link's token, which counts every call.
Open(p) ==
    /\ \/ /\ linkCalls < LinkLimit
          /\ linkCalls' = linkCalls + 1
          /\ page' = [page EXCEPT ![p] = "identify"]
       \/ /\ linkCalls = LinkLimit
          /\ page' = [page EXCEPT ![p] = "error"]
          /\ UNCHANGED linkCalls
    /\ waits' = [waits EXCEPT ![p] = {}]
    /\ todo' = [todo EXCEPT ![p] = {}]
    /\ holds' = [holds EXCEPT ![p] = 0]
    /\ unlucky' = unlucky \ {p}
    /\ UNCHANGED <<failed, req, codeVars, sessionVars, faults>>

\* "Change e-mail" on the code step, also while a code is being verified, and
\* "log out" on the summary.
BackToIdentify(p) ==
    /\ page[p] \in {"code", "submitted"}
    /\ page' = [page EXCEPT ![p] = "identify"]
    /\ holds' = [holds EXCEPT ![p] = 0]
    /\ unlucky' = unlucky \ {p}
    /\ UNCHANGED <<waits, todo, failed, req, codeVars, linkCalls, sessionVars, faults>>

\* A call with the link's token, which reads the code row first. One above
\* the limit is refused with a message and changes nothing.
LinkCall(p, r, op, c) ==
    /\ waits[p] = {} /\ req[r] = Idle /\ linkCalls < LinkLimit
    /\ linkCalls' = linkCalls + 1
    /\ req' = [req EXCEPT ![r] =
           [op |-> op, page |-> p, code |-> c, seen |-> slot.codes,
            valid |-> Unexpired(slot.codes), attempts |-> slot.attempts]]
    /\ waits' = [waits EXCEPT ![p] = {r}]
    /\ UNCHANGED <<page, todo, failed, holds, sessionVars, faultVars>>

Identify(p, r) ==
    /\ page[p] = "identify" /\ generated < MaxCodes
    /\ LinkCall(p, r, "identify", generated + 1)
    /\ generated' = generated + 1
    /\ UNCHANGED <<slot, lapsed, mailed, due, opened, crossed>>

Verify(p, r, c) ==
    /\ page[p] = "code" /\ c \in mailed \cup {Mistyped}
    /\ LinkCall(p, r, "verify", c)
    /\ UNCHANGED codeVars

\* A call to the server that is no call with the link's token.
Post(p, r, new) ==
    /\ req[r] = Idle
    /\ req' = [req EXCEPT ![r] = new]
    /\ waits' = [waits EXCEPT ![p] = @ \cup {r}]
    /\ UNCHANGED <<failed, holds, codeVars, linkCalls, sessionVars, faultVars>>

\* A call with the session's token: the guard reads the token's row first.
SessionCall(p, r, op) ==
    Post(p, r, [op |-> op, page |-> p, step |-> "read", session |-> holds[p],
                used |-> sessions[holds[p]].used, report |-> 0])

Submit(p, r) ==
    /\ page[p] = "form" /\ waits[p] = {}
    /\ SessionCall(p, r, "submit")
    /\ UNCHANGED <<page, todo>>

\* The headers an upload sets for its form data take the place of the one with
\* the token (portalConfig spreads the call's own config last).
Upload(p, r, f) ==
    /\ page[p] = "uploading" /\ f \in todo[p]
    /\ Post(p, r, [op |-> "upload", page |-> p, file |-> f])
    /\ todo' = [todo EXCEPT ![p] = @ \ {f}]
    /\ UNCHANGED page

\* allSettled: all uploads have been answered, whatever the answers.
Finalize(p, r) ==
    /\ page[p] = "uploading" /\ todo[p] = {} /\ waits[p] = {}
    /\ SessionCall(p, r, "finalize")
    /\ page' = [page EXCEPT ![p] = "finalizing"]
    /\ UNCHANGED todo

-------------------------------------------------------------------------------
(* The access codes of one address.                                        *)

\* A mail that fails is not reported.
Mail(c) ==
    \/ mailed' = mailed \cup {c} /\ UNCHANGED faults
    \/ faults < MaxFaults /\ faults' = faults + 1 /\ UNCHANGED mailed

\* The upsert of generateAndStore, which replaces the row's list.
Upsert(r, codes) ==
    /\ req[r].op = "identify"
    /\ slot' = [codes |-> codes, attempts |-> 0]
    /\ due' = <<req[r].code>> \o due
    /\ Mail(req[r].code)
    /\ crossed' = (crossed \/ slot.codes # req[r].seen)
    /\ Reply(r, TRUE)
    /\ UNCHANGED <<generated, lapsed, opened, linkCalls, sessionVars, unlucky>>

\* Mutant: the newest code goes to the end of the list that is cut off.
StoreCodeLast(r) == Upsert(r, Newest(Append(req[r].valid, req[r].code)))

\* Mutant: the list is not cut off.
StoreCodeUncut(r) == Upsert(r, <<req[r].code>> \o req[r].valid)

StoreCode(r) == Upsert(r, Newest(<<req[r].code>> \o req[r].valid))

Missing == slot = NoSlot

\* Mutant: the row is left alone.
KeepSlot(r) ==
    UNCHANGED <<slot, due, crossed, generated, lapsed, mailed, linkCalls, reports,
                faultVars>>

\* The row is deleted on a match and when it is of no more use.
DeleteSlot(r) ==
    /\ slot' = NoSlot /\ due' = <<>>
    /\ crossed' = (crossed \/ slot.codes # req[r].seen)
    /\ UNCHANGED <<generated, lapsed, mailed, linkCalls, reports, faultVars>>

\* Rows that can be checked against: some code is left, and some attempt.
Usable(r) == req[r].valid # <<>> /\ req[r].attempts < MaxAttempts

\* There was no row, or there is none to delete or to update any more.
VerifyNothing(r) ==
    /\ req[r].op = "verify" /\ (req[r].seen = <<>> \/ Missing)
    /\ Reply(r, FALSE)
    /\ UNCHANGED <<codeVars, linkCalls, sessionVars, faultVars>>

VerifyTooLate(r) ==
    /\ req[r].op = "verify" /\ req[r].seen # <<>> /\ ~Missing /\ ~Usable(r)
    /\ DeleteSlot(r)
    /\ Reply(r, FALSE)
    /\ UNCHANGED <<opened, sessions>>

VerifyMatch(r) ==
    /\ req[r].op = "verify" /\ ~Missing /\ Usable(r)
    /\ req[r].code \in Range(req[r].valid)
    /\ DeleteSlot(r)
    /\ opened' = [opened EXCEPT ![req[r].code] = @ + 1]
    /\ sessions' = Append(sessions, [calls |-> 0, used |-> FALSE, live |-> TRUE,
                                     report |-> 0])
    /\ Settle(req[r].page, r, TRUE, Len(sessions) + 1)
    /\ req' = [req EXCEPT ![r] = Idle]

\* The miss is counted, and the codes that had expired are dropped.
VerifyMiss(r) ==
    /\ req[r].op = "verify" /\ ~Missing /\ Usable(r)
    /\ req[r].code \notin Range(req[r].valid)
    /\ slot' = [codes |-> req[r].valid, attempts |-> slot.attempts + 1]
    /\ crossed' = (crossed \/ slot.codes # req[r].seen)
    /\ Reply(r, FALSE)
    /\ UNCHANGED <<generated, lapsed, mailed, due, opened, linkCalls, sessionVars,
                   faultVars>>

CodesExpire ==
    /\ lapsed < generated
    /\ lapsed' = lapsed + 1
    /\ UNCHANGED <<pageVars, req, slot, generated, mailed, due, opened, crossed,
                   linkCalls, sessionVars, faultVars>>

-------------------------------------------------------------------------------
(* The session's calls.                                                    *)

\* validateToken counts the call, whatever comes of it. It looks at usedAt as
\* read before, at the clock now, and hands the row on as counted. Counts
\* above the limit are one.
Counted(r, live) ==
    sessions' = [sessions EXCEPT
        ![req[r].session].calls = IF @ < CallLimit THEN @ + 1 ELSE @,
        ![req[r].session].live = live]

Admissible(r) ==
    LET s == sessions[req[r].session]
    IN s.calls < CallLimit /\ ~req[r].used /\ s.live

Reading(r) == req[r].op \in {"submit", "finalize"} /\ req[r].step = "read"

Admit(r) ==
    /\ Reading(r) /\ Admissible(r)
    /\ Counted(r, TRUE)
    /\ req' = [req EXCEPT ![r].step = "admitted"]
    /\ UNCHANGED <<pageVars, codeVars, linkCalls, reports, faultVars>>

\* Also when the session's 30 minutes are over, which nothing else notices.
TurnAway(r) ==
    /\ Reading(r)
    /\ \/ ~Admissible(r) /\ Counted(r, sessions[req[r].session].live)
       \/ Admissible(r) /\ Counted(r, FALSE)
    /\ Reply(r, FALSE)
    /\ unlucky' = unlucky \cup {req[r].page}
    /\ UNCHANGED <<codeVars, linkCalls, reports, faults>>

Admitted(r, op) == req[r].op = op /\ req[r].step = "admitted"

\* createReport, one transaction; refused when the order meanwhile is not in
\* a status to be delivered.
CreateReport(r) ==
    /\ Admitted(r, "submit")
    /\ \/ /\ reports' = Append(reports, req[r].session)
          /\ req' = [req EXCEPT ![r].step = "created",
                                ![r].report = Len(reports) + 1]
          /\ UNCHANGED pageVars
       \/ /\ Reply(r, FALSE)
          /\ UNCHANGED reports
    /\ UNCHANGED <<codeVars, linkCalls, sessions, faultVars>>

StampReport(r) ==
    /\ req[r].op = "submit" /\ req[r].step = "created"
    /\ sessions' = [sessions EXCEPT ![req[r].session].report = req[r].report]
    /\ Reply(r, TRUE)
    /\ UNCHANGED <<codeVars, linkCalls, reports, faultVars>>

\* The guard finds no token with an upload and refuses it, before it looks
\* anything up or counts anything.
RefuseUpload(r) ==
    /\ req[r].op = "upload"
    /\ Reply(r, FALSE)
    /\ UNCHANGED <<codeVars, linkCalls, sessionVars, faultVars>>

\* consumeToken, guarded by the row as it is now.
Consume(r) ==
    /\ Admitted(r, "finalize")
    /\ LET s == req[r].session
       IN \/ /\ ~sessions[s].used
             /\ sessions' = [sessions EXCEPT ![s].used = TRUE]
             /\ Reply(r, TRUE)
          \/ /\ sessions[s].used
             /\ Reply(r, FALSE)
             /\ UNCHANGED sessions
    /\ UNCHANGED <<codeVars, linkCalls, reports, faultVars>>

-------------------------------------------------------------------------------
(* Faults, between any two steps of a request.                             *)

\* The client's timeout of 30 s or a broken connection: the request goes on.
StopWaiting(r) ==
    /\ req[r] # Idle /\ r \in waits[req[r].page] /\ faults < MaxFaults
    /\ Settle(req[r].page, r, FALSE, 0)
    /\ unlucky' = unlucky \cup {req[r].page}
    /\ faults' = faults + 1
    /\ UNCHANGED <<req, codeVars, linkCalls, sessionVars>>

\* The process or its connection to the database dies. identify answers a
\* code it could not store like one it could.
Die(r) ==
    /\ req[r] # Idle /\ faults < MaxFaults
    /\ \E ok \in {FALSE, req[r].op = "identify"} : Reply(r, ok)
    /\ unlucky' = unlucky \cup {req[r].page}
    /\ faults' = faults + 1
    /\ UNCHANGED <<codeVars, linkCalls, sessionVars>>

-------------------------------------------------------------------------------

PortalNext ==
    \/ \E p \in Page : Open(p) \/ BackToIdentify(p)
    \/ \E p \in Page, r \in Req :
          \/ Identify(p, r) \/ Submit(p, r) \/ Finalize(p, r)
          \/ \E c \in 0..MaxCodes : Verify(p, r, c)
          \/ \E f \in File : Upload(p, r, f)
    \/ \E r \in Req :
          \/ StoreCode(r)
          \/ VerifyNothing(r) \/ VerifyTooLate(r) \/ VerifyMatch(r) \/ VerifyMiss(r)
          \/ Admit(r) \/ TurnAway(r)
          \/ CreateReport(r) \/ StampReport(r) \/ Consume(r) \/ RefuseUpload(r)
          \/ StopWaiting(r) \/ Die(r)
    \/ CodesExpire

PortalSpec == PortalInit /\ [][PortalNext]_portalVars

-------------------------------------------------------------------------------

\* A mailed code opens one session: two verifications of it that overlap do
\* not both pass, because the second finds no row to delete. The exception is
\* a row written over codes its writer had not seen (verifyCode and
\* generateAndStore in delivery-code.service.ts read, and then write).
CodeOpensOnce == ~crossed => \A c \in Code : opened[c] <= 1

\* "Lets the delivery person act on an earlier email": whatever expired in
\* between, the row holds the last MAX_ACTIVE_CODES unexpired codes that were
\* stored since it was last deleted, unless writers of the row overlapped.
NewestCodesWork == ~crossed => Unexpired(slot.codes) = Newest(Unexpired(due))

Made(s) == {i \in DOMAIN reports : reports[i] = s}

\* A page that shows the summary has finalized its session, and the report noted
\* on the session is one it made; when no call of the submission was lost or
\* turned away it is the only one (handleSubmit of PublicDeliveryPage.tsx, submit
\* of delivery-portal.service.ts).
SubmittedHasReport ==
    \A p \in Page : page[p] = "submitted" =>
        LET s == holds[p] IN
        /\ sessions[s].used
        /\ sessions[s].report \in Made(s)
        /\ p \notin unlucky => Made(s) = {sessions[s].report}

\* "sessionToken that authorises submit/uploads/finalize" (deliveries.ts:164-165):
\* where no call was lost and no session turned away, no upload fails.
UploadsAreAuthorised ==
    \A p \in Page : page[p] = "submitted" /\ p \notin unlucky => failed[p] = {}

===============================================================================
