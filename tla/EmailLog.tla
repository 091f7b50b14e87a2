-------------------------------- MODULE EmailLog -------------------------------
(***************************************************************************)
(* The delivery log of outbound mail: the send with its retries            *)
(* (resend.service.ts), the row recorded after it (email.service.ts) and   *)
(* the provider's webhooks (resend-webhook.controller.ts), which           *)
(* email-log.service.ts files as events and rolls up into the row.         *)
(*                                                                         *)
(* The provider repeats an event until it is acknowledged, in any order    *)
(* and overlapping. recordEvent is one transaction of four statements at   *)
(* READ COMMITTED: it finds the row, looks for the same event, files the   *)
(* event under its unique key, and writes the roll-up worked out from the  *)
(* row as found. Its first two statements are steps of their own, the      *)
(* other two commit together.                                              *)
(***************************************************************************)
EXTENDS Naturals, FiniteSets

CONSTANTS
    Mail,        \* mails about an RFQ or an order, which are logged
    Event,       \* what the provider may report of a mail: a type and a time
    Hook,        \* slots for webhooks in flight
    NoRow,       \* a mail that has no row
    NoHook,      \* the content of a free slot
    MaxAttempts, \* RESEND_MAX_RETRIES + 1
    MaxFaults    \* bound: how many crashes, database errors and lost answers

\* EmailEventType; EVENT_STATUS gives each type the status of the same name.
EventType == {"SENT", "DELIVERED", "DELIVERY_DELAYED", "OPENED", "CLICKED",
              "BOUNCED", "COMPLAINED", "FAILED"}
Status == EventType

ASSUME EventAssumption ==
    /\ Event \subseteq [type : EventType, at : Nat]
    /\ IsFiniteSet(Event)
ASSUME BoundAssumption == MaxAttempts \in Nat \ {0} /\ MaxFaults \in Nat

VARIABLES
    send,        \* send[m]: how far the dispatch of mail m has come
    attempts,    \* attempts[m]: failed attempts to send mail m
    copies,      \* copies[m]: how often the provider accepted mail m
    known,       \* the mails whose message id the provider answered with
    row,         \* row[m]: mail m's row
    journal,     \* journal[m]: the events on file under mail m's row
    raised,      \* raised[m]: the events that happened to mail m
    unacked,     \* unacked[m]: those the provider will deliver again
    hook,        \* hook[h]: the webhook in slot h
    faults,      \* bound: crashes, errors and lost answers so far
    raced        \* history: mails whose roll-up rested on a row since changed

sendVars == <<send, attempts, copies, known>>
vars == <<sendVars, row, journal, raised, unacked, hook, faults, raced>>

-------------------------------------------------------------------------------

Row == [status : Status, opens : Nat]
Handling == [mail : Mail, event : Event, seen : Status, looked : BOOLEAN]

ASSUME NoRowAssumption == NoRow \notin Row
ASSUME NoHookAssumption == NoHook \notin Handling

TypeOK ==
    /\ send \in [Mail -> {"idle", "trying", "accepted", "rejected", "recorded", "lost"}]
    /\ attempts \in [Mail -> Nat]
    /\ copies \in [Mail -> Nat]
    /\ known \subseteq Mail
    /\ row \in [Mail -> Row \cup {NoRow}]
    /\ journal \in [Mail -> SUBSET Event]
    /\ raised \in [Mail -> SUBSET Event]
    /\ unacked \in [Mail -> SUBSET Event]
    /\ hook \in [Hook -> Handling \cup {NoHook}]
    /\ faults \in Nat
    /\ raced \subseteq Mail

Init ==
    /\ send = [m \in Mail |-> "idle"]
    /\ attempts = [m \in Mail |-> 0]
    /\ copies = [m \in Mail |-> 0]
    /\ known = {}
    /\ row = [m \in Mail |-> NoRow]
    /\ journal = [m \in Mail |-> {}]
    /\ raised = [m \in Mail |-> {}]
    /\ unacked = [m \in Mail |-> {}]
    /\ hook = [h \in Hook |-> NoHook]
    /\ faults = 0
    /\ raced = {}

Fault == faults < MaxFaults /\ faults' = faults + 1

-------------------------------------------------------------------------------
(* Sending.                                                                *)

Sending(m) == send[m] \in {"idle", "trying"}

\* The provider takes the mail and answers with its id.
SendAccepted(m) ==
    /\ Sending(m)
    /\ send' = [send EXCEPT ![m] = "accepted"]
    /\ copies' = [copies EXCEPT ![m] = @ + 1]
    /\ known' = known \cup {m}
    /\ UNCHANGED <<attempts, row, journal, raised, unacked, hook, faults, raced>>

\* A retryable failure: a rate limit, an upstream error, or a connection that
\* broke, maybe after the provider took the mail.
SendRetried(m) ==
    /\ Sending(m)
    /\ attempts' = [attempts EXCEPT ![m] = @ + 1]
    /\ send' = [send EXCEPT ![m] = IF attempts[m] + 1 < MaxAttempts
                                   THEN "trying" ELSE "rejected"]
    /\ copies' \in {copies, [copies EXCEPT ![m] = @ + 1]}
    /\ UNCHANGED <<known, row, journal, raised, unacked, hook, faults, raced>>

\* A failure no retry mends: a bad key, an invalid request.
SendRejected(m) ==
    /\ Sending(m)
    /\ send' = [send EXCEPT ![m] = "rejected"]
    /\ UNCHANGED <<attempts, copies, known, row, journal, raised, unacked, hook,
                   faults, raced>>

\* Mutant: the row keeps its column's default.
RecordQueued(m) ==
    /\ send[m] \in {"accepted", "rejected"}
    /\ row' = [row EXCEPT ![m] = [status |-> "QUEUED", opens |-> 0]]
    /\ send' = [send EXCEPT ![m] = "recorded"]
    /\ UNCHANGED <<attempts, copies, known, journal, raised, unacked, hook,
                   faults, raced>>

\* Mutant: a send that was given up leaves no row.
RecordAccepted(m) ==
    /\ send[m] \in {"accepted", "rejected"}
    /\ row' = IF send[m] = "accepted"
              THEN [row EXCEPT ![m] = [status |-> "SENT", opens |-> 0]] ELSE row
    /\ send' = [send EXCEPT ![m] = "recorded"]
    /\ UNCHANGED <<attempts, copies, known, journal, raised, unacked, hook,
                   faults, raced>>

\* recordOutbound after an accepted send, recordFailed after a rejected one.
Record(m) ==
    /\ send[m] \in {"accepted", "rejected"}
    /\ row' = [row EXCEPT ![m] =
                 [status |-> IF send[m] = "accepted" THEN "SENT" ELSE "FAILED",
                  opens |-> 0]]
    /\ send' = [send EXCEPT ![m] = "recorded"]
    /\ UNCHANGED <<attempts, copies, known, journal, raised, unacked, hook,
                   faults, raced>>

\* The insert fails, which is swallowed, or the process ends before it.
RecordFails(m) ==
    /\ send[m] \in {"trying", "accepted", "rejected"}
    /\ Fault
    /\ send' = [send EXCEPT ![m] = "lost"]
    /\ UNCHANGED <<attempts, copies, known, row, journal, raised, unacked, hook,
                   raced>>

-------------------------------------------------------------------------------
(* Events.                                                                 *)

\* The provider has something to report of the copy whose id it answered with.
\* Of a copy whose answer was lost it reports too, under an id nobody knows.
Raise(m, e) ==
    /\ m \in known /\ e \notin raised[m]
    /\ raised' = [raised EXCEPT ![m] = @ \cup {e}]
    /\ unacked' = [unacked EXCEPT ![m] = @ \cup {e}]
    /\ UNCHANGED <<sendVars, row, journal, hook, faults, raced>>

\* The row is found by the message id, which only an accepted send records.
OnFile(m) == m \in known /\ row[m] # NoRow

\* A webhook arrives. That of a mail not on file is acknowledged and dropped.
Find(h, m, e) ==
    /\ hook[h] = NoHook /\ e \in unacked[m]
    /\ IF OnFile(m)
       THEN /\ hook' = [hook EXCEPT ![h] = [mail |-> m, event |-> e,
                                            seen |-> row[m].status, looked |-> FALSE]]
            /\ UNCHANGED unacked
       ELSE /\ unacked' = [unacked EXCEPT ![m] = @ \ {e}]
            /\ UNCHANGED hook
    /\ UNCHANGED <<sendVars, row, journal, raised, faults, raced>>

\* The answer ends the webhook; a 200 is the last the provider sends of it.
Answered(h, ok) ==
    LET q == hook[h] IN
    /\ hook' = [hook EXCEPT ![h] = NoHook]
    /\ unacked' = IF ok THEN [unacked EXCEPT ![q.mail] = @ \ {q.event}] ELSE unacked

\* Mutant: the guard compares the type alone.
LookByType(h) ==
    LET q == hook[h] IN
    /\ q # NoHook /\ ~q.looked
    /\ IF \E e \in journal[q.mail] : e.type = q.event.type
       THEN Answered(h, TRUE)
       ELSE hook' = [hook EXCEPT ![h].looked = TRUE] /\ UNCHANGED unacked
    /\ UNCHANGED <<sendVars, row, journal, raised, faults, raced>>

\* "same event delivered twice is a no-op".
Look(h) ==
    LET q == hook[h] IN
    /\ q # NoHook /\ ~q.looked
    /\ IF q.event \in journal[q.mail]
       THEN Answered(h, TRUE)
       ELSE /\ hook' = [hook EXCEPT ![h] = [mail |-> q.mail, event |-> q.event,
                                            seen |-> q.seen, looked |-> TRUE]]
            /\ UNCHANGED unacked
    /\ UNCHANGED <<sendVars, row, journal, raised, faults, raced>>

\* STATUS_RANK, for the statuses a row or an event can have.
Rank == [s \in Status |->
    CASE s = "SENT" -> 10
      [] s = "DELIVERY_DELAYED" -> 15
      [] s = "DELIVERED" -> 20
      [] s = "OPENED" -> 30
      [] s = "CLICKED" -> 40
      [] OTHER -> 100]

\* Mutant: the status follows the latest event.
RolledUpLatest(r, q) ==
    [status |-> q.event.type,
     opens |-> IF q.event.type = "OPENED" THEN r.opens + 1 ELSE r.opens]

\* rollupUpdate: the status from the row as found, the count from the row.
RolledUp(r, q) ==
    [status |-> IF Rank[q.event.type] >= Rank[q.seen] THEN q.event.type ELSE r.status,
     opens |-> IF q.event.type = "OPENED" THEN r.opens + 1 ELSE r.opens]

\* Mutant: without the unique key.
FileUnkeyed(h) ==
    LET q == hook[h]
        m == q.mail
    IN  /\ q # NoHook /\ q.looked
        /\ journal' = [journal EXCEPT ![m] = @ \cup {q.event}]
        /\ row' = [row EXCEPT ![m] = RolledUp(row[m], q)]
        /\ Answered(h, TRUE)
        /\ UNCHANGED <<sendVars, raised, faults, raced>>

\* The event is filed and rolled up, or breaks the unique key, and then the
\* transaction fails and the provider tries again.
File(h) ==
    LET q == hook[h]
        m == q.mail
    IN  /\ q # NoHook /\ q.looked
        /\ IF q.event \in journal[m]
           THEN Answered(h, FALSE) /\ UNCHANGED <<row, journal, raced>>
           ELSE /\ journal' = [journal EXCEPT ![m] = @ \cup {q.event}]
                /\ row' = [row EXCEPT ![m] = RolledUp(row[m], q)]
                /\ raced' = IF q.seen = row[m].status THEN raced ELSE raced \cup {m}
                /\ Answered(h, TRUE)
        /\ UNCHANGED <<sendVars, raised, faults>>

\* The transaction fails or the process ends, and with it this webhook.
HookFails(h) ==
    /\ hook[h] # NoHook
    /\ Fault
    /\ Answered(h, FALSE)
    /\ UNCHANGED <<sendVars, row, journal, raised, raced>>

\* A 200 is lost on its way, and the provider delivers the event again.
AckLost(m, e) ==
    /\ e \in journal[m] \ unacked[m]
    /\ Fault
    /\ unacked' = [unacked EXCEPT ![m] = @ \cup {e}]
    /\ UNCHANGED <<sendVars, row, journal, raised, hook, raced>>

-------------------------------------------------------------------------------

Dispatch(m) == SendAccepted(m) \/ SendRetried(m) \/ SendRejected(m) \/ Record(m)

Next ==
    \/ \E m \in Mail : Dispatch(m) \/ RecordFails(m)
    \/ \E m \in Mail, e \in Event : Raise(m, e) \/ AckLost(m, e)
    \/ \E h \in Hook, m \in Mail, e \in Event : Find(h, m, e)
    \/ \E h \in Hook : Look(h) \/ File(h) \/ HookFails(h)

Spec == Init /\ [][Next]_vars

\* The loop of attempts is bounded and ends in a record; a handler that runs
\* comes to its end; the provider repeats what is not acknowledged, and finds
\* the server free again and again.
FairSpec ==
    /\ Spec
    /\ \A m \in Mail : WF_vars(send[m] # "idle" /\ Dispatch(m))
    /\ \A h \in Hook : WF_vars(Look(h) \/ File(h))
    /\ \A m \in Mail, e \in Event : SF_vars(\E h \in Hook : Find(h, m, e))

-------------------------------------------------------------------------------
(* Properties.                                                             *)

\* However often an event is delivered, and however its deliveries overlap,
\* it is counted once: the opens of a row are the OPENED events on its file.
OpensAreCounted ==
    \A m \in Mail : row[m] # NoRow =>
        row[m].opens = Cardinality({e \in journal[m] : e.type = "OPENED"})

\* The statuses none of which is outranked.
Highest(S) == {s \in S : \A t \in S : Rank[t] <= Rank[s]}

\* "late / out-of-order webhooks never downgrade the row": in whatever order
\* they come, the status is the highest of the events on file, unless two
\* webhooks of one mail overlapped.
StatusIsHighest ==
    \A m \in Mail \ raced : OnFile(m) =>
        row[m].status \in Highest({"SENT"} \cup {e.type : e \in journal[m]})

\* "persist a FAILED row so the dropped email is visible": every mail somebody
\* tried to send gets a row, unless recording it failed.
MailIsLogged ==
    \A m \in Mail : send[m] = "trying" ~> row[m] # NoRow \/ send[m] = "lost"

\* What the provider reports of a mail on file gets on file itself, through
\* repetitions, overlaps and failed transactions.
EventIsLogged ==
    \A m \in Mail, e \in Event :
        OnFile(m) /\ e \in unacked[m] ~> e \in journal[m]

===============================================================================
