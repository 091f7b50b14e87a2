----------------------------- MODULE EmailLogProofs ----------------------------
(***************************************************************************)
(* Theorems about EmailLog, for any mails, events, webhooks and faults.    *)
(* The opens and the status of a row follow its file because an event is   *)
(* filed and rolled up in one transaction, and filed once (Filed); a row   *)
(* is there before its first event and is recorded once (Rows).            *)
(***************************************************************************)
EXTENDS EmailLog, FiniteSetTheorems, TLAPS

Opened(S) == {e \in S : e.type = "OPENED"}
Types(S) == {"SENT"} \cup {e.type : e \in S}

Rows ==
    /\ \A m \in Mail :
          send[m] \in {"idle", "trying", "accepted", "rejected"} => row[m] = NoRow
    /\ \A m \in Mail : row[m] = NoRow => journal[m] = {}
    /\ \A m \in known : send[m] \in {"accepted", "recorded", "lost"}
    /\ \A h \in Hook : hook[h] # NoHook => OnFile(hook[h].mail)

Filed == OpensAreCounted /\ StatusIsHighest

IInv == TypeOK /\ Rows /\ Filed

-------------------------------------------------------------------------------
(* Ranks and counts.                                                       *)

LEMMA RankType == \A s \in Status : Rank[s] \in Nat
BY DEF Rank, Status, EventType

LEMMA HighestGrows ==
    ASSUME NEW S \in SUBSET Status, NEW s \in Highest(S), NEW t \in Status
    PROVE  (IF Rank[t] >= Rank[s] THEN t ELSE s) \in Highest(S \cup {t})
<1>1. /\ Rank[t] \in Nat /\ Rank[s] \in Nat /\ \A u \in S : Rank[u] \in Nat
      /\ s \in S
      BY RankType DEF Highest
<1> HIDE DEF Rank
<1>2. CASE Rank[t] >= Rank[s]
      BY <1>1, <1>2 DEF Highest
<1>3. CASE ~(Rank[t] >= Rank[s])
      BY <1>1, <1>3 DEF Highest
<1> QED BY <1>2, <1>3

LEMMA OpenedGrows ==
    ASSUME NEW S \in SUBSET Event, NEW e \in Event, e \notin S
    PROVE  Cardinality(Opened(S \cup {e})) =
             IF e.type = "OPENED" THEN Cardinality(Opened(S)) + 1
                                  ELSE Cardinality(Opened(S))
<1>1. IsFiniteSet(Opened(S))
      BY EventAssumption, FS_Subset DEF Opened
<1>2. CASE e.type = "OPENED"
  <2>1. Opened(S \cup {e}) = Opened(S) \cup {e} /\ e \notin Opened(S)
        BY <1>2 DEF Opened
  <2> QED BY <1>1, <1>2, <2>1, FS_AddElement
<1>3. CASE e.type # "OPENED"
  <2>1. Opened(S \cup {e}) = Opened(S)
        BY <1>3 DEF Opened
  <2> QED BY <1>3, <2>1
<1> QED BY <1>2, <1>3

-------------------------------------------------------------------------------

LEMMA Starts == Init => IInv
<1> SUFFICES ASSUME Init PROVE IInv
    OBVIOUS
<1>1. TypeOK
      BY DEF Init, TypeOK
<1>2. Rows
      BY DEF Init, Rows
<1>3. Filed
      BY DEF Init, Filed, OpensAreCounted, StatusIsHighest, OnFile
<1> QED BY <1>1, <1>2, <1>3 DEF IInv

\* What a webhook carries.
LEMMA HookFields ==
    ASSUME TypeOK, NEW h \in Hook, hook[h] # NoHook
    PROVE  /\ hook[h] \in Handling
           /\ hook[h].mail \in Mail /\ hook[h].event \in Event
           /\ hook[h].seen \in Status /\ hook[h].event.type \in Status
BY EventAssumption DEF TypeOK, Handling, Status

LEMMA RolledUpType ==
    ASSUME NEW r \in Row, NEW q \in Handling
    PROVE  RolledUp(r, q) \in Row
<1>1. q.event.type \in Status /\ r.status \in Status /\ r.opens \in Nat
      BY EventAssumption DEF Handling, Row, Status
<1>2. ASSUME NEW s \in Status, NEW n \in Nat PROVE [status |-> s, opens |-> n] \in Row
      BY DEF Row
<1>3. (IF Rank[q.event.type] >= Rank[q.seen] THEN q.event.type ELSE r.status) \in Status
      BY <1>1, Zenon
<1>4. (IF q.event.type = "OPENED" THEN r.opens + 1 ELSE r.opens) \in Nat
      BY <1>1
<1> QED BY <1>2, <1>3, <1>4, Zenon DEF RolledUp

\* How a webhook ends.
LEMMA AnsweredType ==
    ASSUME TypeOK, NEW h \in Hook, hook[h] # NoHook, NEW ok \in BOOLEAN, Answered(h, ok)
    PROVE  /\ hook' \in [Hook -> Handling \cup {NoHook}]
           /\ unacked' \in [Mail -> SUBSET Event]
BY HookFields DEF Answered, TypeOK

LEMMA TypeStep == IInv /\ [Next]_vars => TypeOK'
<1> SUFFICES ASSUME TypeOK, Rows, [Next]_vars PROVE TypeOK'
    BY DEF IInv
<1> USE DEF TypeOK, sendVars
<1>1. ASSUME NEW m \in Mail, SendAccepted(m) PROVE TypeOK'
      BY <1>1 DEF SendAccepted
<1>2. ASSUME NEW m \in Mail, SendRetried(m) PROVE TypeOK'
  <2>1. copies' \in [Mail -> Nat] /\ attempts' \in [Mail -> Nat]
        BY <1>2 DEF SendRetried
  <2> QED BY <1>2, <2>1 DEF SendRetried
<1>3. ASSUME NEW m \in Mail, SendRejected(m) PROVE TypeOK'
      BY <1>3 DEF SendRejected
<1>4. ASSUME NEW m \in Mail, Record(m) PROVE TypeOK'
  <2> DEFINE new == [status |-> IF send[m] = "accepted" THEN "SENT" ELSE "FAILED",
                     opens |-> 0]
  <2>1. new \in Row
        BY DEF Row, Status, EventType
  <2>2. row' = [row EXCEPT ![m] = new]
        BY <1>4 DEF Record
  <2> HIDE DEF new
  <2> QED BY <1>4, <2>1, <2>2 DEF Record
<1>5. ASSUME NEW m \in Mail, RecordFails(m) PROVE TypeOK'
      BY <1>5 DEF RecordFails, Fault
<1>6. ASSUME NEW m \in Mail, NEW e \in Event, Raise(m, e) \/ AckLost(m, e)
      PROVE  TypeOK'
      BY <1>6 DEF Raise, AckLost, Fault
<1>7. ASSUME NEW h \in Hook, NEW m \in Mail, NEW e \in Event, Find(h, m, e)
      PROVE  TypeOK'
  <2>1. CASE OnFile(m)
    <3> DEFINE new == [mail |-> m, event |-> e, seen |-> row[m].status, looked |-> FALSE]
    <3>1. new \in Handling
          BY <2>1 DEF OnFile, Handling, Row
    <3>2. hook' = [hook EXCEPT ![h] = new]
          BY <1>7, <2>1 DEF Find
    <3> HIDE DEF new
    <3> QED BY <1>7, <2>1, <3>1, <3>2 DEF Find
  <2>2. CASE ~OnFile(m)
        BY <1>7, <2>2 DEF Find
  <2> QED BY <2>1, <2>2
<1>8. ASSUME NEW h \in Hook, Look(h) PROVE TypeOK'
  <2> DEFINE new == [mail |-> hook[h].mail, event |-> hook[h].event,
                     seen |-> hook[h].seen, looked |-> TRUE]
  <2>1. hook[h] # NoHook
        BY <1>8 DEF Look
  <2>2. new \in Handling
        BY <2>1, HookFields DEF Handling
  <2>3. CASE hook[h].event \in journal[hook[h].mail]
    <3>1. Answered(h, TRUE)
          BY <1>8, <2>3 DEF Look
    <3> QED BY <1>8, <2>1, <3>1, AnsweredType DEF Look
  <2>4. CASE hook[h].event \notin journal[hook[h].mail]
    <3>1. hook' = [hook EXCEPT ![h] = new]
          BY <1>8, <2>4 DEF Look
    <3> HIDE DEF new
    <3> QED BY <1>8, <2>2, <2>4, <3>1 DEF Look
  <2> QED BY <2>3, <2>4
<1>9. ASSUME NEW h \in Hook, File(h) PROVE TypeOK'
  <2> DEFINE q == hook[h]
             m == q.mail
  <2>1. /\ q # NoHook /\ q \in Handling /\ m \in Mail /\ q.event \in Event
        BY <1>9, HookFields DEF File
  <2>2. row[m] \in Row
        BY <2>1 DEF Rows, OnFile
  <2>3. RolledUp(row[m], q) \in Row
        BY <2>1, <2>2, RolledUpType
  <2>4. CASE q.event \in journal[m]
    <3>1. Answered(h, FALSE)
          BY <1>9, <2>4 DEF File
    <3> QED BY <1>9, <2>1, <2>4, <3>1, AnsweredType DEF File
  <2>5. CASE q.event \notin journal[m]
    <3>1. /\ journal' = [journal EXCEPT ![m] = @ \cup {q.event}]
          /\ row' = [row EXCEPT ![m] = RolledUp(row[m], q)]
          /\ raced' \in {raced, raced \cup {m}}
          /\ Answered(h, TRUE)
          /\ UNCHANGED <<sendVars, raised, faults>>
          BY <1>9, <2>5 DEF File
    <3>2. /\ hook' \in [Hook -> Handling \cup {NoHook}]
          /\ unacked' \in [Mail -> SUBSET Event]
          BY <2>1, <3>1, AnsweredType
    <3> HIDE DEF q, m
    <3> QED BY <2>1, <2>3, <3>1, <3>2
  <2> QED BY <2>4, <2>5
<1>10. ASSUME NEW h \in Hook, HookFails(h) PROVE TypeOK'
  <2>1. Answered(h, FALSE) /\ hook[h] # NoHook
        BY <1>10 DEF HookFails
  <2>2. /\ hook' \in [Hook -> Handling \cup {NoHook}]
        /\ unacked' \in [Mail -> SUBSET Event]
        BY <2>1, AnsweredType
  <2>3. faults' \in Nat /\ UNCHANGED <<sendVars, row, journal, raised, raced>>
        BY <1>10 DEF HookFails, Fault
  <2> QED BY <2>2, <2>3
<1>11. CASE UNCHANGED vars
       BY <1>11 DEF vars
<1> QED BY <1>1, <1>2, <1>3, <1>4, <1>5, <1>6, <1>7, <1>8, <1>9, <1>10, <1>11
        DEF Next, Dispatch

-------------------------------------------------------------------------------
(* Rows come once, before their events.                                    *)

LEMMA RowsStep == IInv /\ [Next]_vars => Rows'
<1> SUFFICES ASSUME TypeOK, Rows, [Next]_vars PROVE Rows'
    BY DEF IInv
<1>0. /\ send \in [Mail -> {"idle", "trying", "accepted", "rejected", "recorded", "lost"}]
      /\ row \in [Mail -> Row \cup {NoRow}] /\ journal \in [Mail -> SUBSET Event]
      /\ hook \in [Hook -> Handling \cup {NoHook}] /\ known \subseteq Mail
      BY DEF TypeOK
\* A step of the dispatch that leaves the rows alone.
<1>1. ASSUME NEW m \in Mail, NEW s \in {"trying", "accepted", "rejected", "lost"},
             send' = [send EXCEPT ![m] = s], UNCHANGED <<row, journal, hook>>,
             send[m] \in {"idle", "trying", "accepted", "rejected"},
             \/ known' = known /\ s \in {"trying", "rejected"} /\ send[m] \in {"idle", "trying"}
             \/ known' = known /\ s = "lost"
             \/ known' = known \cup {m} /\ s = "accepted"
      PROVE  Rows'
  <2>1. \A n \in Mail : send'[n] = IF n = m THEN s ELSE send[n]
        BY <1>0, <1>1
  <2>2. row[m] = NoRow
        BY <1>1 DEF Rows
  <2>3. \A n \in Mail : OnFile(n) => OnFile(n)'
        BY <1>1 DEF OnFile
  <2>4. \A n \in known' : send'[n] \in {"accepted", "recorded", "lost"}
        BY <1>0, <1>1, <2>1 DEF Rows
  <2>5. \A h \in Hook : hook[h] # NoHook => OnFile(hook[h].mail)'
        BY <1>1, <2>3 DEF Rows, OnFile
  <2> QED BY <1>0, <1>1, <2>1, <2>2, <2>4, <2>5 DEF Rows
<1>2. ASSUME NEW m \in Mail, SendAccepted(m) PROVE Rows'
      BY <1>1, <1>2 DEF SendAccepted, Sending
<1>3. ASSUME NEW m \in Mail, SendRetried(m) PROVE Rows'
      BY <1>1, <1>3 DEF SendRetried, Sending
<1>4. ASSUME NEW m \in Mail, SendRejected(m) PROVE Rows'
      BY <1>1, <1>4 DEF SendRejected, Sending
<1>5. ASSUME NEW m \in Mail, RecordFails(m) PROVE Rows'
      BY <1>1, <1>5 DEF RecordFails, sendVars
<1>6. ASSUME NEW m \in Mail, Record(m) PROVE Rows'
  <2> DEFINE new == [status |-> IF send[m] = "accepted" THEN "SENT" ELSE "FAILED",
                     opens |-> 0]
  <2>1. new \in Row
        BY DEF Row, Status, EventType
  <2>2. /\ row' = [row EXCEPT ![m] = new] /\ send' = [send EXCEPT ![m] = "recorded"]
        /\ UNCHANGED <<known, journal, hook>>
        BY <1>6 DEF Record, sendVars
  <2> HIDE DEF new
  <2>3. new # NoRow
        BY <2>1, NoRowAssumption
  <2>4. /\ \A n \in Mail : row'[n] = IF n = m THEN new ELSE row[n]
        /\ \A n \in Mail : send'[n] = IF n = m THEN "recorded" ELSE send[n]
        BY <1>0, <2>2
  <2>5. \A n \in Mail : OnFile(n) => OnFile(n)'
        BY <2>2, <2>3, <2>4 DEF OnFile
  <2>6. \A h \in Hook : hook[h] # NoHook => OnFile(hook[h].mail)'
        BY <1>0, <2>2, <2>5 DEF Rows, Handling
  <2>7. \A n \in known : send'[n] \in {"accepted", "recorded", "lost"}
        BY <1>0, <2>4 DEF Rows
  <2> QED BY <1>0, <2>2, <2>3, <2>4, <2>6, <2>7 DEF Rows
\* A step that adds no webhook of a mail without a row.
<1>7. ASSUME UNCHANGED <<send, known, row, journal>>,
             \A h \in Hook : hook'[h] # NoHook =>
                 \/ hook[h] # NoHook /\ hook'[h].mail = hook[h].mail
                 \/ OnFile(hook'[h].mail)
      PROVE  Rows'
      BY <1>7 DEF Rows, OnFile
<1>8. ASSUME NEW m \in Mail, NEW e \in Event, Raise(m, e) \/ AckLost(m, e)
      PROVE  Rows'
  <2>1. UNCHANGED <<send, known, row, journal, hook>>
        BY <1>8 DEF Raise, AckLost, sendVars
  <2> QED BY <1>7, <2>1
<1>9. ASSUME NEW h \in Hook, NEW m \in Mail, NEW e \in Event, Find(h, m, e)
      PROVE  Rows'
  <2> DEFINE new == [mail |-> m, event |-> e, seen |-> row[m].status, looked |-> FALSE]
  <2>1. UNCHANGED <<send, known, row, journal>>
        BY <1>9 DEF Find, sendVars
  <2>2. CASE OnFile(m)
    <3>1. \A g \in Hook : hook'[g] = IF g = h THEN new ELSE hook[g]
          BY <1>0, <1>9, <2>2 DEF Find
    <3> QED BY <1>7, <2>1, <2>2, <3>1
  <2>3. CASE ~OnFile(m)
        BY <1>7, <1>9, <2>1, <2>3 DEF Find
  <2> QED BY <2>2, <2>3
<1>10. ASSUME NEW h \in Hook, NEW ok \in BOOLEAN, hook[h] # NoHook, Answered(h, ok),
              UNCHANGED <<send, known, row, journal>>
       PROVE  Rows'
  <2>1. \A g \in Hook : hook'[g] = IF g = h THEN NoHook ELSE hook[g]
        BY <1>0, <1>10 DEF Answered
  <2> QED BY <1>7, <1>10, <2>1
<1>11. ASSUME NEW h \in Hook, Look(h) PROVE Rows'
  <2> DEFINE new == [mail |-> hook[h].mail, event |-> hook[h].event,
                     seen |-> hook[h].seen, looked |-> TRUE]
  <2>1. UNCHANGED <<send, known, row, journal>> /\ hook[h] # NoHook
        BY <1>11 DEF Look, sendVars
  <2>2. CASE hook[h].event \in journal[hook[h].mail]
        BY <1>10, <1>11, <2>1, <2>2 DEF Look
  <2>3. CASE hook[h].event \notin journal[hook[h].mail]
    <3>1. \A g \in Hook : hook'[g] = IF g = h THEN new ELSE hook[g]
          BY <1>0, <1>11, <2>3 DEF Look
    <3> QED BY <1>7, <2>1, <3>1
  <2> QED BY <2>2, <2>3
<1>12. ASSUME NEW h \in Hook, HookFails(h) PROVE Rows'
       BY <1>10, <1>12 DEF HookFails, sendVars
<1>13. ASSUME NEW h \in Hook, File(h) PROVE Rows'
  <2> DEFINE q == hook[h]
             m == q.mail
             new == RolledUp(row[m], q)
  <2>1. /\ q # NoHook /\ q \in Handling /\ m \in Mail /\ q.event \in Event
        BY <1>13, HookFields DEF File
  <2>2. CASE q.event \in journal[m]
        BY <1>10, <1>13, <2>1, <2>2 DEF File, sendVars
  <2>3. CASE q.event \notin journal[m]
    <3>1. row[m] \in Row /\ row[m] # NoRow
          BY <1>0, <2>1, NoRowAssumption DEF Rows, OnFile
    <3>2. new \in Row /\ new # NoRow
          BY <2>1, <3>1, RolledUpType, NoRowAssumption
    <3>3. /\ journal' = [journal EXCEPT ![m] = @ \cup {q.event}]
          /\ row' = [row EXCEPT ![m] = new]
          /\ hook' = [hook EXCEPT ![h] = NoHook]
          /\ UNCHANGED <<send, known>>
          BY <1>13, <2>3 DEF File, Answered, sendVars
    <3> HIDE DEF new, m, q
    <3>4. /\ \A n \in Mail : row'[n] = IF n = m THEN new ELSE row[n]
          /\ \A n \in Mail \ {m} : journal'[n] = journal[n]
          /\ \A g \in Hook : hook'[g] = IF g = h THEN NoHook ELSE hook[g]
          BY <1>0, <2>1, <3>3
    <3>5. \A n \in Mail : OnFile(n) => OnFile(n)'
          BY <3>2, <3>3, <3>4 DEF OnFile
    <3>6. \A g \in Hook : hook[g] # NoHook =>
             hook[g].mail \in Mail /\ OnFile(hook[g].mail)
          BY <1>0 DEF Rows, Handling
    <3>7. \A g \in Hook : (hook[g] # NoHook => OnFile(hook[g].mail))'
          BY <3>4, <3>5, <3>6 DEF OnFile
    <3>8. \A n \in Mail : row'[n] = NoRow <=> row[n] = NoRow
          BY <3>1, <3>2, <3>4
    <3> QED BY <3>1, <3>3, <3>4, <3>7, <3>8 DEF Rows
  <2> QED BY <2>2, <2>3
<1>14. CASE UNCHANGED vars
       BY <1>7, <1>14 DEF vars, sendVars
<1> QED BY <1>2, <1>3, <1>4, <1>5, <1>6, <1>8, <1>9, <1>11, <1>12, <1>13, <1>14
        DEF Next, Dispatch

-------------------------------------------------------------------------------
(* A row tells its file.                                                   *)

LEMMA FiledStep == IInv /\ [Next]_vars => Filed'
<1> SUFFICES ASSUME TypeOK, Rows, Filed, [Next]_vars PROVE Filed'
    BY DEF IInv
<1>0. /\ row \in [Mail -> Row \cup {NoRow}] /\ journal \in [Mail -> SUBSET Event]
      /\ hook \in [Hook -> Handling \cup {NoHook}] /\ known \subseteq Mail
      BY DEF TypeOK
<1>1. ASSUME UNCHANGED <<row, journal, raced>>,
             \A m \in Mail : m \in known' => m \in known \/ row[m] = NoRow
      PROVE  Filed'
      BY <1>1 DEF Filed, OpensAreCounted, StatusIsHighest, OnFile
<1>2. ASSUME NEW m \in Mail, SendAccepted(m) PROVE Filed'
      BY <1>1, <1>2 DEF SendAccepted, Sending, Rows
<1>3. ASSUME NEW m \in Mail, SendRetried(m) \/ SendRejected(m) \/ RecordFails(m)
      PROVE  Filed'
      BY <1>1, <1>3 DEF SendRetried, SendRejected, RecordFails, sendVars
<1>4. ASSUME NEW m \in Mail, NEW e \in Event, Raise(m, e) \/ AckLost(m, e)
      PROVE  Filed'
      BY <1>1, <1>4 DEF Raise, AckLost, sendVars
<1>5. ASSUME NEW h \in Hook, NEW m \in Mail, NEW e \in Event, Find(h, m, e)
      PROVE  Filed'
      BY <1>1, <1>5 DEF Find, sendVars
<1>6. ASSUME NEW h \in Hook, Look(h) \/ HookFails(h) PROVE Filed'
      BY <1>1, <1>6 DEF Look, HookFails, sendVars
<1>7. CASE UNCHANGED vars
      BY <1>1, <1>7 DEF vars, sendVars
<1>8. ASSUME NEW m \in Mail, Record(m) PROVE Filed'
  <2> DEFINE new == [status |-> IF send[m] = "accepted" THEN "SENT" ELSE "FAILED",
                     opens |-> 0]
  <2>1. /\ row' = [row EXCEPT ![m] = new] /\ UNCHANGED <<known, journal, raced>>
        BY <1>8 DEF Record, sendVars
  <2>2. \A n \in Mail : row'[n] = IF n = m THEN new ELSE row[n]
        BY <1>0, <2>1
  <2>3. row[m] = NoRow /\ journal[m] = {} /\ (m \in known => send[m] = "accepted")
        BY <1>8 DEF Record, Rows
  <2>4. Cardinality(Opened(journal[m])) = 0
        BY <2>3, FS_EmptySet DEF Opened
  <2>5. "SENT" \in Highest(Types(journal[m]))
        BY <2>3, RankType DEF Highest, Types, Status, EventType
  <2>6. OpensAreCounted'
        BY <2>1, <2>2, <2>4 DEF Filed, OpensAreCounted, Opened
  <2>7. StatusIsHighest'
        BY <2>1, <2>2, <2>3, <2>5 DEF Filed, StatusIsHighest, OnFile, Types
  <2> QED BY <2>6, <2>7 DEF Filed
<1>9. ASSUME NEW h \in Hook, File(h) PROVE Filed'
  <2> DEFINE q == hook[h]
             m == q.mail
             new == RolledUp(row[m], q)
  <2>1. /\ q # NoHook /\ q \in Handling /\ m \in Mail /\ q.event \in Event
        /\ q.seen \in Status /\ q.event.type \in Status
        BY <1>9, HookFields DEF File
  <2>2. CASE q.event \in journal[m]
        BY <1>1, <1>9, <2>2 DEF File, sendVars
  <2>3. CASE q.event \notin journal[m]
    <3>1. OnFile(m) /\ row[m] \in Row
          BY <1>0, <2>1 DEF Rows, OnFile
    <3>2. /\ journal' = [journal EXCEPT ![m] = journal[m] \cup {q.event}]
          /\ row' = [row EXCEPT ![m] = new]
          /\ raced' = IF q.seen = row[m].status THEN raced ELSE raced \cup {m}
          /\ known' = known
          BY <1>9, <2>3 DEF File, sendVars
    <3>3. /\ \A n \in Mail : row'[n] = IF n = m THEN new ELSE row[n]
          /\ \A n \in Mail : journal'[n] = IF n = m THEN journal[m] \cup {q.event}
                                                    ELSE journal[n]
          BY <1>0, <2>1, <3>2
    <3>4. new.opens = Cardinality(Opened(journal[m] \cup {q.event}))
      <4>1. row[m].opens = Cardinality(Opened(journal[m]))
            BY <2>1, <3>1 DEF Filed, OpensAreCounted, OnFile, Opened
      <4>2. journal[m] \in SUBSET Event
            BY <1>0, <2>1
      <4>3. new.opens = IF q.event.type = "OPENED" THEN row[m].opens + 1
                                                   ELSE row[m].opens
            BY DEF RolledUp
      <4> QED BY <2>1, <2>3, <4>1, <4>2, <4>3, OpenedGrows, Zenon
    <3>5. OpensAreCounted'
          BY <3>3, <3>4 DEF Filed, OpensAreCounted, Opened
    <3>6. ASSUME m \notin raced'
          PROVE  new.status \in Highest(Types(journal[m] \cup {q.event}))
      <4>1. q.seen = row[m].status /\ m \notin raced
            BY <3>2, <3>6
      <4>2. row[m].status \in Highest(Types(journal[m]))
            BY <2>1, <3>1, <4>1 DEF Filed, StatusIsHighest, Types
      <4>3. Types(journal[m]) \in SUBSET Status
            BY <1>0, <2>1, EventAssumption DEF Types, Status, EventType
      <4>4. Types(journal[m] \cup {q.event}) = Types(journal[m]) \cup {q.event.type}
            BY DEF Types
      <4>5. new.status = IF Rank[q.event.type] >= Rank[row[m].status]
                         THEN q.event.type ELSE row[m].status
            BY <4>1 DEF RolledUp
      <4> QED BY <2>1, <4>2, <4>3, <4>4, <4>5, HighestGrows
    <3>7. StatusIsHighest'
      <4> SUFFICES ASSUME NEW n \in Mail, n \notin raced', OnFile(n)'
                   PROVE  row'[n].status \in Highest(Types(journal'[n]))
          BY DEF StatusIsHighest, Types
      <4>1. CASE n = m
            BY <3>3, <3>6, <4>1
      <4>2. CASE n # m
        <5>1. n \notin raced /\ OnFile(n)
              BY <3>2, <3>3, <4>2 DEF OnFile
        <5> QED BY <3>3, <4>2, <5>1 DEF Filed, StatusIsHighest, Types
      <4> QED BY <4>1, <4>2
    <3> QED BY <3>5, <3>7 DEF Filed
  <2> QED BY <2>2, <2>3
<1> QED BY <1>2, <1>3, <1>4, <1>5, <1>6, <1>7, <1>8, <1>9 DEF Next, Dispatch

-------------------------------------------------------------------------------

LEMMA Inductive == Spec => []IInv
<1>1. IInv /\ [Next]_vars => IInv'
      BY TypeStep, RowsStep, FiledStep DEF IInv
<1> QED BY Starts, <1>1, PTL DEF Spec

\* Every variable keeps its type.
THEOREM TypeCorrect == Spec => []TypeOK
BY Inductive, PTL DEF IInv

\* An event is counted once, however often and overlapping it is delivered.
THEOREM CountedOnce == Spec => []OpensAreCounted
BY Inductive, PTL DEF IInv, Filed

\* Events that do not overlap may come in any order.
THEOREM OrderIndependent == Spec => []StatusIsHighest
BY Inductive, PTL DEF IInv, Filed

===============================================================================
