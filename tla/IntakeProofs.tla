---------------------------- MODULE IntakeProofs ----------------------------
(* Theorems about Intake, for every value of its constants. *)
EXTENDS Intake, TLAPS

-----------------------------------------------------------------------------
(* Type correctness *)

LEMMA RowTypes == \A r \in Requests : RowOf(r) \in Rows /\ IdOf(r) \in Ids
BY RequestsAssumption, OwnIdsAssumption DEF RowOf, Rows, IdOf, Ids

\* A response ends its request.
LEMMA ReplyTypes ==
    ASSUME TypeOK, NEW r \in Requests, NEW answer \in Answers, answer # Unanswered,
           Reply(r, answer)
    PROVE  /\ pc' \in [Requests -> Stages]
           /\ answers' \in [Requests -> Answers]
           /\ \A q \in Requests : pc'[q] = "done" <=> answers'[q] # Unanswered
BY DEF TypeOK, Reply, Goto, Stages

LEMMA AnswerTypes ==
    /\ \A r \in Requests : [kind |-> "accepted", id |-> r] \in Answers
    /\ \A r \in Requests : [kind |-> "accepted", id |-> r] # Unanswered
    /\ \A row \in Rows, r \in Requests :
          AnswerFrom(row, r) \in Answers /\ AnswerFrom(row, r) # Unanswered
    /\ Refusal \in Answers /\ Refusal # Unanswered
    /\ Error \in Answers /\ Error # Unanswered
<1> USE DEF Answers, Unanswered, Refusal, Conflict, Error, Ids
<1>1. \A r \in Requests : [kind |-> "accepted", id |-> r] \in Answers
  OBVIOUS
<1>2. \A r \in Requests : [kind |-> "accepted", id |-> r].kind # Unanswered.kind
  OBVIOUS
<1>3. ASSUME NEW row \in Rows, NEW r \in Requests
      PROVE  AnswerFrom(row, r) \in Answers /\ AnswerFrom(row, r).kind # Unanswered.kind
  BY <1>3 DEF AnswerFrom, Rows
<1>4. /\ Refusal \in Answers /\ Refusal.kind # Unanswered.kind
      /\ Error \in Answers /\ Error.kind # Unanswered.kind
  OBVIOUS
<1> HIDE DEF Answers, Unanswered, Refusal, Conflict, Error
<1> QED BY <1>1, <1>2, <1>3, <1>4

LEMMA GotoTypes ==
    ASSUME TypeOK, NEW r \in Requests, pc[r] # "done",
           NEW stage \in Stages \ {"done"}, Goto(r, stage), UNCHANGED answers
    PROVE  /\ pc' \in [Requests -> Stages]
           /\ answers' \in [Requests -> Answers]
           /\ \A q \in Requests : pc'[q] = "done" <=> answers'[q] # Unanswered
BY DEF TypeOK, Goto, Stages

LEMMA InitTypeOK == Init => TypeOK
BY DEF Init, TypeOK, Stages, Answers

LEMMA NextTypeOK == TypeOK /\ [Next]_vars => TypeOK'
<1> SUFFICES ASSUME TypeOK, [Next]_vars
             PROVE  TypeOK'
  OBVIOUS
<1>1. ASSUME NEW r \in Requests, Refuse(r) PROVE TypeOK'
  BY <1>1, ReplyTypes, AnswerTypes DEF TypeOK, Refuse
<1>2. ASSUME NEW r \in Requests, Admit(r) \/ Begin(r) \/ InsertEvent(r) PROVE TypeOK'
  BY <1>2, GotoTypes DEF TypeOK, Admit, Begin, InsertEvent, Stages
<1>3. ASSUME NEW r \in Requests, Insert(r) PROVE TypeOK'
  BY <1>3, GotoTypes DEF TypeOK, Insert, Stages
<1>4. ASSUME NEW r \in Requests, InsertClashes(r) PROVE TypeOK'
  BY <1>4, ReplyTypes, AnswerTypes DEF TypeOK, InsertClashes
<1>5. ASSUME NEW r \in Requests, Commit(r) PROVE TypeOK'
  BY <1>5, ReplyTypes, AnswerTypes, RowTypes DEF TypeOK, Commit, CommitRows
<1>6. ASSUME NEW r \in Requests, ReplyFromRow(r) PROVE TypeOK'
  <2>1. PICK row \in rows : Reply(r, AnswerFrom(row, r))
    BY <1>6 DEF ReplyFromRow
  <2>2. row \in Rows
    BY DEF TypeOK
  <2> QED BY <1>6, <2>1, <2>2, ReplyTypes, AnswerTypes DEF TypeOK, ReplyFromRow
<1>7. ASSUME NEW r \in Requests, Breaks(r) PROVE TypeOK'
  <2>1. rows' \subseteq Rows /\ outbox' \subseteq Ids
    BY <1>7, RowTypes DEF TypeOK, Breaks, CommitRows
  <2>2. errors' \in Nat
    BY <1>7 DEF TypeOK, Breaks
  <2> QED BY <1>7, <2>1, <2>2, ReplyTypes, AnswerTypes DEF TypeOK, Breaks
<1>8. CASE UNCHANGED vars
  BY <1>8 DEF TypeOK, vars
<1> QED BY <1>1, <1>2, <1>3, <1>4, <1>5, <1>6, <1>7, <1>8 DEF Next, Step

\* With any number of requests and of open database transactions, the tables and
\* the requests hold values of their types, and a request is over exactly when it
\* was answered.
THEOREM TypeCorrect == Spec => []TypeOK
BY InitTypeOK, NextTypeOK, PTL DEF Spec

-----------------------------------------------------------------------------
(* The tables: one row per key and per id, each with its event *)

\* Open transactions clash neither with each other nor with what is committed.
OpenApart ==
    /\ \A q, r \in Inserting : q # r => KeyOf[q] # KeyOf[r] /\ IdOf(q) # IdOf(r)
    /\ \A r \in Inserting : ~KeyIsTaken(r) /\ ~IdIsTaken(r)

OneRowPerId == \A row1, row2 \in rows : row1.id = row2.id => row1 = row2

TablesInv == OpenApart /\ OneRowPerKey /\ OneRowPerId /\ EventsMatchRows

\* A transaction opens clear of the others, closes, or goes on.
LEMMA InsertingSteps ==
    ASSUME TypeOK, [Next]_vars
    PROVE  \/ Inserting' \subseteq Inserting /\ UNCHANGED <<rows, outbox>>
           \/ \E r \in Requests :
                 /\ ~HeldUp(r) /\ ~KeyIsTaken(r) /\ ~IdIsTaken(r)
                 /\ Inserting' = Inserting \cup {r}
                 /\ UNCHANGED <<rows, outbox>>
           \/ \E r \in Inserting :
                 /\ Inserting' = Inserting \ {r}
                 /\ CommitRows(r)
<1> USE DEF Inserting
<1>1. ASSUME NEW r \in Requests,
             \/ Refuse(r) \/ Admit(r) \/ Begin(r) \/ InsertClashes(r) \/ InsertEvent(r)
             \/ ReplyFromRow(r)
      PROVE  Inserting' \subseteq Inserting /\ UNCHANGED <<rows, outbox>>
  BY <1>1 DEF Refuse, Admit, Begin, InsertClashes, InsertEvent, ReplyFromRow, Reply, Goto, TypeOK
<1>2. ASSUME NEW r \in Requests, Insert(r)
      PROVE  /\ UNCHANGED <<rows, outbox>>
             /\ \/ Inserting' \subseteq Inserting
                \/ /\ ~HeldUp(r) /\ ~KeyIsTaken(r) /\ ~IdIsTaken(r)
                   /\ Inserting' = Inserting \cup {r}
  <2>1. CASE KeyIsTaken(r)
    BY <1>2, <2>1 DEF Insert, Goto, TypeOK
  <2>2. CASE ~KeyIsTaken(r)
    BY <1>2, <2>2 DEF Insert, Goto, TypeOK
  <2> QED BY <2>1, <2>2
<1>3. ASSUME NEW r \in Requests, Commit(r)
      PROVE  r \in Inserting /\ Inserting' = Inserting \ {r} /\ CommitRows(r)
  BY <1>3 DEF Commit, Reply, Goto, TypeOK
<1>4. ASSUME NEW r \in Requests, Breaks(r)
      PROVE  \/ Inserting' \subseteq Inserting /\ UNCHANGED <<rows, outbox>>
             \/ r \in Inserting /\ Inserting' = Inserting \ {r} /\ CommitRows(r)
  BY <1>4 DEF Breaks, Reply, Goto, TypeOK
<1>5. CASE UNCHANGED vars
  BY <1>5 DEF vars
<1> HIDE DEF Inserting
<1> QED BY <1>1, <1>2, <1>3, <1>4, <1>5 DEF Next, Step

LEMMA TablesStep ==
    ASSUME TypeOK, TablesInv, [Next]_vars
    PROVE  TablesInv'
<1> USE DEF TablesInv
<1>1. CASE Inserting' \subseteq Inserting /\ UNCHANGED <<rows, outbox>>
  BY <1>1 DEF OpenApart, OneRowPerKey, OneRowPerId, EventsMatchRows, KeyIsTaken, IdIsTaken
<1>2. ASSUME NEW r \in Requests,
             ~HeldUp(r), ~KeyIsTaken(r), ~IdIsTaken(r),
             Inserting' = Inserting \cup {r},
             UNCHANGED <<rows, outbox>>
      PROVE  TablesInv'
  <2>1. \A q \in Inserting : KeyOf[q] # KeyOf[r] /\ IdOf(q) # IdOf(r)
    BY <1>2 DEF HeldUp
  <2> QED
    BY <1>2, <2>1 DEF OpenApart, OneRowPerKey, OneRowPerId, EventsMatchRows, KeyIsTaken, IdIsTaken
<1>3. ASSUME NEW r \in Inserting, Inserting' = Inserting \ {r}, CommitRows(r)
      PROVE  TablesInv'
  <2>1. \A row \in rows : row.key # KeyOf[r] /\ row.id # IdOf(r)
    BY <1>3 DEF OpenApart, KeyIsTaken, IdIsTaken
  <2>2. RowOf(r).key = KeyOf[r] /\ RowOf(r).id = IdOf(r)
    BY DEF RowOf
  <2>3. rows' = rows \cup {RowOf(r)} /\ outbox' = outbox \cup {IdOf(r)}
    BY <1>3 DEF CommitRows
  <2>4. OneRowPerKey' /\ OneRowPerId'
    BY <2>1, <2>2, <2>3 DEF OneRowPerKey, OneRowPerId
  <2>5. EventsMatchRows'
    BY <2>2, <2>3 DEF EventsMatchRows
  <2>6. OpenApart'
    BY <1>3, <2>2, <2>3 DEF OpenApart, KeyIsTaken, IdIsTaken
  <2> QED BY <2>4, <2>5, <2>6
<1> QED BY <1>1, <1>2, <1>3, InsertingSteps

LEMMA TablesInvariant == Spec => []TablesInv
<1>1. Init => TablesInv
  BY DEF Init, TablesInv, OpenApart, Inserting, OneRowPerKey, OneRowPerId, EventsMatchRows
<1> QED BY <1>1, TablesStep, TypeCorrect, PTL DEF Spec

\* However many requests race with one key, and whichever of their statements
\* break, at most one payment is recorded under it.
THEOREM OneRowPerKeyCorrect == Spec => []OneRowPerKey
BY TablesInvariant, PTL DEF TablesInv

\* A transaction is never in the database without its event, nor an event without
\* its transaction.
THEOREM EventsMatchRowsCorrect == Spec => []EventsMatchRows
BY TablesInvariant, PTL DEF TablesInv

-----------------------------------------------------------------------------
(* The answers.  What follows is about payloads without a field "id": with *)
(* one, the id in the answer is not that of the row (run intake_answer).   *)

NoOwnId == \A b \in Bodies : OwnIdOf[b] = NoId

LEMMA DrawnIds == ASSUME NoOwnId PROVE \A r \in Requests : IdOf(r) = r
BY RequestsAssumption DEF NoOwnId, IdOf

\* What a step does to the answers: nothing, or one answer, true when it is given.
LEMMA AnswerSteps ==
    ASSUME TypeOK, [Next]_vars
    PROVE  /\ rows \subseteq rows' /\ outbox \subseteq outbox'
           /\ \/ UNCHANGED answers
              \/ \E r \in Requests :
                    /\ answers[r] = Unanswered
                    /\ \E answer \in {Refusal, Error} :
                          answers' = [answers EXCEPT ![r] = answer]
              \/ \E r \in Requests :
                    /\ answers[r] = Unanswered /\ CommitRows(r)
                    /\ answers' = [answers EXCEPT ![r] = [kind |-> "accepted", id |-> r]]
              \/ \E r \in Requests, row \in rows :
                    /\ answers[r] = Unanswered /\ row.key = KeyOf[r]
                    /\ answers' = [answers EXCEPT ![r] = AnswerFrom(row, r)]
<1>1. ASSUME NEW r \in Requests, pc[r] # "done" PROVE answers[r] = Unanswered
  BY <1>1 DEF TypeOK
<1>2. ASSUME NEW r \in Requests, Refuse(r) \/ InsertClashes(r) \/ Breaks(r)
      PROVE  /\ answers[r] = Unanswered
             /\ \E answer \in {Refusal, Error} : answers' = [answers EXCEPT ![r] = answer]
             /\ rows \subseteq rows' /\ outbox \subseteq outbox'
  BY <1>1, <1>2 DEF Refuse, InsertClashes, Breaks, Reply, CommitRows
<1>3. ASSUME NEW r \in Requests, Admit(r) \/ Begin(r) \/ Insert(r) \/ InsertEvent(r)
      PROVE  UNCHANGED <<rows, outbox, answers>>
  BY <1>3 DEF Admit, Begin, Insert, InsertEvent
<1>4. ASSUME NEW r \in Requests, Commit(r)
      PROVE  /\ answers[r] = Unanswered /\ CommitRows(r)
             /\ answers' = [answers EXCEPT ![r] = [kind |-> "accepted", id |-> r]]
             /\ rows \subseteq rows' /\ outbox \subseteq outbox'
  BY <1>1, <1>4 DEF Commit, Reply, CommitRows
<1>5. ASSUME NEW r \in Requests, ReplyFromRow(r)
      PROVE  /\ \E row \in rows :
                   /\ answers[r] = Unanswered /\ row.key = KeyOf[r]
                   /\ answers' = [answers EXCEPT ![r] = AnswerFrom(row, r)]
             /\ UNCHANGED <<rows, outbox>>
  BY <1>1, <1>5 DEF ReplyFromRow, Reply
<1>6. CASE UNCHANGED vars
  BY <1>6 DEF vars
<1> QED BY <1>2, <1>3, <1>4, <1>5, <1>6 DEF Next, Step

\* What AnswersHold says of one request.
Holds(r) ==
    /\ ToldId(r) => /\ answers[r].id \in outbox
                    /\ [RowOf(r) EXCEPT !.id = answers[r].id] \in rows
    /\ answers[r] = Conflict => \E row \in rows : row.key = KeyOf[r] /\ row.body # BodyOf[r]

LEMMA AnswersHoldStep ==
    ASSUME NoOwnId, TypeOK, EventsMatchRows, AnswersHold, [Next]_vars
    PROVE  AnswersHold'
<1> SUFFICES ASSUME NEW q \in Requests PROVE Holds(q)'
  BY DEF AnswersHold, Holds
<1>1. Holds(q)
  BY DEF AnswersHold, Holds
<1>2. rows \subseteq rows' /\ outbox \subseteq outbox'
  BY AnswerSteps
<1>3. CASE answers'[q] = answers[q]
  BY <1>1, <1>2, <1>3 DEF Holds, ToldId, RowOf, IdOf
<1>4. CASE answers'[q] \in {Refusal, Error}
  BY <1>4 DEF Holds, ToldId, Refusal, Error, Conflict
<1>5. ASSUME answers'[q] = [kind |-> "accepted", id |-> q], CommitRows(q) PROVE Holds(q)'
  <2>1. IdOf(q) = q
    BY DrawnIds
  <2>2. RowOf(q) \in rows' /\ q \in outbox'
    BY <1>5, <2>1 DEF CommitRows
  <2>3. [RowOf(q) EXCEPT !.id = q] = RowOf(q)
    BY <2>1 DEF RowOf
  <2>4. answers'[q].id = q /\ answers'[q].kind # Conflict.kind
    BY <1>5 DEF Conflict
  <2> QED BY <2>2, <2>3, <2>4 DEF Holds, RowOf, IdOf
<1>6. ASSUME NEW row \in rows, row.key = KeyOf[q], answers'[q] = AnswerFrom(row, q)
      PROVE  Holds(q)'
  <2>1. row \in Rows /\ row \in rows' /\ row.id \in outbox'
    BY <1>2 DEF EventsMatchRows, TypeOK
  <2>2. CASE row.body = BodyOf[q]
    <3>1. answers'[q] = [kind |-> "duplicate", id |-> row.id]
      BY <1>6, <2>2 DEF AnswerFrom
    <3>2. [RowOf(q) EXCEPT !.id = row.id] = row
      BY <1>6, <2>1, <2>2 DEF RowOf, Rows
    <3>3. answers'[q].id = row.id /\ answers'[q].kind # Conflict.kind
      BY <3>1 DEF Conflict
    <3> QED BY <2>1, <3>2, <3>3 DEF Holds, RowOf, IdOf
  <2>3. CASE row.body # BodyOf[q]
    BY <1>6, <2>1, <2>3 DEF AnswerFrom, Conflict, Holds, ToldId
  <2> QED BY <2>2, <2>3
<1> QED BY <1>3, <1>4, <1>5, <1>6, AnswerSteps DEF TypeOK

\* Whoever is told an id finds that transaction and its event in the database, under
\* its own key and payload; whoever is told of a conflict has one.
THEOREM AnswersHoldCorrect == ASSUME NoOwnId PROVE Spec => []AnswersHold
<1>1. Init => AnswersHold
  BY DEF Init, AnswersHold, ToldId, Unanswered, Conflict
<1>2. TypeOK /\ TablesInv /\ AnswersHold /\ [Next]_vars => AnswersHold'
  BY AnswersHoldStep DEF TablesInv
<1> QED BY <1>1, <1>2, TypeCorrect, TablesInvariant, PTL DEF Spec

\* All requests with one key that are told an id are told the same one, however they
\* were interleaved, delayed or repeated.
THEOREM OneIdPerKeyCorrect == ASSUME NoOwnId PROVE Spec => []OneIdPerKey
<1>1. AnswersHold /\ OneRowPerKey => OneIdPerKey
  <2> SUFFICES ASSUME AnswersHold, OneRowPerKey,
                      NEW q \in Requests, NEW r \in Requests,
                      ToldId(q), ToldId(r), KeyOf[q] = KeyOf[r]
               PROVE  answers[q].id = answers[r].id
    BY DEF OneIdPerKey
  <2> DEFINE Told(x) == [RowOf(x) EXCEPT !.id = answers[x].id]
  <2>1. Told(q) \in rows /\ Told(r) \in rows
    BY DEF AnswersHold
  <2>2. Told(q).key = KeyOf[q] /\ Told(r).key = KeyOf[r]
    BY DEF RowOf
  <2>3. Told(q).id = answers[q].id /\ Told(r).id = answers[r].id
    BY DEF RowOf
  <2> HIDE DEF Told
  <2> QED BY <2>1, <2>2, <2>3 DEF OneRowPerKey
<1> QED BY <1>1, AnswersHoldCorrect, OneRowPerKeyCorrect, PTL

-----------------------------------------------------------------------------
(* Intake implements IdempotentPay *)

\* Only admissible payloads get past line 156.
OnlyAdmitted ==
    \A r \in Requests : pc[r] \notin {"sent", "done"} => BodyOf[r] \in Admissible

LEMMA OnlyAdmittedStep == TypeOK /\ OnlyAdmitted /\ [Next]_vars => OnlyAdmitted'
BY DEF TypeOK, OnlyAdmitted, Next, Step, vars, Refuse, Admit, Begin, Insert, InsertClashes,
   InsertEvent, Commit, ReplyFromRow, Breaks, Reply, Goto

LEMMA PromiseStep ==
    ASSUME NoOwnId, TypeOK, TablesInv, OnlyAdmitted, [Next]_vars
    PROVE  [Promise!Next]_Promise!vars
<1> DEFINE Admitted == {r \in Requests : BodyOf[r] \in Admissible}
<1> USE DEF Promise!Answer, Promise!Unanswered, Unanswered
<1>a. ASSUME NEW r \in Requests, pc[r] # "done" PROVE answers[r] = Unanswered
  BY <1>a DEF TypeOK
<1>b. ASSUME NEW r \in Inserting PROVE
        /\ r \in Admitted
        /\ \A e \in rows : e.key # KeyOf[r] /\ e.id # IdOf(r)
        /\ RowOf(r) = Promise!Entry(r, r) /\ IdOf(r) = r /\ r \in Ids
        /\ answers[r] = Unanswered
  BY <1>a, <1>b, DrawnIds
  DEF Inserting, OnlyAdmitted, TablesInv, OpenApart, KeyIsTaken, IdIsTaken, RowOf,
      Promise!Entry, Ids
<1>1. ASSUME NEW r \in Requests, Refuse(r) PROVE Promise!Refuse(r)
  BY <1>1, <1>a DEF Refuse, Reply, Promise!Refuse, Promise!Refusal, Refusal
<1>2. ASSUME NEW r \in Requests, Admit(r) \/ Begin(r) \/ Insert(r) \/ InsertEvent(r)
      PROVE  UNCHANGED Promise!vars
  BY <1>2 DEF Admit, Begin, Insert, InsertEvent, Promise!vars
<1>3. ASSUME NEW r \in Requests, InsertClashes(r) PROVE Promise!Fail(r)
  BY <1>3, <1>a DEF InsertClashes, Reply, Promise!Fail, Promise!Error, Error
<1>4. ASSUME NEW r \in Requests, Commit(r) PROVE Promise!Record(r)
  <2>1. r \in Inserting
    BY <1>4 DEF Commit, Inserting
  <2> QED
    BY <1>4, <1>b, <2>1 DEF Commit, CommitRows, Reply, Promise!Record, Promise!AcceptedAs
<1>5. ASSUME NEW r \in Requests, ReplyFromRow(r) PROVE Promise!Repeat(r)
  <2>1. r \in Admitted
    BY <1>5 DEF ReplyFromRow, OnlyAdmitted
  <2> QED
    BY <1>5, <1>a, <2>1
    DEF ReplyFromRow, Reply, AnswerFrom, Conflict, Promise!Repeat, Promise!DuplicateOf,
        Promise!Conflict
<1>6. ASSUME NEW r \in Requests, Breaks(r) PROVE Promise!Fail(r) \/ Promise!Record(r)
  <2>1. answers[r] = Unanswered /\ answers' = [answers EXCEPT ![r] = Error]
    BY <1>6, <1>a DEF Breaks, Reply
  <2>2. CASE UNCHANGED rows
    BY <2>1, <2>2 DEF Promise!Fail, Promise!Error, Error
  <2>3. CASE pc[r] = "complete" /\ CommitRows(r)
    <3>1. r \in Inserting
      BY <2>3 DEF Inserting
    <3> QED
      BY <1>b, <2>1, <2>3, <3>1 DEF CommitRows, Promise!Record, Promise!Error, Error
  <2> QED BY <1>6, <2>2, <2>3 DEF Breaks
<1>7. CASE UNCHANGED vars
  BY <1>7 DEF vars, Promise!vars
<1> QED BY <1>1, <1>2, <1>3, <1>4, <1>5, <1>6, <1>7 DEF Next, Step, Promise!Next

\* For any number of requests, keys and connections POST /pay behaves, towards its
\* clients, as if it recorded each payment at once: every step is one of
\* IdempotentPay, or none.
THEOREM IntakeKeepsPromise == ASSUME NoOwnId PROVE Spec => KeepsPromise
<1>1. Init => Promise!Init
  BY DEF Init, Promise!Init, Unanswered, Promise!Unanswered
<1>2. Init => OnlyAdmitted
  BY DEF Init, OnlyAdmitted
<1>3. TypeOK /\ TablesInv /\ OnlyAdmitted /\ [Next]_vars => [Promise!Next]_Promise!vars
  BY PromiseStep
<1> QED
  BY <1>1, <1>2, <1>3, OnlyAdmittedStep, TypeCorrect, TablesInvariant, PTL
  DEF Spec, KeepsPromise, Promise!Spec
=============================================================================
