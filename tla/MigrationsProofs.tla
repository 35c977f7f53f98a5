-------------------------- MODULE MigrationsProofs --------------------------
(* Theorems about Migrations, for every value of its constants. *)
EXTENDS Migrations, TLAPS

InTransaction == {"sql", "recording", "committing"}

-----------------------------------------------------------------------------
(* The file a run is at *)

LEMMA CurrentIsFirst ==
    ASSUME TypeOK, NEW r \in Runs, left[r] # {}
    PROVE  /\ Current(r) \in left[r]
           /\ Current(r) \in Files /\ Current(r) \in DOMAIN Release[r]
           /\ Content(r) \in Contents
           /\ \A w \in left[r] : Current(r) <= w
<1>1. left[r] \in SUBSET Files /\ left[r] \subseteq DOMAIN Release[r]
  BY DEF TypeOK
<1>2. \E v \in left[r] : \A w \in left[r] : v <= w
  BY <1>1, FilesAssumption
<1>3. Current(r) \in left[r] /\ \A w \in left[r] : Current(r) <= w
  BY <1>2 DEF Current
<1>4. Content(r) \in Contents
  BY <1>1, <1>3, ReleaseAssumption DEF Content
<1> QED BY <1>1, <1>3, <1>4

-----------------------------------------------------------------------------
(* Type correctness *)

LEMMA InitTypeOK == Init => TypeOK
BY ReleaseAssumption DEF Init, TypeOK, Stages, NoWrites, Effects

LEMMA TakesEffectTypes ==
    ASSUME TypeOK, NEW r \in Runs, left[r] # {}, TakesEffect(r)
    PROVE  applied' \in Seq(Effects)
<1>1. [file |-> Current(r), content |-> Content(r)] \in Effects
  BY CurrentIsFirst DEF Effects
<1> QED BY <1>1 DEF TakesEffect, TypeOK

LEMMA PublishTypes ==
    ASSUME TypeOK, NEW r \in Runs, left[r] # {}, Publish(r)
    PROVE  /\ applied' \in Seq(Effects)
           /\ recorded' \in [Files -> Contents \cup {NoContent}]
<1>1. applied' \in Seq(Effects)
  BY TakesEffectTypes DEF Publish, TypeOK
<1>2. Current(r) \in Files /\ Content(r) \in Contents
  BY CurrentIsFirst
<1>3. recorded' \in [Files -> Contents \cup {NoContent}]
  BY <1>2 DEF Publish, TypeOK
<1> QED BY <1>1, <1>3

LEMMA SpendTypes ==
    ASSUME TypeOK, NEW r \in Runs, NEW kind \in {"errors", "breaks"}, NEW bound \in Nat,
           Spend(r, kind, bound)
    PROVE  hit' \subseteq Runs /\ spent' \in [{"errors", "breaks"} -> Nat]
BY DEF TypeOK, Spend

LEMMA NextTypeOK == TypeOK /\ [Next]_vars => TypeOK'
<1> SUFFICES ASSUME TypeOK, [Next]_vars
             PROVE  TypeOK'
  OBVIOUS
<1>1. ASSUME NEW r \in Runs, Lock(r) PROVE TypeOK'
  BY <1>1 DEF TypeOK, Lock, Goto, Stages
<1>2. ASSUME NEW r \in Runs, Look(r) PROVE TypeOK'
  <2>1. /\ left' \in [Runs -> SUBSET Files]
        /\ \A q \in Runs : left'[q] \subseteq DOMAIN Release[q]
    <3>1. left' = left \/ left' = [left EXCEPT ![r] = left[r] \ {Current(r)}]
      BY <1>2 DEF Look
    <3>2. left[r] \ {Current(r)} \in SUBSET Files
      BY DEF TypeOK
    <3>3. left' \in [Runs -> SUBSET Files]
      BY <3>1, <3>2 DEF TypeOK
    <3>4. \A q \in Runs : left'[q] \subseteq left[q]
      BY <3>1 DEF TypeOK
    <3> QED BY <3>3, <3>4 DEF TypeOK
  <2>2. pc' \in [Runs -> Stages]
    BY <1>2 DEF TypeOK, Look, Goto, Stages
  <2>3. \A q \in Runs : pc'[q] \in InTransaction => left'[q] # {}
    BY <1>2 DEF TypeOK, Look, Goto, InTransaction
  <2> QED BY <1>2, <2>1, <2>2, <2>3 DEF TypeOK, Look, InTransaction
<1>3. ASSUME NEW r \in Runs, RunSql(r) PROVE TypeOK'
  BY <1>3 DEF TypeOK, RunSql, Goto, Stages
<1>4. ASSUME NEW r \in Runs, Record(r) PROVE TypeOK'
  <2>1. tx' \in [Runs -> [sql: BOOLEAN, row: BOOLEAN]]
    <3>1. \/ tx' = [tx EXCEPT ![r] = [tx[r] EXCEPT !.row = TRUE]]
          \/ tx' = [tx EXCEPT ![r] = NoWrites]
      BY <1>4 DEF Record
    <3>2. /\ [tx[r] EXCEPT !.row = TRUE] \in [sql: BOOLEAN, row: BOOLEAN]
          /\ NoWrites \in [sql: BOOLEAN, row: BOOLEAN]
      BY DEF TypeOK, NoWrites
    <3> QED BY <3>1, <3>2 DEF TypeOK
  <2>2. pc' \in [Runs -> Stages]
    BY <1>4 DEF TypeOK, Record, Goto, Stages
  <2>3. \A q \in Runs : pc'[q] \in InTransaction => left'[q] # {}
    BY <1>4 DEF TypeOK, Record, Goto, InTransaction
  <2> QED BY <1>4, <2>1, <2>2, <2>3 DEF TypeOK, Record, InTransaction
<1>5. ASSUME NEW r \in Runs, Commit(r) PROVE TypeOK'
  <2>1. /\ applied' \in Seq(Effects)
        /\ recorded' \in [Files -> Contents \cup {NoContent}]
    BY <1>5, PublishTypes DEF TypeOK, Commit
  <2> QED BY <1>5, <2>1 DEF TypeOK, Commit, Goto, Stages, NoWrites
<1>6. ASSUME NEW r \in Runs, Close(r) PROVE TypeOK'
  BY <1>6 DEF TypeOK, Close, Unlock, Goto, Stages
<1>7. ASSUME NEW r \in Runs, Raises(r) PROVE TypeOK'
  <2>1. hit' \subseteq Runs /\ spent' \in [{"errors", "breaks"} -> Nat]
    BY <1>7, SpendTypes, FaultBoundsAssumption DEF Raises
  <2> QED BY <1>7, <2>1 DEF TypeOK, Raises, Goto, Stages, NoWrites
<1>8. ASSUME NEW r \in Runs, Breaks(r) PROVE TypeOK'
  <2>1. hit' \subseteq Runs /\ spent' \in [{"errors", "breaks"} -> Nat]
    BY <1>8, SpendTypes, FaultBoundsAssumption DEF Breaks
  <2>2. /\ applied' \in Seq(Effects)
        /\ recorded' \in [Files -> Contents \cup {NoContent}]
    BY <1>8, PublishTypes DEF TypeOK, Breaks
  <2> QED BY <1>8, <2>1, <2>2 DEF TypeOK, Breaks, Goto, Stages, NoWrites
<1>9. CASE UNCHANGED vars
  BY <1>9 DEF TypeOK, vars
<1> QED BY <1>1, <1>2, <1>3, <1>4, <1>5, <1>6, <1>7, <1>8, <1>9 DEF Next, Step

\* The migration model's variables keep their types.
THEOREM TypeCorrect == Spec => []TypeOK
BY InitTypeOK, NextTypeOK, PTL DEF Spec

-----------------------------------------------------------------------------
(* The inductive invariant *)

\* Whoever is between line 24 and line 63 without having failed holds the lock.
LockCovers ==
    \A r \in Runs : pc[r] \in InTransaction \cup {"looking", "closing"} => lock = r

\* An open transaction has done what its run has sent.
TransactionsAgree ==
    \A r \in Runs :
        /\ tx[r].sql <=> pc[r] \in {"recording", "committing"}
        /\ tx[r].row <=> pc[r] = "committing"

\* The files a run is done with are recorded as it has them.
DealtWith ==
    \A r \in Runs :
        /\ \A v \in DOMAIN Release[r] \ left[r] : recorded[v] = Release[r][v]
        /\ pc[r] \in {"closing", "done"} => left[r] = {}

\* A run that threw had its cause.
ThrowsForCause ==
    \A r \in Runs : pc[r] \in {"aborting", "failed"} =>
        \/ r \in hit
        \/ \E v \in DOMAIN Release[r] : recorded[v] \notin {NoContent, Release[r][v]}

Control == TypeOK /\ LockCovers /\ TransactionsAgree /\ LookStaysTrue

\* Files are only ever added to schema_migrations, one at a time by the run that
\* holds the lock, and the schema with them.
Records(r) ==
    /\ pc[r] = "committing"
    /\ recorded' = [recorded EXCEPT ![Current(r)] = Content(r)]
    /\ applied' = Append(applied, [file |-> Current(r), content |-> Content(r)])

LEMMA PublishRecords ==
    ASSUME Control, NEW r \in Runs, pc[r] = "committing", Publish(r)
    PROVE  Records(r)
BY DEF Control, TransactionsAgree, Publish, Records, TakesEffect

LEMMA TableSteps ==
    ASSUME Control, [Next]_vars
    PROVE  UNCHANGED <<recorded, applied>> \/ \E r \in Runs : Records(r)
<1>1. ASSUME NEW r \in Runs, Lock(r) \/ Look(r) \/ RunSql(r) \/ Record(r) \/ Close(r) \/ Raises(r)
      PROVE  UNCHANGED <<recorded, applied>>
  BY <1>1 DEF Lock, Look, RunSql, Record, Close, Raises
<1>2. ASSUME NEW r \in Runs, Commit(r) PROVE Records(r)
  BY <1>2, PublishRecords DEF Commit
<1>3. ASSUME NEW r \in Runs, Breaks(r) PROVE UNCHANGED <<recorded, applied>> \/ Records(r)
  BY <1>3, PublishRecords DEF Breaks
<1>4. CASE UNCHANGED vars
  BY <1>4 DEF vars
<1> QED BY <1>1, <1>2, <1>3, <1>4 DEF Next, Step

-----------------------------------------------------------------------------
(* The control part *)

LEMMA NextLockCovers == Control /\ [Next]_vars => LockCovers'
<1> SUFFICES ASSUME Control, [Next]_vars
             PROVE  LockCovers'
  OBVIOUS
<1> USE NoRunAssumption DEF InTransaction
<1>1. ASSUME NEW r \in Runs, Lock(r) PROVE LockCovers'
  BY <1>1 DEF Control, TypeOK, LockCovers, Lock, LockIsFree, Goto
<1>2. ASSUME NEW r \in Runs, Look(r) PROVE LockCovers'
  BY <1>2 DEF Control, TypeOK, LockCovers, Look, Goto
<1>3. ASSUME NEW r \in Runs, RunSql(r) \/ Record(r) \/ Commit(r) PROVE LockCovers'
  BY <1>3 DEF Control, TypeOK, LockCovers, RunSql, Record, Commit, Goto
<1>4. ASSUME NEW r \in Runs, Close(r) PROVE LockCovers'
  BY <1>4 DEF Control, TypeOK, LockCovers, Close, Unlock, Goto
<1>5. ASSUME NEW r \in Runs, Raises(r) PROVE LockCovers'
  BY <1>5 DEF Control, TypeOK, LockCovers, Raises, Goto
<1>6. ASSUME NEW r \in Runs, Breaks(r) PROVE LockCovers'
  BY <1>6 DEF Control, TypeOK, LockCovers, Breaks, Goto
<1>7. CASE UNCHANGED vars
  BY <1>7 DEF Control, LockCovers, vars
<1> QED BY <1>1, <1>2, <1>3, <1>4, <1>5, <1>6, <1>7 DEF Next, Step

LEMMA NextTransactionsAgree == Control /\ [Next]_vars => TransactionsAgree'
<1> SUFFICES ASSUME Control, [Next]_vars
             PROVE  TransactionsAgree'
  OBVIOUS
<1>1. ASSUME NEW r \in Runs, Lock(r) \/ Close(r) PROVE TransactionsAgree'
  BY <1>1 DEF Control, TypeOK, TransactionsAgree, Lock, Close, Goto
<1>2. ASSUME NEW r \in Runs, Look(r) PROVE TransactionsAgree'
  BY <1>2 DEF Control, TypeOK, TransactionsAgree, Look, Goto
<1>3. ASSUME NEW r \in Runs, RunSql(r) PROVE TransactionsAgree'
  BY <1>3 DEF Control, TypeOK, TransactionsAgree, RunSql, Goto
<1>4. ASSUME NEW r \in Runs, Record(r) PROVE TransactionsAgree'
  BY <1>4 DEF Control, TypeOK, TransactionsAgree, Record, Goto, NoWrites
<1>5. ASSUME NEW r \in Runs, Commit(r) \/ Raises(r) \/ Breaks(r) PROVE TransactionsAgree'
  BY <1>5 DEF Control, TypeOK, TransactionsAgree, Commit, Raises, Breaks, Goto, NoWrites
<1>6. CASE UNCHANGED vars
  BY <1>6 DEF Control, TransactionsAgree, vars
<1> QED BY <1>1, <1>2, <1>3, <1>4, <1>5, <1>6 DEF Next, Step

LEMMA NextLookStaysTrue == Control /\ [Next]_vars => LookStaysTrue'
<1> SUFFICES ASSUME Control, [Next]_vars,
                    NEW r \in Runs, pc'[r] \in InTransaction
             PROVE  recorded'[Current(r)'] = NoContent
  BY DEF LookStaysTrue, InTransaction
<1> USE DEF InTransaction
<1>1. ASSUME NEW q \in Runs, Look(q) PROVE recorded'[Current(r)'] = NoContent
  <2>1. CASE q = r
    BY <1>1, <2>1 DEF Control, TypeOK, Look, Goto, Current
  <2>2. CASE q # r
    BY <1>1, <2>2 DEF Control, TypeOK, LookStaysTrue, Look, Goto, Current
  <2> QED BY <2>1, <2>2
<1>2. ASSUME NEW q \in Runs, Lock(q) \/ RunSql(q) \/ Record(q) \/ Close(q) \/ Raises(q)
      PROVE  recorded'[Current(r)'] = NoContent
  <2>1. pc[r] \in InTransaction
    BY <1>2 DEF Control, TypeOK, Lock, RunSql, Record, Close, Raises, Goto
  <2>2. Current(r)' = Current(r) /\ recorded' = recorded
    BY <1>2 DEF Lock, RunSql, Record, Close, Raises, Current
  <2> QED BY <2>1, <2>2 DEF Control, LookStaysTrue
<1>3. ASSUME NEW q \in Runs, Commit(q) PROVE recorded'[Current(r)'] = NoContent
  <2>1. pc[r] \in InTransaction /\ r # q
    BY <1>3 DEF Control, TypeOK, Commit, Goto
  <2>2. lock = r /\ lock = q
    BY <1>3, <2>1 DEF Control, LockCovers, Commit
  <2> QED BY <2>1, <2>2
<1>4. ASSUME NEW q \in Runs, Breaks(q) PROVE recorded'[Current(r)'] = NoContent
  <2>1. pc[r] \in InTransaction /\ r # q /\ Current(r)' = Current(r)
    BY <1>4 DEF Control, TypeOK, Breaks, Goto, Current
  <2>2. pc[q] # "committing"
    BY <2>1 DEF Control, LockCovers
  <2>3. recorded' = recorded
    BY <1>4, <2>2 DEF Breaks
  <2> QED BY <2>1, <2>3 DEF Control, LookStaysTrue
<1>5. CASE UNCHANGED vars
  BY <1>5 DEF Control, LookStaysTrue, vars, Current
<1> QED BY <1>1, <1>2, <1>3, <1>4, <1>5 DEF Next, Step

LEMMA InitControl == Init => Control
BY InitTypeOK DEF Init, Control, LockCovers, TransactionsAgree, LookStaysTrue, InTransaction,
   NoWrites

LEMMA NextControl == Control /\ [Next]_vars => Control'
BY NextTypeOK, NextLockCovers, NextTransactionsAgree, NextLookStaysTrue DEF Control

\* The look at line 36 is still true at line 51.
THEOREM LookStaysTrueCorrect == Spec => []LookStaysTrue
<1>1. Spec => []Control
  BY InitControl, NextControl, PTL DEF Spec
<1>2. Control => LookStaysTrue
  BY DEF Control
<1> QED BY <1>1, <1>2, PTL

-----------------------------------------------------------------------------
(* The records are the schema *)

LEMMA InitRecordsAreTheSchema == Init => RecordsAreTheSchema
BY NoContentAssumption DEF Init, RecordsAreTheSchema

LEMMA NextRecordsAreTheSchema ==
    ASSUME Control, RecordsAreTheSchema, [Next]_vars
    PROVE  RecordsAreTheSchema'
<1>1. CASE UNCHANGED <<recorded, applied>>
  BY <1>1 DEF RecordsAreTheSchema
<1>2. ASSUME NEW r \in Runs, Records(r) PROVE RecordsAreTheSchema'
  <2> DEFINE file == Current(r)
             effect == [file |-> file, content |-> Content(r)]
             last == Len(applied) + 1
  <2>1. /\ applied \in Seq(Effects)
        /\ file \in Files /\ Content(r) \in Contents /\ recorded[file] = NoContent
    BY <1>2, CurrentIsFirst DEF Control, TypeOK, LookStaysTrue, Records
  <2>2. recorded' = [recorded EXCEPT ![file] = Content(r)] /\ applied' = Append(applied, effect)
    BY <1>2 DEF Records
  <2>3. /\ DOMAIN applied = 1..Len(applied) /\ Len(applied) \in Nat
        /\ DOMAIN applied' = (DOMAIN applied) \cup {last}
        /\ last \notin DOMAIN applied
        /\ \A k \in DOMAIN applied : applied'[k] = applied[k] /\ applied[k] \in Effects
        /\ applied'[last] = effect
    <3>1. DOMAIN applied = 1..Len(applied) /\ Len(applied) \in Nat
      BY <2>1
    <3>2. \A k \in DOMAIN applied : applied[k] \in Effects
      BY <2>1, <3>1
    <3>3. DOMAIN applied' = 1..last
      BY <2>1, <2>2, <3>1
    <3>4. DOMAIN applied' = (DOMAIN applied) \cup {last} /\ last \notin DOMAIN applied
      BY <3>1, <3>3
    <3>5. \A k \in 1..Len(applied) : applied'[k] = applied[k]
      BY <2>1, <2>2, <3>1
    <3>6. applied'[last] = effect
      BY <2>1, <2>2, <3>1
    <3> QED BY <3>1, <3>2, <3>4, <3>5, <3>6
  <2> HIDE DEF last
  <2>4. \A k \in DOMAIN applied : applied[k].file # file
    <3> SUFFICES ASSUME NEW k \in DOMAIN applied, applied[k].file = file
                 PROVE  FALSE
      OBVIOUS
    <3>1. applied[k] \in Effects
      BY <2>3
    <3>2. applied[k] = [file |-> file, content |-> applied[k].content]
      BY <3>1 DEF Effects
    <3>3. applied[k].content \in Contents
      BY <3>1 DEF Effects
    <3>4. recorded[file] = applied[k].content
      BY <2>1, <3>2, <3>3 DEF RecordsAreTheSchema
    <3> QED BY <2>1, <3>3, <3>4, NoContentAssumption
  <2>5. \A k, l \in DOMAIN applied' : applied'[k].file = applied'[l].file => k = l
    <3> SUFFICES ASSUME NEW k \in DOMAIN applied', NEW l \in DOMAIN applied',
                        applied'[k].file = applied'[l].file
                 PROVE  k = l
      OBVIOUS
    <3>1. CASE k # last /\ l # last
      BY <2>3, <3>1 DEF RecordsAreTheSchema
    <3>2. CASE k = last /\ l # last
      BY <2>3, <2>4, <3>2
    <3>3. CASE k # last /\ l = last
      BY <2>3, <2>4, <3>3
    <3> QED BY <3>1, <3>2, <3>3
  <2>6. ASSUME NEW v \in Files, NEW c \in Contents
        PROVE  recorded'[v] = c <=>
                 \E k \in DOMAIN applied' : applied'[k] = [file |-> v, content |-> c]
    <3>1. CASE v = file
      <4>1. recorded'[v] = Content(r)
        BY <2>1, <2>2, <3>1 DEF Control, TypeOK
      <4>2. \A k \in DOMAIN applied : applied'[k] # [file |-> v, content |-> c]
        <5> SUFFICES ASSUME NEW k \in DOMAIN applied,
                            applied'[k] = [file |-> v, content |-> c]
                     PROVE  FALSE
          OBVIOUS
        <5>1. applied[k].file = v
          BY <2>3
        <5> QED BY <2>4, <3>1, <5>1
      <4>3. effect = [file |-> v, content |-> c] <=> Content(r) = c
        <5>1. effect.content = Content(r) /\ [file |-> v, content |-> c].content = c
          OBVIOUS
        <5>2. Content(r) = c => effect = [file |-> v, content |-> c]
          BY <3>1
        <5> QED BY <5>1, <5>2
      <4>4. (\E k \in DOMAIN applied' : applied'[k] = [file |-> v, content |-> c])
               <=> effect = [file |-> v, content |-> c]
        BY <2>3, <4>2
      <4> QED BY <4>1, <4>3, <4>4
    <3>2. CASE v # file
      <4>1. recorded'[v] = recorded[v]
        BY <2>2, <3>2 DEF Control, TypeOK
      <4>2. effect # [file |-> v, content |-> c]
        <5>1. effect.file = file /\ [file |-> v, content |-> c].file = v
          OBVIOUS
        <5> QED BY <3>2, <5>1
      <4>3. (\E k \in DOMAIN applied' : applied'[k] = [file |-> v, content |-> c])
               <=> (\E k \in DOMAIN applied : applied[k] = [file |-> v, content |-> c])
        BY <2>3, <4>2
      <4> QED BY <4>1, <4>3 DEF RecordsAreTheSchema
    <3> QED BY <3>1, <3>2
  <2> QED BY <2>5, <2>6 DEF RecordsAreTheSchema
<1> QED BY <1>1, <1>2, TableSteps

\* Whatever breaks between BEGIN and COMMIT, what is recorded took effect once and
\* with the content that is recorded, and nothing else did.
THEOREM RecordsAreTheSchemaCorrect == Spec => []RecordsAreTheSchema
<1>1. Init => Control /\ RecordsAreTheSchema
  BY InitControl, InitRecordsAreTheSchema
<1>2. Control /\ RecordsAreTheSchema /\ [Next]_vars => (Control /\ RecordsAreTheSchema)'
  BY NextControl, NextRecordsAreTheSchema
<1> QED BY <1>1, <1>2, PTL DEF Spec

-----------------------------------------------------------------------------
(* Runs that end *)

\* What is recorded stays.
LEMMA RecordsStay ==
    ASSUME Control, [Next]_vars, NEW v \in Files, recorded[v] # NoContent
    PROVE  recorded'[v] = recorded[v]
<1>1. CASE UNCHANGED <<recorded, applied>>
  BY <1>1
<1>2. ASSUME NEW r \in Runs, Records(r) PROVE recorded'[v] = recorded[v]
  <2>1. recorded[Current(r)] = NoContent
    BY <1>2 DEF Control, LookStaysTrue, Records
  <2> QED BY <1>2, <2>1 DEF Control, TypeOK, Records
<1> QED BY <1>1, <1>2, TableSteps

LEMMA NextDealtWith ==
    ASSUME Control, DealtWith, [Next]_vars
    PROVE  DealtWith'
<1>1. ASSUME NEW r \in Runs, NEW v \in DOMAIN Release[r] \ left[r]
      PROVE  recorded'[v] = Release[r][v]
  <2>1. recorded[v] = Release[r][v] /\ v \in Files /\ Release[r][v] \in Contents
    BY ReleaseAssumption DEF DealtWith
  <2>2. recorded[v] # NoContent
    BY <2>1, NoContentAssumption
  <2> QED BY <2>1, <2>2, RecordsStay
<1>2. ASSUME NEW r \in Runs, left'[r] = left[r], pc'[r] \in {"closing", "done"} => left[r] = {}
      PROVE  /\ \A v \in DOMAIN Release[r] \ left'[r] : recorded'[v] = Release[r][v]
             /\ pc'[r] \in {"closing", "done"} => left'[r] = {}
  BY <1>1, <1>2
<1>3. ASSUME NEW q \in Runs, Lock(q) \/ RunSql(q) \/ Record(q) \/ Close(q) \/ Raises(q) \/ Breaks(q)
      PROVE  DealtWith'
  <2>1. \A r \in Runs : left'[r] = left[r]
    BY <1>3 DEF Lock, RunSql, Record, Close, Raises, Breaks
  <2>2. \A r \in Runs : pc'[r] \in {"closing", "done"} => left[r] = {}
    BY <1>3 DEF Control, TypeOK, DealtWith, Lock, RunSql, Record, Close, Raises, Breaks, Goto
  <2> QED BY <1>2, <2>1, <2>2 DEF DealtWith
<1>4. ASSUME NEW q \in Runs, Look(q) PROVE DealtWith'
  <2>1. \A r \in Runs : pc'[r] \in {"closing", "done"} => left'[r] = {}
    BY <1>4 DEF Control, TypeOK, DealtWith, Look, Goto
  <2>2. recorded' = recorded
    BY <1>4 DEF Look
  <2>3. ASSUME NEW r \in Runs, NEW v \in DOMAIN Release[r] \ left'[r]
        PROVE  recorded[v] = Release[r][v]
    <3>1. CASE v \notin left[r]
      BY <3>1 DEF DealtWith
    <3>2. CASE v \in left[r]
      <4>1. r = q /\ v = Current(q) /\ ~Modified(q)
        BY <1>4, <2>3, <3>2 DEF Control, TypeOK, Look
      <4> QED BY <4>1 DEF Modified, Content
    <3> QED BY <3>1, <3>2
  <2> QED BY <2>1, <2>2, <2>3 DEF DealtWith
<1>5. ASSUME NEW q \in Runs, Commit(q) PROVE DealtWith'
  <2>1. \A r \in Runs : pc'[r] \in {"closing", "done"} => left'[r] = {}
    BY <1>5 DEF Control, TypeOK, DealtWith, Commit, Goto
  <2>2. Records(q)
    BY <1>5, PublishRecords DEF Commit
  <2>3. Current(q) \in Files
    BY <1>5, CurrentIsFirst DEF Commit, Control, TypeOK
  <2>4. recorded'[Current(q)] = Release[q][Current(q)]
    BY <2>2, <2>3 DEF Records, Content, Control, TypeOK
  <2>5. ASSUME NEW r \in Runs, NEW v \in DOMAIN Release[r] \ left'[r]
        PROVE  recorded'[v] = Release[r][v]
    <3>1. CASE v \notin left[r]
      BY <1>1, <3>1
    <3>2. CASE v \in left[r]
      <4>1. r = q /\ v = Current(q)
        BY <1>5, <2>5, <3>2 DEF Control, TypeOK, Commit
      <4> QED BY <2>4, <4>1
    <3> QED BY <3>1, <3>2
  <2> QED BY <2>1, <2>5 DEF DealtWith
<1>6. CASE UNCHANGED vars
  BY <1>6 DEF DealtWith, vars
<1> QED BY <1>3, <1>4, <1>5, <1>6 DEF Next, Step

LEMMA InvariantDealtWith == Spec => [](Control /\ DealtWith)
<1>1. Init => Control /\ DealtWith
  BY InitControl DEF Init, DealtWith
<1>2. Control /\ DealtWith /\ [Next]_vars => (Control /\ DealtWith)'
  BY NextControl, NextDealtWith
<1> QED BY <1>1, <1>2, PTL DEF Spec

\* A run that ends well leaves every file of its release applied as it is there.
THEOREM DoneMeansCompleteCorrect == Spec => []DoneMeansComplete
<1>1. Control /\ DealtWith => DoneMeansComplete
  BY DEF DealtWith, DoneMeansComplete
<1> QED BY <1>1, InvariantDealtWith, PTL

-----------------------------------------------------------------------------
(* Runs that fail *)

LEMMA NextThrowsForCause ==
    ASSUME Control, ThrowsForCause, [Next]_vars
    PROVE  ThrowsForCause'
<1> DEFINE Cause(r) == \/ r \in hit
                       \/ \E v \in DOMAIN Release[r] :
                             recorded[v] \notin {NoContent, Release[r][v]}
<1> SUFFICES ASSUME NEW r \in Runs, pc'[r] \in {"aborting", "failed"}
             PROVE  Cause(r)'
  BY DEF ThrowsForCause
<1>1. hit \subseteq hit'
  BY DEF Next, Step, Lock, Look, RunSql, Record, Commit, Close, Raises, Breaks, Spend, vars
<1>2. ASSUME pc[r] \in {"aborting", "failed"} PROVE Cause(r)'
  <2>1. Cause(r)
    BY <1>2 DEF ThrowsForCause
  <2>2. CASE r \in hit
    BY <1>1, <2>2
  <2>3. ASSUME NEW v \in DOMAIN Release[r], recorded[v] \notin {NoContent, Release[r][v]}
        PROVE  Cause(r)'
    <3>1. v \in Files
      BY ReleaseAssumption
    <3>2. recorded'[v] = recorded[v]
      BY <2>3, <3>1, RecordsStay
    <3> QED BY <2>3, <3>2
  <2> QED BY <2>1, <2>2, <2>3
<1>3. ASSUME NEW q \in Runs, Lock(q) \/ RunSql(q) \/ Commit(q) \/ Close(q) PROVE Cause(r)'
  <2>1. pc[r] \in {"aborting", "failed"}
    BY <1>3 DEF Control, TypeOK, Lock, RunSql, Commit, Close, Goto
  <2> QED BY <1>2, <2>1
<1>4. ASSUME NEW q \in Runs, Record(q) PROVE Cause(r)'
  <2>1. recorded[Current(q)] = NoContent
    BY <1>4 DEF Record, Control, LookStaysTrue
  <2>2. pc[r] \in {"aborting", "failed"}
    BY <1>4, <2>1 DEF Control, TypeOK, Record, Goto
  <2> QED BY <1>2, <2>2
<1>5. ASSUME NEW q \in Runs, Look(q) PROVE Cause(r)'
  <2>1. CASE q # r
    BY <1>2, <1>5, <2>1 DEF Control, TypeOK, Look, Goto
  <2>2. CASE q = r
    <3>1. /\ left[r] # {} /\ recorded[Current(r)] # NoContent /\ Modified(r)
          /\ UNCHANGED recorded
      BY <1>5, <2>2 DEF Control, TypeOK, Look, Goto
    <3>2. Current(r) \in DOMAIN Release[r]
      BY <3>1, CurrentIsFirst DEF Control
    <3> QED BY <3>1, <3>2 DEF Modified, Content
  <2> QED BY <2>1, <2>2
<1>6. ASSUME NEW q \in Runs, Raises(q) \/ Breaks(q) PROVE Cause(r)'
  <2>1. CASE q = r
    BY <1>6, <2>1 DEF Raises, Breaks, Spend
  <2>2. CASE q # r
    BY <1>2, <1>6, <2>2 DEF Control, TypeOK, Raises, Breaks, Goto
  <2> QED BY <2>1, <2>2
<1>7. CASE UNCHANGED vars
  BY <1>2, <1>7 DEF vars
<1> QED BY <1>3, <1>4, <1>5, <1>6, <1>7 DEF Next, Step

\* Runs that race never fail each other.
THEOREM FailsForCauseOnlyCorrect == Spec => []FailsForCauseOnly
<1>1. Init => Control /\ ThrowsForCause
  BY InitControl DEF Init, ThrowsForCause
<1>2. Control /\ ThrowsForCause /\ [Next]_vars => (Control /\ ThrowsForCause)'
  BY NextControl, NextThrowsForCause
<1>3. ThrowsForCause => FailsForCauseOnly
  BY DEF ThrowsForCause, FailsForCauseOnly
<1> QED BY <1>1, <1>2, <1>3, PTL DEF Spec

-----------------------------------------------------------------------------
(* The order of the files *)

LEMMA NextAppliedInFilenameOrder ==
    ASSUME Control, RecordsAreTheSchema, DealtWith, AppliedInFilenameOrder, [Next]_vars
    PROVE  AppliedInFilenameOrder'
<1> SUFFICES ASSUME OnlyAppended
             PROVE  (\A k \in DOMAIN applied, r \in Runs : \A v \in DOMAIN Release[r] :
                        v < applied[k].file => \E l \in 1..(k - 1) : applied[l].file = v)'
  BY DEF AppliedInFilenameOrder, OnlyAppended
<1>1. CASE UNCHANGED <<recorded, applied>>
  BY <1>1 DEF AppliedInFilenameOrder
<1>2. ASSUME NEW q \in Runs, Records(q),
             NEW k \in DOMAIN applied', NEW r \in Runs, NEW v \in DOMAIN Release[r],
             v < applied'[k].file
      PROVE  \E l \in 1..(k - 1) : applied'[l].file = v
  <2> DEFINE file == Current(q)
             last == Len(applied) + 1
  <2>1. /\ applied \in Seq(Effects) /\ Len(applied) \in Nat /\ left[q] # {}
    BY <1>2 DEF Control, TypeOK, Records
  <2>2. /\ DOMAIN applied' = 1..last /\ DOMAIN applied = 1..Len(applied)
        /\ \A j \in 1..Len(applied) : applied'[j] = applied[j]
        /\ applied'[last] = [file |-> file, content |-> Content(q)]
    BY <1>2, <2>1 DEF Records
  <2>3. CASE k # last
    <3>1. k \in DOMAIN applied /\ applied'[k] = applied[k]
      BY <2>1, <2>2, <2>3
    <3>2. PICK l \in 1..(k - 1) : applied[l].file = v
      BY <1>2, <3>1 DEF AppliedInFilenameOrder
    <3>3. l \in 1..Len(applied)
      BY <2>1, <2>2, <3>1
    <3> QED BY <2>2, <3>2, <3>3
  <2>4. CASE k = last
    <3>1. file \in DOMAIN Release[q] /\ \A w \in left[q] : file <= w
      BY <2>1, CurrentIsFirst DEF Control
    <3>2. v < file
      BY <1>2, <2>2, <2>4
    <3>3. v \in Nat /\ file \in Nat /\ v \in Files
      BY <3>1, ReleaseAssumption, FilesAssumption
    <3>4. v \in DOMAIN Release[q]
      BY <3>1, <3>2 DEF OnlyAppended
    <3>5. v \notin left[q]
      BY <3>1, <3>2, <3>3
    <3>6. recorded[v] = Release[q][v] /\ Release[q][v] \in Contents
      BY <3>4, <3>5, ReleaseAssumption DEF DealtWith
    <3>7. PICK l \in DOMAIN applied : applied[l] = [file |-> v, content |-> Release[q][v]]
      BY <3>3, <3>6 DEF RecordsAreTheSchema
    <3>8. l \in 1..(k - 1) /\ applied'[l] = applied[l]
      BY <2>1, <2>2, <2>4, <3>7
    <3> QED BY <3>7, <3>8
  <2> QED BY <2>3, <2>4
<1> QED BY <1>1, <1>2, TableSteps

\* If releases only append files, a file takes effect after every file of any
\* release that comes before it.
THEOREM AppliedInFilenameOrderCorrect == Spec => []AppliedInFilenameOrder
<1> DEFINE Inv == Control /\ RecordsAreTheSchema /\ DealtWith /\ AppliedInFilenameOrder
<1>1. Init => Inv
  BY InitControl, InitRecordsAreTheSchema DEF Init, DealtWith, AppliedInFilenameOrder
<1>2. Inv /\ [Next]_vars => Inv'
  BY NextControl, NextRecordsAreTheSchema, NextDealtWith, NextAppliedInFilenameOrder
<1> QED BY <1>1, <1>2, PTL DEF Spec
=============================================================================
