-------------------------- MODULE AdminRegistryProofs --------------------------
(***************************************************************************)
(* Theorems about the admin API for any number of calls, tables, rows and  *)
(* faults.                                                                 *)
(***************************************************************************)
EXTENDS AdminRegistry, TLAPS

\* What an operation looks like, as facts for the provers.
LEMMA OpsFacts ==
    ASSUME NEW o \in Ops
    PROVE  /\ o \in Bodies
           /\ o.verb \in {"create", "update", "delete"}
           /\ o.table \in Tables
           /\ o.table # "rule" => o.table \in Kinds
           /\ o.verb # "create" => o.id \in Ids
           /\ o.verb = "create" => o.id = NotGiven
           /\ o.name \in Optional(Names) \cup {Null}
           /\ o.place \in Optional(Places) \cup {Null}
           /\ o.refs \in [Kinds -> Optional(Ids)]
           /\ Given(o) \subseteq Kinds
           /\ \A k \in Kinds : o.refs[k] = NotGiven \/ o.refs[k] \in Ids
           /\ o.verb = "create" /\ o.table = "rule" =>
                 /\ o.place \in Places
                 /\ \A k \in Kinds : o.refs[k] \in Ids
                 /\ Given(o) = Kinds
           /\ o.verb = "create" /\ o.table # "rule" => o.name \in Names
           /\ o.verb # "update" => ~HasNull(o)
  BY ValuesAssumption DEF Ops, Bodies, HasOnlyItsFields, IsComplete, Tables, Optional, Given, HasNull

-----------------------------------------------------------------------------
(***************************************************************************)
(* Types and references.                                                   *)
(***************************************************************************)

\* Only the writes change the tables.
DbStep(c) == \/ CreateRow(c) \/ UpdateRow(c) \/ DeleteRow(c)
             \/ CreateRule(c) \/ UpdateRule(c) \/ DeleteRule(c)

OtherStep(c) == Arrive(c) \/ Ensure(c) \/ EnsureRef(c) \/ CallFails(c)

LEMMA OthersKeepTables ==
    ASSUME NEW c, OtherStep(c)
    PROVE  UNCHANGED dbVars
  BY DEF OtherStep, Arrive, Ensure, EnsureRef, CallFails

\* An answer leaves the answers in their range.
LEMMA AnswerType ==
    ASSUME TypeOK, NEW c \in Calls, NEW s \in {200, 201, 204, 404, 409, 500}, Answer(c, s)
    PROVE  /\ pc' = [pc EXCEPT ![c] = "done"]
           /\ answer' \in [Calls -> {0, 200, 201, 204, 404, 409, 500}]
           /\ failed' \subseteq Calls
           /\ answer'[c] = s \/ (answer'[c] = 500 /\ c \in failed')
           /\ \A d \in Calls : d # c => answer'[d] = answer[d]
           /\ failed \subseteq failed'
  BY DEF TypeOK, Answer, Goto

LEMMA StatusTypes ==
    /\ \A e : uniqueOrThrow(e) \in {409, 500}
    /\ \A e : inUseOrThrow(e) \in {409, 500}
    /\ \A o : RemovedStatus(o) \in {204, 500}
    /\ \A i : LookUpStatus(i) \in {404, 500}
  BY DEF uniqueOrThrow, inUseOrThrow, RemovedStatus, LookUpStatus

LEMMA UpdatedType ==
    ASSUME TypeOK, NEW o \in Ops, o.verb = "update", o.table = "rule",
           ~HasNull(o), IsRule(o.id)
    PROVE  Updated(o) \in Rules
  <1>1. o.id \in Ids /\ rule[o.id] \in Rules
    BY OpsFacts DEF TypeOK, IsRule
  <1>2. o.place = NotGiven \/ o.place \in Places
    BY OpsFacts DEF Optional, HasNull
  <1>. QED
    BY <1>1, <1>2, OpsFacts DEF Updated, Rules

LEMMA FieldType ==
    ASSUME TypeOK, NEW k \in Kinds, NEW i \in Ids, NEW v \in Names \cup {Unused, Gone}
    PROVE  [row EXCEPT ![k][i] = v] \in [Kinds -> [Ids -> Names \cup {Unused, Gone}]]
  BY DEF TypeOK

\* What each write does to the tables.
LEMMA RowTables ==
    ASSUME TypeOK, NEW c \in Calls,
           CreateRow(c) \/ UpdateRow(c) \/ DeleteRow(c)
    PROVE  /\ row' \in [Kinds -> [Ids -> Names \cup {Unused, Gone}]]
           /\ UNCHANGED rule
  <1>1. op[c] \in Ops
    BY DEF TypeOK, CreateRow, UpdateRow, DeleteRow, Writes
  <1>2. CASE CreateRow(c)
    <2>1. op[c].table \in Kinds /\ op[c].name \in Names /\ UNCHANGED rule
      BY <1>1, <1>2, OpsFacts DEF CreateRow, Writes
    <2>2. CASE UNCHANGED row
      BY <2>1, <2>2 DEF TypeOK
    <2>3. CASE \E i \in Ids : row' = [row EXCEPT ![op[c].table][i] = op[c].name]
      <3>1. PICK i \in Ids : row' = [row EXCEPT ![op[c].table][i] = op[c].name]
        BY <2>3
      <3>. QED
        BY <2>1, <3>1, FieldType
    <2>. QED
      BY <1>2, <2>2, <2>3 DEF CreateRow
  <1>3. CASE UpdateRow(c)
    <2>1. op[c].name \in Optional(Names) \/ HasNull(op[c])
      BY <1>1, OpsFacts DEF HasNull
    <2>2. op[c].table \in Kinds /\ op[c].id \in Ids /\ UNCHANGED rule
      BY <1>1, <1>3, OpsFacts DEF UpdateRow, Writes
    <2>3. \/ UNCHANGED row
          \/ /\ ~HasNull(op[c])
             /\ row' = [row EXCEPT ![op[c].table][op[c].id] =
                           IF op[c].name = NotGiven THEN @ ELSE op[c].name]
      BY <1>3 DEF UpdateRow, UpdateRowError
    <2>. QED
      BY <2>1, <2>2, <2>3 DEF TypeOK, Optional
  <1>4. CASE DeleteRow(c)
    <2>1. op[c].table \in Kinds /\ op[c].id \in Ids /\ UNCHANGED rule
      BY <1>1, <1>4, OpsFacts DEF DeleteRow, Writes
    <2>2. UNCHANGED row \/ row' = [row EXCEPT ![op[c].table][op[c].id] = Gone]
      BY <1>4 DEF DeleteRow
    <2>3. UNCHANGED row => row' \in [Kinds -> [Ids -> Names \cup {Unused, Gone}]]
      BY DEF TypeOK
    <2>. QED
      BY <2>1, <2>2, <2>3, FieldType
  <1>. QED
    BY <1>2, <1>3, <1>4

LEMMA RuleTables ==
    ASSUME TypeOK, NEW c \in Calls,
           CreateRule(c) \/ UpdateRule(c) \/ DeleteRule(c)
    PROVE  /\ rule' \in [Ids -> Rules \cup {Unused, Gone}]
           /\ UNCHANGED row
  <1>1. op[c] \in Ops
    BY DEF TypeOK, CreateRule, UpdateRule, DeleteRule, Writes
  <1>2. CASE CreateRule(c)
    <2>1. Asked(op[c]) \in Rules
      BY <1>1, <1>2, OpsFacts DEF CreateRule, Writes, Rules, Asked
    <2>. QED
      BY <1>2, <2>1 DEF TypeOK, CreateRule
  <1>3. CASE UpdateRule(c)
    <2>1. UpdateRuleError(op[c]) = "none" => Updated(op[c]) \in Rules
      BY <1>1, <1>3, UpdatedType DEF UpdateRule, UpdateRuleError, Writes
    <2>. QED
      BY <1>3, <2>1 DEF TypeOK, UpdateRule
  <1>4. CASE DeleteRule(c)
    BY <1>1, <1>4, OpsFacts DEF TypeOK, DeleteRule, Writes
  <1>. QED
    BY <1>2, <1>3, <1>4

LEMMA TypeInit == Init => TypeOK
  BY DEF Init, TypeOK

LEMMA TypeNext == TypeOK /\ [Next]_vars => TypeOK'
  <1>. SUFFICES ASSUME TypeOK, [Next]_vars PROVE TypeOK'
    OBVIOUS
  <1>1. CASE UNCHANGED vars
    BY <1>1 DEF TypeOK, vars, dbVars, callVars
  <1>. SUFFICES ASSUME NEW c \in Calls, DbStep(c) \/ OtherStep(c) PROVE TypeOK'
    BY <1>1 DEF Next, DbStep, OtherStep
  <1>2. CASE Arrive(c)
    <2>1. PICK o \in Ops : op' = [op EXCEPT ![c] = o]
      BY <1>2 DEF Arrive
    <2>2. PICK step \in {"ensure", "ensureRefs", "write"} : Goto(c, step)
      BY <1>2 DEF Arrive
    <2>3. UNCHANGED toCheck \/ toCheck' = [toCheck EXCEPT ![c] = Kinds]
      BY <1>2 DEF Arrive
    <2>4. /\ pc' \in [Calls -> {"new", "ensure", "ensureRefs", "write", "done"}]
          /\ toCheck' \in [Calls -> SUBSET Kinds]
          /\ \A d \in Calls : d # c => pc'[d] = pc[d]
      BY <2>2, <2>3 DEF TypeOK, Goto
    <2>5. op' \in [Calls -> Ops \cup {NotGiven}]
      BY <2>1 DEF TypeOK
    <2>6. ASSUME NEW d \in Calls, pc'[d] # "new"
          PROVE  op'[d] \in Ops
      BY <2>1, <2>4, <2>6 DEF TypeOK
    <2>7. UNCHANGED <<row, rule, answer, deletedDuring, failed>>
      BY <1>2 DEF Arrive, dbVars
    <2>. QED
      BY <2>4, <2>5, <2>7, <2>6 DEF TypeOK
  <1>3. CASE Ensure(c)
    <2>1. op[c] \in Ops /\ Given(op[c]) \subseteq Kinds
      BY <1>3, OpsFacts DEF TypeOK, Ensure
    <2>2. CASE UNCHANGED toCheck /\ \E s \in {404, 500} : Answer(c, s)
      BY <1>3, <2>1, <2>2, AnswerType DEF TypeOK, Ensure, dbVars
    <2>3. CASE Exists(op[c].table, op[c].id)
      BY <1>3, <2>1, <2>3 DEF TypeOK, Ensure, Goto, dbVars
    <2>. QED
      BY <1>3, <2>2, <2>3, StatusTypes DEF Ensure
  <1>4. CASE EnsureRef(c)
    <2>1. op[c] \in Ops
      BY <1>4 DEF TypeOK, EnsureRef
    <2>2. CASE StopWaiting(c) /\ \E s \in {404, 500} : Answer(c, s)
      BY <1>4, <2>1, <2>2, AnswerType DEF TypeOK, EnsureRef, dbVars, StopWaiting
    <2>3. CASE \E k \in toCheck[c] :
                  /\ toCheck' = [toCheck EXCEPT ![c] = @ \ {k}]
                  /\ Goto(c, IF toCheck[c] = {k} THEN "write" ELSE "ensureRefs")
                  /\ UNCHANGED <<answer, failed>>
      BY <1>4, <2>1, <2>3 DEF TypeOK, EnsureRef, Goto, dbVars
    <2>. QED
      BY <1>4, <2>2, <2>3, StatusTypes DEF EnsureRef
  <1>5. CASE CallFails(c)
    BY <1>5 DEF TypeOK, CallFails, Goto, dbVars, StopWaiting
  <1>6. CASE DbStep(c)
    <2>1. op[c] \in Ops /\ pc[c] = "write"
      BY <1>6 DEF TypeOK, DbStep, CreateRow, UpdateRow, DeleteRow, CreateRule,
                  UpdateRule, DeleteRule, Writes
    <2>2. UNCHANGED <<op, toCheck>>
      BY <1>6 DEF DbStep, CreateRow, UpdateRow, DeleteRow, CreateRule, UpdateRule, DeleteRule
    <2>3. PICK s \in {200, 201, 204, 404, 409, 500} : Answer(c, s)
      BY <1>6, StatusTypes DEF DbStep, CreateRow, UpdateRow, DeleteRow, CreateRule,
                               UpdateRule, DeleteRule
    <2>4. /\ row' \in [Kinds -> [Ids -> Names \cup {Unused, Gone}]]
          /\ rule' \in [Ids -> Rules \cup {Unused, Gone}]
      BY <1>6, RowTables, RuleTables DEF DbStep, TypeOK
    <2>5. deletedDuring' \in [Calls -> SUBSET (Tables \X Ids)]
      <3>1. CASE UNCHANGED deletedDuring
        BY <3>1 DEF TypeOK
      <3>2. CASE NoteDeletion(c) /\ op[c].verb = "delete"
        BY <2>1, <3>2, OpsFacts DEF TypeOK, NoteDeletion
      <3>. QED
        BY <1>6, <3>1, <3>2 DEF DbStep, CreateRow, UpdateRow, DeleteRow, CreateRule,
                                UpdateRule, DeleteRule, Writes
    <2>. QED
      BY <2>1, <2>2, <2>3, <2>4, <2>5, AnswerType DEF TypeOK
  <1>. QED
    BY <1>2, <1>3, <1>4, <1>5, <1>6 DEF OtherStep

\* The tables, the calls in progress and their answers stay in their ranges.
THEOREM RegistryTypeCorrect == Spec => []TypeOK
  BY TypeInit, TypeNext, PTL DEF Spec

-----------------------------------------------------------------------------
(***************************************************************************)
(* References.  The lookups alone would not do: another call may delete    *)
(* what they found.  It is the foreign keys that keep the invariant.       *)
(***************************************************************************)

LEMMA ReferencesNext ==
    TypeOK /\ ReferencesResolve /\ [Next]_vars => ReferencesResolve'
  <1>. SUFFICES ASSUME TypeOK, ReferencesResolve, [Next]_vars,
                       NEW r \in Ids, IsRule(r)', NEW k \in Kinds
                PROVE  IsRow(k, rule[r].refs[k])'
    BY DEF ReferencesResolve
  <1>1. CASE UNCHANGED dbVars
    BY <1>1 DEF ReferencesResolve, IsRule, IsRow, dbVars
  <1>2. CASE \E c \in Calls : CreateRow(c) \/ UpdateRow(c) \/ DeleteRow(c)
    <2>1. PICK c \in Calls : CreateRow(c) \/ UpdateRow(c) \/ DeleteRow(c)
      BY <1>2
    <2>2. /\ rule' = rule /\ IsRule(r) /\ IsRow(k, rule[r].refs[k])
          /\ rule[r].refs[k] \in Ids
      BY <2>1, RowTables DEF TypeOK, IsRule, ReferencesResolve, Rules
    <2>3. op[c] \in Ops
      BY <2>1 DEF TypeOK, CreateRow, UpdateRow, DeleteRow, Writes
    <2>4. CASE CreateRow(c)
      <3>1. op[c].table \in Kinds /\ op[c].name \in Names
        BY <2>3, <2>4, OpsFacts DEF CreateRow, Writes
      <3>2. CASE UNCHANGED row
        BY <2>2, <3>2 DEF IsRow
      <3>3. CASE \E i \in Ids : row' = [row EXCEPT ![op[c].table][i] = op[c].name]
        BY <2>2, <3>1, <3>3 DEF TypeOK, IsRow
      <3>. QED
        BY <2>4, <3>2, <3>3 DEF CreateRow
    <2>5. CASE UpdateRow(c)
      <3>1. op[c].table \in Kinds /\ op[c].id \in Ids
        BY <2>3, <2>5, OpsFacts DEF UpdateRow, Writes
      <3>2. \/ UNCHANGED row
            \/ /\ op[c].name = NotGiven \/ op[c].name \in Names
               /\ row' = [row EXCEPT ![op[c].table][op[c].id] =
                             IF op[c].name = NotGiven THEN @ ELSE op[c].name]
        BY <2>3, <2>5, OpsFacts DEF UpdateRow, UpdateRowError, HasNull, Optional
      <3>. QED
        BY <2>2, <3>1, <3>2 DEF TypeOK, IsRow
    <2>6. CASE DeleteRow(c)
      <3>1. op[c].table \in Kinds /\ op[c].id \in Ids
        BY <2>3, <2>6, OpsFacts DEF DeleteRow, Writes
      <3>2. \/ UNCHANGED row
            \/ /\ ~InUse(op[c].table, op[c].id)
               /\ row' = [row EXCEPT ![op[c].table][op[c].id] = Gone]
        BY <2>6 DEF DeleteRow
      <3>3. InUse(k, rule[r].refs[k])
        BY <2>2 DEF InUse, RefersTo, IsRule
      <3>4. CASE row' = [row EXCEPT ![op[c].table][op[c].id] = Gone]
                 /\ ~InUse(op[c].table, op[c].id)
        <4>1. ~(op[c].table = k /\ op[c].id = rule[r].refs[k])
          BY <3>3, <3>4
        <4>2. row'[k][rule[r].refs[k]] = row[k][rule[r].refs[k]]
          BY <2>2, <3>1, <3>4, <4>1 DEF TypeOK
        <4>. QED
          BY <2>2, <4>2 DEF IsRow
      <3>. QED
        BY <2>2, <3>2, <3>4 DEF IsRow
    <2>. QED
      BY <2>1, <2>4, <2>5, <2>6
  <1>3. CASE \E c \in Calls : CreateRule(c) \/ UpdateRule(c) \/ DeleteRule(c)
    <2>1. PICK c \in Calls : CreateRule(c) \/ UpdateRule(c) \/ DeleteRule(c)
      BY <1>3
    <2>2. UNCHANGED row
      BY <2>1, RuleTables
    <2>3. \/ rule'[r] = rule[r]
          \/ rule'[r] = Gone
          \/ \E new \in Rules : ~Unresolved(new) /\ rule'[r] = new
      <3>1. op[c] \in Ops
        BY <2>1 DEF TypeOK, CreateRule, UpdateRule, DeleteRule, Writes
      <3>2. CASE CreateRule(c)
        <4>1. Asked(op[c]) \in Rules
          BY <3>1, <3>2, OpsFacts DEF CreateRule, Writes, Rules, Asked
        <4>2. CreateRuleError(op[c]) = "none" => ~Unresolved(Asked(op[c]))
          BY DEF CreateRuleError
        <4>. QED
          BY <3>2, <4>1, <4>2 DEF TypeOK, CreateRule
      <3>3. CASE UpdateRule(c)
        <4>1. UpdateRuleError(op[c]) = "none" =>
                 Updated(op[c]) \in Rules /\ ~Unresolved(Updated(op[c]))
          BY <3>1, <3>3, UpdatedType DEF UpdateRule, UpdateRuleError, Writes
        <4>. QED
          BY <3>3, <4>1 DEF TypeOK, UpdateRule
      <3>4. CASE DeleteRule(c)
        BY <3>1, <3>4, OpsFacts DEF TypeOK, DeleteRule, Writes
      <3>. QED
        BY <2>1, <3>2, <3>3, <3>4
    <2>. QED
      BY <2>2, <2>3 DEF ReferencesResolve, IsRule, IsRow, Unresolved
  <1>. QED
    BY <1>1, <1>2, <1>3, OthersKeepTables DEF Next, OtherStep, vars

\* No rule refers to a client, bot or type that does not exist, although it is
\* looked up and written in different queries.
THEOREM RulesAreResolved == Spec => []ReferencesResolve
  <1>1. Init => ReferencesResolve
    BY DEF Init
  <1>. QED
    BY <1>1, TypeInit, TypeNext, ReferencesNext, PTL DEF Spec

-----------------------------------------------------------------------------
(***************************************************************************)
(* Deletions.  A row that has gone never returns, and a call that finds    *)
(* no row to delete is not answered 204.                                   *)
(***************************************************************************)
IsGone(t, i) == IF t = "rule" THEN rule[i] = Gone ELSE row[t][i] = Gone

Named(c) == op[c].table \in Tables /\ op[c].id \in Ids

\* What a write leaves of a row.
LEMMA RowsInStep ==
    ASSUME TypeOK, NEW c \in Calls, DbStep(c), NEW t \in Tables, NEW i \in Ids
    PROVE  /\ IsGone(t, i) => IsGone(t, i)'
           /\ Exists(t, i) => \/ Exists(t, i)'
                              \/ /\ op[c].table = t /\ op[c].id = i
                                 /\ op[c].verb = "delete"
                                 /\ NoteDeletion(c)
  <1>1. op[c] \in Ops
    BY DEF TypeOK, DbStep, CreateRow, UpdateRow, DeleteRow, CreateRule, UpdateRule,
           DeleteRule, Writes
  <1>. Gone \notin Names /\ Unused \notin Names /\ Unused # Gone /\ "rule" \notin Kinds
    BY ValuesAssumption
  <1>2. CASE CreateRow(c)
    <2>1. op[c].table \in Kinds /\ op[c].name \in Names /\ UNCHANGED rule
      BY <1>1, <1>2, OpsFacts DEF CreateRow, Writes
    <2>2. CASE UNCHANGED row
      BY <2>1, <2>2 DEF IsGone, Exists, IsRow, IsRule
    <2>3. CASE \E j \in Ids : /\ row[op[c].table][j] = Unused
                              /\ row' = [row EXCEPT ![op[c].table][j] = op[c].name]
      BY <2>1, <2>3 DEF TypeOK, Tables, IsGone, Exists, IsRow, IsRule
    <2>. QED
      BY <1>2, <2>2, <2>3 DEF CreateRow
  <1>3. CASE UpdateRow(c)
    <2>1. op[c].table \in Kinds /\ op[c].id \in Ids /\ UNCHANGED rule
      BY <1>1, <1>3, OpsFacts DEF UpdateRow, Writes
    <2>2. CASE UNCHANGED row
      BY <2>1, <2>2 DEF IsGone, Exists, IsRow, IsRule
    <2>3. CASE /\ IsRow(op[c].table, op[c].id)
               /\ op[c].name = NotGiven \/ op[c].name \in Names
               /\ row' = [row EXCEPT ![op[c].table][op[c].id] =
                             IF op[c].name = NotGiven THEN @ ELSE op[c].name]
      BY <2>1, <2>3 DEF TypeOK, Tables, IsGone, Exists, IsRow, IsRule
    <2>. QED
      BY <1>1, <1>3, <2>2, <2>3, OpsFacts DEF UpdateRow, UpdateRowError, HasNull, Optional
  <1>4. CASE DeleteRow(c)
    <2>1. /\ op[c].table \in Kinds /\ op[c].id \in Ids /\ op[c].verb = "delete"
          /\ UNCHANGED rule
      BY <1>1, <1>4, OpsFacts DEF DeleteRow, Writes
    <2>2. CASE UNCHANGED row
      BY <2>1, <2>2 DEF IsGone, Exists, IsRow, IsRule
    <2>3. CASE NoteDeletion(c) /\ row' = [row EXCEPT ![op[c].table][op[c].id] = Gone]
      BY <2>1, <2>3 DEF TypeOK, Tables, IsGone, Exists, IsRow, IsRule
    <2>. QED
      BY <1>4, <2>2, <2>3 DEF DeleteRow
  <1>5. CASE CreateRule(c)
    <2>1. UNCHANGED row
      BY <1>5 DEF CreateRule
    <2>2. CASE UNCHANGED rule
      BY <2>1, <2>2 DEF IsGone, Exists, IsRow, IsRule
    <2>3. CASE \E j \in Ids, new \in Rules :
                  rule[j] = Unused /\ rule' = [rule EXCEPT ![j] = new]
      BY <2>1, <2>3 DEF TypeOK, Tables, IsGone, Exists, IsRow, IsRule
    <2>4. Asked(op[c]) \in Rules
      BY <1>1, <1>5, OpsFacts DEF CreateRule, Writes, Rules, Asked
    <2>. QED
      BY <1>5, <2>2, <2>3, <2>4 DEF CreateRule
  <1>6. CASE UpdateRule(c)
    <2>1. UNCHANGED row /\ op[c].id \in Ids
      BY <1>1, <1>6, OpsFacts DEF UpdateRule, Writes
    <2>2. CASE UNCHANGED rule
      BY <2>1, <2>2 DEF IsGone, Exists, IsRow, IsRule
    <2>3. CASE \E new \in Rules :
                  IsRule(op[c].id) /\ rule' = [rule EXCEPT ![op[c].id] = new]
      BY <2>1, <2>3, RulesAssumption DEF TypeOK, Tables, IsGone, Exists, IsRow, IsRule
    <2>4. UpdateRuleError(op[c]) = "none" =>
             IsRule(op[c].id) /\ Updated(op[c]) \in Rules
      BY <1>1, <1>6, UpdatedType DEF UpdateRule, UpdateRuleError, Writes
    <2>. QED
      BY <1>6, <2>2, <2>3, <2>4 DEF UpdateRule
  <1>7. CASE DeleteRule(c)
    BY <1>1, <1>7, OpsFacts DEF DeleteRule, Writes, TypeOK, Tables, IsGone, Exists,
                                IsRow, IsRule
  <1>. QED
    BY <1>2, <1>3, <1>4, <1>5, <1>6, <1>7 DEF DbStep

\* An answer 204 is about a row that has gone.
DeletedIsGone ==
    \A c \in Calls : answer[c] = 204 => Named(c) /\ IsGone(op[c].table, op[c].id)

\* Answers end a call.
AnswersAreLast == \A c \in Calls : answer[c] # 0 => pc[c] = "done"

DeletionInv == TypeOK /\ AnswersAreLast /\ DeletedIsGone /\ DeletedOnce

LEMMA DeletionInit == Init => DeletionInv
  BY TypeInit DEF Init, DeletionInv, AnswersAreLast, DeletedIsGone, DeletedOnce

\* A step changes the program counter, the request and the answer of its own
\* call alone.
LEMMA StepShape ==
    ASSUME TypeOK, NEW c \in Calls, DbStep(c) \/ OtherStep(c)
    PROVE  \E step, o, t, a :
              /\ pc' = [pc EXCEPT ![c] = step] /\ pc[c] # "done"
              /\ op' = [op EXCEPT ![c] = o] /\ (pc[c] = "new" \/ o = op[c])
              /\ toCheck' = [toCheck EXCEPT ![c] = t]
              /\ answer' = [answer EXCEPT ![c] = a] /\ (a = answer[c] \/ step = "done")
              /\ failed \subseteq failed'
  <1>. DEFINE Shape(step, o, t, a) ==
              /\ pc' = [pc EXCEPT ![c] = step] /\ pc[c] # "done"
              /\ op' = [op EXCEPT ![c] = o] /\ (pc[c] = "new" \/ o = op[c])
              /\ toCheck' = [toCheck EXCEPT ![c] = t]
              /\ answer' = [answer EXCEPT ![c] = a] /\ (a = answer[c] \/ step = "done")
              /\ failed \subseteq failed'
  <1>1. /\ pc = [pc EXCEPT ![c] = pc[c]] /\ op = [op EXCEPT ![c] = op[c]]
        /\ toCheck = [toCheck EXCEPT ![c] = toCheck[c]]
        /\ answer = [answer EXCEPT ![c] = answer[c]]
    BY DEF TypeOK
  <1>2. ASSUME NEW s, Answer(c, s), pc[c] # "done", UNCHANGED <<op, toCheck>>
        PROVE  \E a : Shape("done", op[c], toCheck[c], a)
    BY <1>1, <1>2 DEF Answer, Goto
  <1>3. CASE DbStep(c)
    <2>1. (\E s : Answer(c, s)) /\ pc[c] # "done" /\ UNCHANGED <<op, toCheck>>
      BY <1>3 DEF DbStep, CreateRow, UpdateRow, DeleteRow, CreateRule, UpdateRule,
                  DeleteRule, Writes
    <2>. QED
      BY <1>2, <2>1
  <1>4. CASE Arrive(c)
    <2>1. PICK o \in Ops : op' = [op EXCEPT ![c] = o]
      BY <1>4 DEF Arrive
    <2>2. PICK step : pc' = [pc EXCEPT ![c] = step]
      BY <1>4 DEF Arrive, Goto
    <2>3. PICK t : toCheck' = [toCheck EXCEPT ![c] = t]
      BY <1>1, <1>4 DEF Arrive
    <2>. QED
      BY <1>1, <1>4, <2>1, <2>2, <2>3 DEF Arrive
  <1>5. CASE Ensure(c)
    <2>1. CASE UNCHANGED toCheck /\ \E s : Answer(c, s)
      BY <1>2, <1>5, <2>1 DEF Ensure
    <2>2. CASE Exists(op[c].table, op[c].id)
      BY <1>1, <1>5, <2>2 DEF Ensure, Goto
    <2>. QED
      BY <1>5, <2>1, <2>2 DEF Ensure
  <1>6. CASE EnsureRef(c)
    <2>1. CASE StopWaiting(c) /\ \E s : Answer(c, s)
      <3>1. pc[c] = "ensureRefs" /\ UNCHANGED op
        BY <1>6 DEF EnsureRef
      <3>2. PICK a : answer' = [answer EXCEPT ![c] = a]
        BY <2>1 DEF Answer
      <3>3. pc' = [pc EXCEPT ![c] = "done"] /\ failed \subseteq failed'
        BY <2>1 DEF Answer, Goto
      <3>. QED
        BY <1>1, <2>1, <3>1, <3>2, <3>3 DEF StopWaiting
    <2>2. CASE \E k \in toCheck[c] : \E step :
                  /\ toCheck' = [toCheck EXCEPT ![c] = @ \ {k}]
                  /\ pc' = [pc EXCEPT ![c] = step]
                  /\ UNCHANGED <<answer, failed>>
      <3>1. PICK k \in toCheck[c] : \E step :
                  /\ toCheck' = [toCheck EXCEPT ![c] = @ \ {k}]
                  /\ pc' = [pc EXCEPT ![c] = step]
                  /\ UNCHANGED <<answer, failed>>
        BY <2>2
      <3>2. PICK step : /\ toCheck' = [toCheck EXCEPT ![c] = @ \ {k}]
                        /\ pc' = [pc EXCEPT ![c] = step]
                        /\ UNCHANGED <<answer, failed>>
        BY <3>1
      <3>3. pc[c] = "ensureRefs" /\ UNCHANGED op
        BY <1>6 DEF EnsureRef
      <3>. QED
        BY <1>1, <3>2, <3>3
    <2>. QED
      BY <1>6, <2>1, <2>2 DEF EnsureRef, Goto
  <1>7. CASE CallFails(c)
    BY <1>1, <1>7 DEF CallFails, Goto, StopWaiting
  <1>. QED
    BY <1>3, <1>4, <1>5, <1>6, <1>7 DEF OtherStep

LEMMA StepsOfOneCall ==
    ASSUME TypeOK, NEW c \in Calls, DbStep(c) \/ OtherStep(c)
    PROVE  /\ pc[c] # "done"
           /\ op'[c] = op[c] \/ pc[c] = "new"
           /\ answer'[c] = answer[c] \/ pc'[c] = "done"
           /\ failed \subseteq failed'
           /\ \A d \in Calls : d # c =>
                 /\ pc'[d] = pc[d] /\ op'[d] = op[d]
                 /\ toCheck'[d] = toCheck[d] /\ answer'[d] = answer[d]
  BY StepShape DEF TypeOK

\* Only a deletion that finds its row is answered 204, and it leaves it gone.
LEMMA DeletionAnswer ==
    ASSUME TypeOK, NEW c \in Calls, DbStep(c) \/ OtherStep(c),
           answer'[c] = 204, answer[c] # 204
    PROVE  /\ Named(c) /\ op' = op
           /\ ~IsGone(op[c].table, op[c].id)
           /\ IsGone(op[c].table, op[c].id)'
  <1>1. ~Answer(c, 404) /\ ~Answer(c, 409) /\ ~Answer(c, 500) /\ ~Answer(c, 200) /\ ~Answer(c, 201)
    BY DEF TypeOK, Answer
  <1>2. /\ \A e : ~Answer(c, uniqueOrThrow(e))
        /\ \A i : ~Answer(c, LookUpStatus(i))
    BY <1>1 DEF uniqueOrThrow, LookUpStatus
  <1>3. answer' # answer /\ answer' # [answer EXCEPT ![c] = 500]
    BY DEF TypeOK
  <1>4. ~OtherStep(c)
    <2>1. ~Arrive(c)
      BY <1>3, Zenon DEF Arrive
    <2>2. ~Ensure(c) /\ ~EnsureRef(c)
      BY <1>2, <1>3 DEF Ensure, EnsureRef
    <2>3. ~CallFails(c)
      BY <1>3 DEF CallFails
    <2>. QED
      BY <2>1, <2>2, <2>3 DEF OtherStep
  <1>5. ~CreateRow(c) /\ ~UpdateRow(c) /\ ~CreateRule(c) /\ ~UpdateRule(c)
    BY <1>1, <1>2 DEF CreateRow, UpdateRow, CreateRule, UpdateRule
  <1>6. op[c] \in Ops /\ (DeleteRow(c) \/ DeleteRule(c))
    BY <1>4, <1>5 DEF TypeOK, DbStep, DeleteRow, DeleteRule, Writes
  <1>. Gone \notin Names /\ "rule" \notin Kinds
    BY ValuesAssumption
  <1>7. CASE DeleteRow(c)
    <2>1. op[c].table \in Kinds /\ op[c].id \in Ids
      BY <1>6, <1>7, OpsFacts DEF DeleteRow, Writes
    <2>2. IsRow(op[c].table, op[c].id)
          /\ row' = [row EXCEPT ![op[c].table][op[c].id] = Gone] /\ op' = op
      BY <1>1, <1>7, StatusTypes DEF DeleteRow
    <2>. QED
      BY <2>1, <2>2 DEF TypeOK, Named, Tables, IsGone, IsRow
  <1>8. CASE DeleteRule(c)
    <2>1. op[c].id \in Ids /\ op[c].table = "rule" /\ op' = op
      BY <1>6, <1>8, OpsFacts DEF DeleteRule, Writes
    <2>2. IsRule(op[c].id) /\ rule' = [rule EXCEPT ![op[c].id] = Gone]
      BY <1>1, <1>8 DEF DeleteRule, RemovedStatus
    <2>. QED
      BY <2>1, <2>2 DEF TypeOK, Named, Tables, IsGone, IsRule
  <1>. QED
    BY <1>6, <1>7, <1>8

LEMMA DeletionNext == DeletionInv /\ [Next]_vars => DeletionInv'
  <1>. SUFFICES ASSUME DeletionInv, [Next]_vars PROVE DeletionInv'
    OBVIOUS
  <1>. USE DEF DeletionInv
  <1>1. CASE UNCHANGED vars
    BY <1>1, TypeNext DEF vars, dbVars, callVars, AnswersAreLast, DeletedIsGone,
                DeletedOnce, IsGone, Named
  <1>. SUFFICES ASSUME NEW c \in Calls, DbStep(c) \/ OtherStep(c) PROVE DeletionInv'
    BY <1>1 DEF Next, DbStep, OtherStep
  <1>2. TypeOK'
    BY TypeNext
  <1>3. AnswersAreLast'
    BY StepsOfOneCall DEF AnswersAreLast
  <1>4. ASSUME NEW t \in Tables, NEW i \in Ids, IsGone(t, i)
        PROVE  IsGone(t, i)'
    BY <1>4, RowsInStep, OthersKeepTables DEF IsGone, dbVars
  <1>5. ASSUME NEW d \in Calls, answer'[d] = 204, answer[d] = 204
        PROVE  /\ op'[d] = op[d] /\ Named(d) /\ IsGone(op[d].table, op[d].id)
               /\ IsGone(op[d].table, op[d].id)'
    <2>1. op'[d] = op[d]
      BY <1>5, StepsOfOneCall DEF AnswersAreLast
    <2>. QED
      BY <1>4, <1>5, <2>1 DEF DeletedIsGone, Named
  <1>6. ASSUME NEW d \in Calls, answer'[d] = 204, answer[d] # 204
        PROVE  d = c
    BY <1>6, StepsOfOneCall
  <1>7. DeletedIsGone'
    BY <1>5, <1>6, DeletionAnswer DEF DeletedIsGone, Named, IsGone
  <1>8. DeletedOnce'
    <2>. SUFFICES ASSUME NEW d \in Calls, NEW e \in Calls,
                         answer'[d] = 204, answer'[e] = 204,
                         op'[d].table = op'[e].table, op'[d].id = op'[e].id
                  PROVE  d = e
      BY DEF DeletedOnce
    <2>1. CASE answer[d] = 204 /\ answer[e] = 204
      BY <1>5, <2>1 DEF DeletedOnce
    <2>2. CASE answer[d] = 204 /\ answer[e] # 204
      BY <1>5, <1>6, <2>2, DeletionAnswer
    <2>3. CASE answer[d] # 204 /\ answer[e] = 204
      BY <1>5, <1>6, <2>3, DeletionAnswer
    <2>4. CASE answer[d] # 204 /\ answer[e] # 204
      BY <1>6, <2>4
    <2>. QED
      BY <2>1, <2>2, <2>3, <2>4
  <1>. QED
    BY <1>2, <1>3, <1>7, <1>8

\* Two calls are never both told that they deleted the same row.
THEOREM DeletionsAreUnique == Spec => []DeletedOnce
  <1>1. DeletionInv => DeletedOnce
    BY DEF DeletionInv
  <1>. QED
    BY <1>1, DeletionInit, DeletionNext, PTL DEF Spec

-----------------------------------------------------------------------------
(***************************************************************************)
(* Errors.  What a call has looked up is there until another call deletes  *)
(* it, and then the deletion has been noted.                               *)
(***************************************************************************)
Found(c, t, i) == Exists(t, i) \/ <<t, i>> \in deletedDuring[c]

LookedUp ==
    \A c \in Calls :
        /\ pc[c] \in {"ensureRefs", "write"} /\ op[c].verb # "create" =>
              Found(c, op[c].table, op[c].id)
        /\ pc[c] = "ensureRefs" =>
              \A k \in Given(op[c]) \ toCheck[c] : Found(c, k, op[c].refs[k])
        /\ pc[c] = "write" =>
              \A k \in Given(op[c]) : Found(c, k, op[c].refs[k])

CauseInv == TypeOK /\ AnswersAreLast /\ ReferencesResolve /\ LookedUp /\ ServerErrorHasACause

LEMMA CauseInit == Init => CauseInv
  BY TypeInit DEF Init, CauseInv, AnswersAreLast, LookedUp, ServerErrorHasACause

\* What a write does to the notes of deletions.
LEMMA NotesInStep ==
    ASSUME TypeOK, NEW c \in Calls, DbStep(c) \/ OtherStep(c)
    PROVE  /\ NoteDeletion(c) \/ UNCHANGED deletedDuring
           /\ deletedDuring'[c] = deletedDuring[c]
           /\ \A d \in Calls : pc[d] \in {"new", "done"} => deletedDuring'[d] = deletedDuring[d]
           /\ \A d \in Calls : deletedDuring[d] \subseteq deletedDuring'[d]
  <1>1. NoteDeletion(c) \/ UNCHANGED deletedDuring
    BY DEF DbStep, OtherStep, Arrive, Ensure, EnsureRef, CallFails,
           CreateRow, UpdateRow, CreateRule, UpdateRule, DeleteRow, DeleteRule
  <1>2. CASE NoteDeletion(c)
    BY <1>2 DEF NoteDeletion, TypeOK
  <1>3. CASE UNCHANGED deletedDuring
    BY <1>3
  <1>. QED
    BY <1>1, <1>2, <1>3

LEMMA FoundStays ==
    ASSUME TypeOK, NEW c \in Calls, DbStep(c) \/ OtherStep(c),
           NEW d \in Calls, d # c, pc[d] \notin {"new", "done"},
           NEW t \in Tables, NEW i \in Ids, Found(d, t, i)
    PROVE  Found(d, t, i)'
  <1>1. CASE <<t, i>> \in deletedDuring[d]
    BY <1>1, NotesInStep DEF Found
  <1>2. CASE Exists(t, i) /\ DbStep(c)
    <2>1. Exists(t, i)' \/ (op[c].table = t /\ op[c].id = i /\ NoteDeletion(c))
      BY <1>2, RowsInStep
    <2>. QED
      BY <2>1 DEF NoteDeletion, Found
  <1>3. CASE Exists(t, i) /\ OtherStep(c)
    BY <1>3, OthersKeepTables DEF Found, Exists, IsRow, IsRule, dbVars
  <1>. QED
    BY <1>1, <1>2, <1>3 DEF Found

\* The lookups of a call make what it finds known to it.
LEMMA LookedUpByOne ==
    ASSUME TypeOK, LookedUp, NEW c \in Calls, DbStep(c) \/ OtherStep(c)
    PROVE  /\ pc'[c] \in {"ensureRefs", "write"} /\ op'[c].verb # "create" =>
                 Found(c, op[c].table, op[c].id)'
           /\ pc'[c] = "ensureRefs" =>
                 \A k \in Given(op'[c]) \ toCheck'[c] : Found(c, k, op[c].refs[k])'
           /\ pc'[c] = "write" =>
                 \A k \in Given(op'[c]) : Found(c, k, op[c].refs[k])'
  <1>1. CASE pc'[c] = "done"
    BY <1>1
  <1>. SUFFICES ASSUME pc'[c] # "done"
                PROVE  /\ pc'[c] \in {"ensureRefs", "write"} /\ op'[c].verb # "create" =>
                             Found(c, op[c].table, op[c].id)'
                       /\ pc'[c] = "ensureRefs" =>
                             \A k \in Given(op'[c]) \ toCheck'[c] : Found(c, k, op[c].refs[k])'
                       /\ pc'[c] = "write" =>
                             \A k \in Given(op'[c]) : Found(c, k, op[c].refs[k])'
    BY <1>1
  <1>2. \A s : ~Answer(c, s)
    BY DEF Answer, Goto, TypeOK
  <1>3. ~DbStep(c) /\ ~CallFails(c)
    BY <1>2 DEF DbStep, CreateRow, UpdateRow, CreateRule, UpdateRule, DeleteRow,
                DeleteRule, CallFails, Goto, TypeOK
  <1>4. UNCHANGED <<row, rule, deletedDuring>>
    BY <1>3 DEF OtherStep, Arrive, Ensure, EnsureRef, dbVars
  <1>5. ASSUME NEW t, NEW i, Found(c, t, i)
        PROVE  Exists(t, i)' \/ <<t, i>> \in deletedDuring'[c]
    BY <1>4, <1>5 DEF Found, Exists, IsRow, IsRule
  <1>6. CASE Arrive(c)
    <2>1. PICK o \in Ops :
             /\ op' = [op EXCEPT ![c] = o]
             /\ o.verb # "create" => Goto(c, "ensure")
             /\ o.verb = "create" /\ o.table # "rule" => Goto(c, "write")
             /\ o.verb = "create" /\ o.table = "rule" =>
                   Goto(c, "ensureRefs") /\ toCheck' = [toCheck EXCEPT ![c] = Kinds]
      BY <1>6, Zenon DEF Arrive
    <2>2. /\ op'[c] = o
          /\ o.verb # "create" => pc'[c] = "ensure"
          /\ o.verb = "create" /\ o.table # "rule" => pc'[c] = "write"
          /\ o.verb = "create" /\ o.table = "rule" =>
                pc'[c] = "ensureRefs" /\ toCheck'[c] = Kinds
      BY <2>1 DEF Goto, TypeOK
    <2>3. o.table # "rule" /\ o.verb = "create" => Given(o) = {}
      BY DEF Ops, HasOnlyItsFields, Given
    <2>4. Given(o) \subseteq Kinds
      BY OpsFacts
    <2>. QED
      BY <2>2, <2>3, <2>4
  <1>7. CASE Ensure(c)
    <2>1. /\ Exists(op[c].table, op[c].id) /\ op' = op
          /\ pc'[c] = IF Given(op[c]) = {} THEN "write" ELSE "ensureRefs"
          /\ toCheck'[c] = Given(op[c])
      BY <1>2, <1>7 DEF Ensure, Goto, TypeOK
    <2>. QED
      BY <1>5, <2>1 DEF Found
  <1>8. CASE EnsureRef(c)
    <2>1. PICK k \in toCheck[c] :
             /\ IsRow(k, op[c].refs[k]) /\ op' = op /\ pc[c] = "ensureRefs"
             /\ toCheck' = [toCheck EXCEPT ![c] = @ \ {k}]
             /\ pc'[c] = IF toCheck[c] = {k} THEN "write" ELSE "ensureRefs"
      BY <1>2, <1>8 DEF EnsureRef, Goto, TypeOK
    <2>2. k \in Kinds /\ k # "rule" /\ toCheck'[c] = toCheck[c] \ {k}
      BY <2>1, ValuesAssumption DEF TypeOK
    <2>3. Found(c, k, op[c].refs[k])
      BY <2>1, <2>2 DEF Found, Exists
    <2>. QED
      BY <1>5, <2>1, <2>2, <2>3 DEF LookedUp, Found
  <1>. QED
    BY <1>3, <1>6, <1>7, <1>8 DEF OtherStep

LEMMA LookedUpNext ==
    ASSUME TypeOK, LookedUp, NEW c \in Calls, DbStep(c) \/ OtherStep(c)
    PROVE  LookedUp'
  <1>. SUFFICES ASSUME NEW d \in Calls
                PROVE  /\ pc'[d] \in {"ensureRefs", "write"} /\ op'[d].verb # "create" =>
                             Found(d, op[d].table, op[d].id)'
                       /\ pc'[d] = "ensureRefs" =>
                             \A k \in Given(op'[d]) \ toCheck'[d] : Found(d, k, op[d].refs[k])'
                       /\ pc'[d] = "write" =>
                             \A k \in Given(op'[d]) : Found(d, k, op[d].refs[k])'
    BY DEF LookedUp, Given
  <1>1. CASE d = c
    BY <1>1, LookedUpByOne
  <1>2. CASE d # c
    <2>1. /\ pc'[d] = pc[d] /\ op'[d] = op[d] /\ toCheck'[d] = toCheck[d]
      BY <1>2, StepsOfOneCall
    <2>2. CASE pc[d] \in {"ensureRefs", "write"}
      <3>1. op[d] \in Ops
        BY <2>2 DEF TypeOK
      <3>2. \A k \in Given(op[d]) : k \in Tables /\ op[d].refs[k] \in Ids
        BY <3>1, OpsFacts DEF Given, Tables
      <3>3. op[d].verb # "create" => op[d].table \in Tables /\ op[d].id \in Ids
        BY <3>1, OpsFacts
      <3>4. ASSUME NEW t \in Tables, NEW i \in Ids, Found(d, t, i)
            PROVE  Found(d, t, i)'
        BY <1>2, <2>2, <3>4, FoundStays
      <3>5. op[d].verb # "create" => Found(d, op[d].table, op[d].id)'
        BY <2>1, <2>2, <3>3, <3>4 DEF LookedUp, Found, Exists, IsRow, IsRule
      <3>6. \A k \in Given(op[d]) : Found(d, k, op[d].refs[k]) => Found(d, k, op[d].refs[k])'
        BY <2>1, <3>2, <3>4 DEF Found, Exists, IsRow, IsRule
      <3>. QED
        BY <2>1, <2>2, <3>5, <3>6 DEF LookedUp
    <2>. QED
      BY <2>1, <2>2
  <1>. QED
    BY <1>1, <1>2

\* A call that writes and does not find a row it needs knows of the deletion.
LEMMA MissingWasDeleted ==
    ASSUME TypeOK, LookedUp, NEW c \in Calls, pc[c] = "write"
    PROVE  /\ op[c].verb # "create" /\ ~Exists(op[c].table, op[c].id) =>
                 Needs(op[c]) \cap deletedDuring[c] # {}
           /\ \A k \in Given(op[c]) : ~IsRow(k, op[c].refs[k]) =>
                 Needs(op[c]) \cap deletedDuring[c] # {}
  <1>1. op[c] \in Ops
    BY DEF TypeOK
  <1>2. op[c].verb # "create" => <<op[c].table, op[c].id>> \in Needs(op[c])
    BY <1>1, OpsFacts, ValuesAssumption DEF Needs
  <1>3. \A k \in Given(op[c]) : /\ <<k, op[c].refs[k]>> \in Needs(op[c])
                                /\ k # "rule"
    BY <1>1, OpsFacts, ValuesAssumption DEF Needs
  <1>. QED
    BY <1>2, <1>3 DEF LookedUp, Found, Exists

\* A write that is answered 500 has one of the causes.
LEMMA WriteErrorHasACause ==
    ASSUME CauseInv, NEW c \in Calls, DbStep(c), answer'[c] = 500, c \notin failed'
    PROVE  \/ HasNull(op[c]) \/ HasUnstorable(op[c])
           \/ Needs(op[c]) \cap deletedDuring[c] # {}
  <1>. USE DEF CauseInv
  <1>1. /\ op[c] \in Ops /\ pc[c] = "write"
    BY DEF TypeOK, DbStep, CreateRow, UpdateRow, DeleteRow, CreateRule, UpdateRule,
           DeleteRule, Writes
  <1>2. ASSUME NEW s \in {200, 201, 204, 404, 409}
        PROVE  ~Answer(c, s)
    BY AnswerType
  <1>3. CASE CreateRow(c)
    BY <1>2, <1>3 DEF CreateRow, CreateRowError, uniqueOrThrow
  <1>4. CASE UpdateRow(c)
    <2>1. UpdateRowError(op[c]) \notin {"none", "P2002"}
      BY <1>2, <1>4 DEF UpdateRow, uniqueOrThrow
    <2>2. HasNull(op[c]) \/ HasUnstorable(op[c]) \/ ~IsRow(op[c].table, op[c].id)
      BY <2>1 DEF UpdateRowError
    <2>. QED
      BY <1>1, <1>4, <2>2, MissingWasDeleted DEF UpdateRow, Writes, Exists
  <1>5. CASE DeleteRow(c)
    <2>1. ~IsRow(op[c].table, op[c].id)
      BY <1>2, <1>5 DEF DeleteRow, inUseOrThrow
    <2>. QED
      BY <1>1, <1>5, <2>1, MissingWasDeleted DEF DeleteRow, Writes, Exists
  <1>6. CASE CreateRule(c)
    <2>1. HasUnstorable(op[c]) \/ \E k \in Kinds : ~IsRow(k, op[c].refs[k])
      BY <1>2, <1>6 DEF CreateRule, CreateRuleError, uniqueOrThrow, Unresolved, Asked
    <2>2. Given(op[c]) = Kinds
      BY <1>1, <1>6, OpsFacts DEF CreateRule, Writes
    <2>. QED
      BY <1>1, <2>1, <2>2, MissingWasDeleted
  <1>7. CASE UpdateRule(c)
    <2>1. UpdateRuleError(op[c]) \notin {"none", "P2002"}
      BY <1>2, <1>7 DEF UpdateRule, uniqueOrThrow
    <2>2. \/ HasNull(op[c]) \/ HasUnstorable(op[c]) \/ ~IsRule(op[c].id)
          \/ IsRule(op[c].id) /\ Unresolved(Updated(op[c]))
      BY <2>1 DEF UpdateRuleError
    <2>3. CASE ~IsRule(op[c].id)
      BY <1>1, <1>7, <2>3, MissingWasDeleted DEF UpdateRule, Writes, Exists
    <2>4. CASE IsRule(op[c].id) /\ Unresolved(Updated(op[c]))
      <3>1. PICK k \in Kinds : ~IsRow(k, Updated(op[c]).refs[k])
        BY <2>4 DEF Unresolved
      <3>2. Updated(op[c]).refs[k] = IF op[c].refs[k] = NotGiven
                                     THEN rule[op[c].id].refs[k] ELSE op[c].refs[k]
        BY DEF Updated
      <3>3. op[c].id \in Ids
        BY <1>1, <1>7, OpsFacts DEF UpdateRule, Writes
      <3>4. k \in Given(op[c]) /\ ~IsRow(k, op[c].refs[k])
        BY <2>4, <3>1, <3>2, <3>3 DEF ReferencesResolve, Given
      <3>. QED
        BY <1>1, <3>4, MissingWasDeleted
    <2>. QED
      BY <2>2, <2>3, <2>4
  <1>8. CASE DeleteRule(c)
    <2>1. ~IsRule(op[c].id)
      BY <1>2, <1>8 DEF DeleteRule, RemovedStatus
    <2>. QED
      BY <1>1, <1>8, <2>1, MissingWasDeleted DEF DeleteRule, Writes, Exists
  <1>. QED
    BY <1>3, <1>4, <1>5, <1>6, <1>7, <1>8 DEF DbStep

\* So has a look-up.
LEMMA LookUpErrorHasACause ==
    ASSUME CauseInv, NEW c \in Calls, OtherStep(c), answer[c] # 500,
           answer'[c] = 500, c \notin failed'
    PROVE  HasUnstorable(op'[c])
  <1>. USE DEF CauseInv
  <1>1. ~Answer(c, 404)
    BY AnswerType
  <1>2. ~CallFails(c)
    BY DEF CallFails
  <1>3. ~Arrive(c)
    BY Zenon DEF Arrive
  <1>4. CASE Ensure(c)
    <2>1. op[c].id \in Unstorable /\ UNCHANGED op
      BY <1>1, <1>4 DEF Ensure, LookUpStatus
    <2>. QED
      BY <2>1 DEF HasUnstorable
  <1>5. CASE EnsureRef(c)
    <2>1. PICK k \in toCheck[c] : op[c].refs[k] \in Unstorable /\ UNCHANGED op
      BY <1>1, <1>5 DEF EnsureRef, LookUpStatus
    <2>2. k \in Kinds
      BY DEF TypeOK
    <2>. QED
      BY <2>1, <2>2 DEF HasUnstorable
  <1>. QED
    BY <1>2, <1>3, <1>4, <1>5 DEF OtherStep

LEMMA CauseNext == CauseInv /\ [Next]_vars => CauseInv'
  <1>. SUFFICES ASSUME CauseInv, [Next]_vars PROVE CauseInv'
    OBVIOUS
  <1>1. TypeOK' /\ ReferencesResolve'
    BY TypeNext, ReferencesNext DEF CauseInv
  <1>2. CASE UNCHANGED vars
    BY <1>1, <1>2 DEF vars, dbVars, callVars, CauseInv, AnswersAreLast, LookedUp,
       Found, Exists, IsRow, IsRule, ServerErrorHasACause
  <1>. SUFFICES ASSUME NEW c \in Calls, DbStep(c) \/ OtherStep(c) PROVE CauseInv'
    BY <1>2 DEF Next, DbStep, OtherStep
  <1>3. AnswersAreLast'
    BY StepsOfOneCall DEF AnswersAreLast, CauseInv
  <1>4. LookedUp'
    BY LookedUpNext DEF CauseInv
  <1>5. ServerErrorHasACause'
    <2>. SUFFICES ASSUME NEW d \in Calls, answer'[d] = 500, d \notin failed'
                  PROVE  \/ HasNull(op'[d]) \/ HasUnstorable(op'[d])
                         \/ Needs(op'[d]) \cap deletedDuring'[d] # {}
      BY DEF ServerErrorHasACause, HasNull, HasUnstorable, Needs, Given
    <2>1. CASE answer[d] = 500
      <3>1. op'[d] = op[d] /\ d \notin failed
        BY <2>1, StepsOfOneCall DEF CauseInv, AnswersAreLast
      <3>2. deletedDuring[d] \subseteq deletedDuring'[d]
        BY NotesInStep DEF CauseInv
      <3>. QED
        BY <2>1, <3>1, <3>2 DEF CauseInv, ServerErrorHasACause
    <2>2. CASE answer[d] # 500
      <3>1. d = c
        BY <2>2, StepsOfOneCall DEF CauseInv
      <3>2. CASE OtherStep(c)
        BY <2>2, <3>1, <3>2, LookUpErrorHasACause
      <3>3. CASE DbStep(c)
        <4>1. op' = op
          BY <3>3 DEF DbStep, CreateRow, UpdateRow, DeleteRow, CreateRule, UpdateRule,
                      DeleteRule
        <4>2. deletedDuring'[c] = deletedDuring[c]
          BY NotesInStep DEF CauseInv
        <4>. QED
          BY <3>1, <3>3, <4>1, <4>2, WriteErrorHasACause
      <3>. QED
        BY <3>2, <3>3
    <2>. QED
      BY <2>1, <2>2
  <1>. QED
    BY <1>1, <1>3, <1>4, <1>5 DEF CauseInv

\* Every 500 of the admin API is due to a lost database, a null field, a value
\* no column holds, or a row that another call deleted after this one had
\* looked it up.
THEOREM ServerErrorsAreCaused == Spec => []ServerErrorHasACause
  <1>1. CauseInv => ServerErrorHasACause
    BY DEF CauseInv
  <1>. QED
    BY <1>1, CauseInit, CauseNext, PTL DEF Spec
=============================================================================
