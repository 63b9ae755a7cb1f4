----------------------------- MODULE AdminRegistry -----------------------------
(***************************************************************************)
(* The admin API: AdminService on the tables of clients, bots and          *)
(* notification types and on the routing rules that refer to them.  Calls  *)
(* run concurrently; each looks up the rows it names (ensure...) and then  *)
(* makes its one write, which the unique indexes and foreign keys of       *)
(* schema.prisma may refuse.  Of a row the model keeps its unique field.   *)
(***************************************************************************)
EXTENDS Naturals, FiniteSets

CONSTANTS
    Calls,          \* calls of the API, each made once
    Kinds,          \* the tables a rule refers to: clients, bots, types
    Ids,            \* uuids, never given twice (bound: rows of a table)
    Names,          \* slugs, tokens and codes
    Places,         \* a chat and a thread
    Unstorable,     \* those of them that pass the DTOs and no column holds: a
                    \* thread above INT4, a text with a NUL
    NotGiven, Null, \* a field that is not in the body, or null there
    Unused, Gone,   \* an id without a row, before and after it had one
    MaxFaults       \* bound: calls that lose the database

ASSUME ValuesAssumption ==
    /\ {NotGiven, Null} \cap (Ids \cup Names \cup Places) = {}
    /\ NotGiven # Null
    /\ Unstorable \subseteq Ids \cup Names \cup Places
    /\ Unused \notin Names /\ Gone \notin Names /\ Unused # Gone
    /\ "rule" \notin Kinds
ASSUME FaultsAssumption == MaxFaults \in Nat

VARIABLES
    row,            \* each table: the unique field of the row with an id
    rule,           \* the routing rule with an id: what it refers to
    pc, op,         \* the query each call awaits, and what it asks for
    toCheck,        \* the lookups of a Promise.all that are not back
    answer,         \* the HTTP status sent, 0 before
    deletedDuring,  \* rows that other calls deleted while a call ran
    failed          \* calls that lost the database

dbVars == <<row, rule>>
callVars == <<pc, op, toCheck, answer, deletedDuring, failed>>
vars == <<dbVars, callVars>>

Rules == [refs : [Kinds -> Ids], place : Places]

ASSUME RulesAssumption == Unused \notin Rules /\ Gone \notin Rules

Tables == Kinds \cup {"rule"}

Optional(S) == S \cup {NotGiven}

\* A call: its verb, table and id, and the body.  Null stands for any field
\* of an update that is null, which @IsOptional lets pass; a null reference is
\* not looked up.
Bodies == [verb : {"create", "update", "delete"}, table : Tables,
           id : Optional(Ids), name : Optional(Names) \cup {Null},
           refs : [Kinds -> Optional(Ids)], place : Optional(Places) \cup {Null}]

HasNull(o) == o.name = Null \/ o.place = Null

\* threadId has a lower bound alone, and no text an upper one or a pattern.
HasUnstorable(o) ==
    ({o.id, o.name, o.place} \cup {o.refs[k] : k \in Kinds}) \cap Unstorable # {}

IsComplete(o) ==
    IF o.table = "rule" THEN o.place # NotGiven /\ \A k \in Kinds : o.refs[k] # NotGiven
                        ELSE o.name # NotGiven

HasOnlyItsFields(o) ==
    /\ (o.verb = "create") = (o.id = NotGiven)
    /\ (o.table = "rule" \/ o.verb = "delete") => o.name = NotGiven
    /\ (o.table # "rule" \/ o.verb = "delete") =>
          o.place = NotGiven /\ \A k \in Kinds : o.refs[k] = NotGiven
    /\ HasNull(o) => o.verb = "update"

Ops == {o \in Bodies : HasOnlyItsFields(o) /\ (o.verb = "create" => IsComplete(o))}

Given(o) == {k \in Kinds : o.refs[k] # NotGiven}

\* Every variable has a value the code can give it.
TypeOK ==
    /\ row \in [Kinds -> [Ids -> Names \cup {Unused, Gone}]]
    /\ rule \in [Ids -> Rules \cup {Unused, Gone}]
    /\ pc \in [Calls -> {"new", "ensure", "ensureRefs", "write", "done"}]
    /\ op \in [Calls -> Ops \cup {NotGiven}]
    /\ \A c \in Calls : pc[c] # "new" => op[c] \in Ops
    /\ toCheck \in [Calls -> SUBSET Kinds]
    /\ answer \in [Calls -> {0, 200, 201, 204, 404, 409, 500}]
    /\ deletedDuring \in [Calls -> SUBSET (Tables \X Ids)]
    /\ failed \subseteq Calls

IsRow(k, i) == row[k][i] \in Names
IsRule(i) == rule[i] \notin {Unused, Gone}
Exists(t, i) == IF t = "rule" THEN IsRule(i) ELSE IsRow(t, i)

RefersTo(r, k, i) == rule[r] \notin {Unused, Gone} /\ rule[r].refs[k] = i

-----------------------------------------------------------------------------
(***************************************************************************)
(* What the tables guarantee.                                              *)
(***************************************************************************)

\* The relations of RoutingRule: a rule refers to a client, a bot and a type
\* that exist, whatever was looked up before it was written.
ReferencesResolve ==
    \A r \in Ids : IsRule(r) => \A k \in Kinds : IsRow(k, rule[r].refs[k])

\* slug, telegramToken and code are unique, and so is a rule.
NoTwins ==
    /\ \A k \in Kinds : \A i, j \in Ids :
          IsRow(k, i) /\ row[k][i] = row[k][j] => i = j
    /\ \A r, s \in Ids : IsRule(r) /\ rule[r] = rule[s] => r = s

\* Any registry that earlier calls may have left.
Init ==
    /\ row \in [Kinds -> [Ids -> (Names \ Unstorable) \cup {Unused}]]
    /\ rule \in [Ids -> {r \in Rules : r.place \notin Unstorable} \cup {Unused}]
    /\ \A i \in Ids \cap Unstorable : ~IsRule(i) /\ \A k \in Kinds : ~IsRow(k, i)
    /\ ReferencesResolve
    /\ NoTwins
    /\ pc = [c \in Calls |-> "new"]
    /\ op = [c \in Calls |-> NotGiven]
    /\ toCheck = [c \in Calls |-> {}]
    /\ answer = [c \in Calls |-> 0]
    /\ deletedDuring = [c \in Calls |-> {}]
    /\ failed = {}

-----------------------------------------------------------------------------
(***************************************************************************)
(* The lookups before a write.                                             *)
(***************************************************************************)
Goto(c, step) == pc' = [pc EXCEPT ![c] = step]

\* The answer; it may get lost on its way from the database, which is an
\* error to the service.
Answer(c, status) ==
    /\ Goto(c, "done")
    /\ \/ answer' = [answer EXCEPT ![c] = status] /\ UNCHANGED failed
       \/ /\ Cardinality(failed) < MaxFaults
          /\ answer' = [answer EXCEPT ![c] = 500]
          /\ failed' = failed \cup {c}

Arrive(c) ==
    /\ pc[c] = "new"
    /\ \E o \in Ops :
          /\ op' = [op EXCEPT ![c] = o]
          /\ CASE o.verb # "create" -> Goto(c, "ensure") /\ UNCHANGED toCheck
               [] o.verb = "create" /\ o.table # "rule" ->
                     Goto(c, "write") /\ UNCHANGED toCheck
               [] o.verb = "create" /\ o.table = "rule" ->
                     /\ Goto(c, "ensureRefs")
                     /\ toCheck' = [toCheck EXCEPT ![c] = Kinds]
    /\ UNCHANGED <<dbVars, answer, deletedDuring, failed>>

\* No row is found, or the query for it is refused.
LookUpStatus(i) == IF i \in Unstorable THEN 500 ELSE 404

\* ensureClient, ensureBot, ensureType or ensureRule on the id of the path.
\* The update of a rule goes on to the rows its body names.
Ensure(c) ==
    /\ pc[c] = "ensure"
    /\ IF ~Exists(op[c].table, op[c].id)
       THEN Answer(c, LookUpStatus(op[c].id)) /\ UNCHANGED toCheck
       ELSE /\ Goto(c, IF Given(op[c]) = {} THEN "write" ELSE "ensureRefs")
            /\ toCheck' = [toCheck EXCEPT ![c] = Given(op[c])]
            /\ UNCHANGED <<answer, failed>>
    /\ UNCHANGED <<dbVars, op, deletedDuring>>

\* The lookups that are not back are not waited for.
StopWaiting(c) == toCheck' = [toCheck EXCEPT ![c] = {}]

\* One lookup of the Promise.all comes back; the first that fails is the
\* answer.
EnsureRef(c) ==
    /\ pc[c] = "ensureRefs"
    /\ \E k \in toCheck[c] :
          IF ~IsRow(k, op[c].refs[k])
          THEN Answer(c, LookUpStatus(op[c].refs[k])) /\ StopWaiting(c)
          ELSE /\ toCheck' = [toCheck EXCEPT ![c] = @ \ {k}]
               /\ Goto(c, IF toCheck[c] = {k} THEN "write" ELSE "ensureRefs")
               /\ UNCHANGED <<answer, failed>>
    /\ UNCHANGED <<dbVars, op, deletedDuring>>

-----------------------------------------------------------------------------
(***************************************************************************)
(* The writes.                                                             *)
(***************************************************************************)

\* Mutant: conflicts are answered as bad requests.
uniqueOrThrowAsBad(error) == IF error = "P2002" THEN 400 ELSE 500

uniqueOrThrow(error) == IF error = "P2002" THEN 409 ELSE 500

\* Mutant: a refused deletion is not recognised.
inUseOrThrowUnmapped(error) == 500

inUseOrThrow(error) == IF error \in {"P2003", "P2014"} THEN 409 ELSE 500

Writes(c, verb) == pc[c] = "write" /\ op[c].verb = verb

\* The unique index, for a row that is to be called n.
NameTaken(k, n, i) == \E j \in Ids \ {i} : row[k][j] = n

RuleTaken(r, i) == \E j \in Ids \ {i} : rule[j] = r

\* Mutant: a foreign key that does not restrict.
InUseNever(k, i) == FALSE

\* onDelete: Restrict.
InUse(k, i) == \E r \in Ids : RefersTo(r, k, i)

Unresolved(r) == \E k \in Kinds : ~IsRow(k, r.refs[k])

CreateRowError(o) ==
    IF HasUnstorable(o) THEN "unstorable"
    ELSE IF NameTaken(o.table, o.name, NotGiven) THEN "P2002" ELSE "none"

CreateRow(c) ==
    /\ Writes(c, "create") /\ op[c].table # "rule"
    /\ LET error == CreateRowError(op[c]) IN
       IF error # "none"
       THEN Answer(c, uniqueOrThrow(error)) /\ UNCHANGED row
       ELSE /\ \E i \in Ids \ Unstorable :
                  /\ row[op[c].table][i] = Unused
                  /\ row' = [row EXCEPT ![op[c].table][i] = op[c].name]
            /\ Answer(c, 201)
    /\ UNCHANGED <<rule, op, toCheck, deletedDuring>>

\* P2025: the row to update has gone.
UpdateRowError(o) ==
    IF HasNull(o) THEN "validation"
    ELSE IF HasUnstorable(o) THEN "unstorable"
    ELSE CASE ~IsRow(o.table, o.id) -> "P2025"
           [] IsRow(o.table, o.id) /\ NameTaken(o.table, o.name, o.id) -> "P2002"
           [] OTHER -> "none"

UpdateRow(c) ==
    /\ Writes(c, "update") /\ op[c].table # "rule"
    /\ LET o == op[c]
           error == UpdateRowError(o) IN
       IF error # "none"
       THEN Answer(c, uniqueOrThrow(error)) /\ UNCHANGED row
       ELSE /\ row' = [row EXCEPT ![o.table][o.id] =
                                  IF o.name = NotGiven THEN @ ELSE o.name]
            /\ Answer(c, 200)
    /\ UNCHANGED <<rule, op, toCheck, deletedDuring>>

\* Calls in progress are not told of a deletion; the model remembers it.
NoteDeletion(c) ==
    deletedDuring' = [d \in Calls |->
        IF d # c /\ pc[d] \notin {"new", "done"}
        THEN deletedDuring[d] \cup {<<op[c].table, op[c].id>>}
        ELSE deletedDuring[d]]

DeleteRow(c) ==
    /\ Writes(c, "delete") /\ op[c].table # "rule"
    /\ LET k == op[c].table
           i == op[c].id IN
       IF ~IsRow(k, i) \/ InUse(k, i)
       THEN /\ Answer(c, inUseOrThrow(IF IsRow(k, i) THEN "P2003" ELSE "P2025"))
            /\ UNCHANGED <<row, deletedDuring>>
       ELSE /\ row' = [row EXCEPT ![k][i] = Gone]
            /\ NoteDeletion(c)
            /\ Answer(c, 204)
    /\ UNCHANGED <<rule, op, toCheck>>

Asked(o) == [refs |-> o.refs, place |-> o.place]

CreateRuleError(o) ==
    IF HasUnstorable(o) THEN "unstorable"
    ELSE IF RuleTaken(Asked(o), NotGiven) THEN "P2002"
    ELSE IF Unresolved(Asked(o)) THEN "P2003" ELSE "none"

CreateRule(c) ==
    /\ Writes(c, "create") /\ op[c].table = "rule"
    /\ LET error == CreateRuleError(op[c]) IN
       IF error # "none"
       THEN Answer(c, uniqueOrThrow(error)) /\ UNCHANGED rule
       ELSE /\ \E i \in Ids \ Unstorable :
                  /\ rule[i] = Unused
                  /\ rule' = [rule EXCEPT ![i] = Asked(op[c])]
            /\ Answer(c, 201)
    /\ UNCHANGED <<row, op, toCheck, deletedDuring>>

\* The rule an update leaves: fields that are not given stay.
Updated(o) ==
    [refs |-> [k \in Kinds |-> IF o.refs[k] = NotGiven THEN rule[o.id].refs[k]
                                                       ELSE o.refs[k]],
     place |-> IF o.place = NotGiven THEN rule[o.id].place ELSE o.place]

UpdateRuleError(o) ==
    IF HasNull(o) THEN "validation"
    ELSE IF HasUnstorable(o) THEN "unstorable"
    ELSE IF ~IsRule(o.id) THEN "P2025"
    ELSE IF RuleTaken(Updated(o), o.id) THEN "P2002"
    ELSE IF Unresolved(Updated(o)) THEN "P2003" ELSE "none"

UpdateRule(c) ==
    /\ Writes(c, "update") /\ op[c].table = "rule"
    /\ LET error == UpdateRuleError(op[c]) IN
       IF error # "none"
       THEN Answer(c, uniqueOrThrow(error)) /\ UNCHANGED rule
       ELSE /\ rule' = [rule EXCEPT ![op[c].id] = Updated(op[c])]
            /\ Answer(c, 200)
    /\ UNCHANGED <<row, op, toCheck, deletedDuring>>

\* Mutant: deleteMany, which does not mind a row that has gone.
RemovedStatusOfMany(o) == 204

\* deleteRoutingRule maps no error of its delete.
RemovedStatus(o) == IF IsRule(o.id) THEN 204 ELSE 500

DeleteRule(c) ==
    /\ Writes(c, "delete") /\ op[c].table = "rule"
    /\ rule' = [rule EXCEPT ![op[c].id] = IF IsRule(op[c].id) THEN Gone ELSE @]
    /\ NoteDeletion(c)
    /\ Answer(c, RemovedStatus(op[c]))
    /\ UNCHANGED <<row, op, toCheck>>

\* A query is rejected before it had an effect.
CallFails(c) ==
    /\ pc[c] \notin {"new", "done"}
    /\ Cardinality(failed) < MaxFaults
    /\ Goto(c, "done")
    /\ answer' = [answer EXCEPT ![c] = 500]
    /\ failed' = failed \cup {c}
    /\ StopWaiting(c)
    /\ UNCHANGED <<dbVars, op, deletedDuring>>

Next ==
    \E c \in Calls :
        \/ Arrive(c) \/ Ensure(c) \/ EnsureRef(c)
        \/ CreateRow(c) \/ UpdateRow(c) \/ DeleteRow(c)
        \/ CreateRule(c) \/ UpdateRule(c) \/ DeleteRule(c)
        \/ CallFails(c)

Spec == Init /\ [][Next]_vars

-----------------------------------------------------------------------------
(***************************************************************************)
(* Properties; ReferencesResolve is above.                                 *)
(***************************************************************************)

\* The rows a call needs when it writes.
Needs(o) == {<<k, o.refs[k]>> : k \in Given(o)}
                \cup (IF o.id = NotGiven THEN {} ELSE {<<o.table, o.id>>})

\* Every other error is answered 404 or 409: a 500 means that the database was
\* lost, that a field was null, that it had a value no column holds (the DTOs
\* let a thread above INT4 pass), or that a row the call needs was deleted by
\* another call after it had been looked up.
ServerErrorHasACause ==
    \A c \in Calls : answer[c] = 500 =>
        \/ c \in failed
        \/ HasNull(op[c]) \/ HasUnstorable(op[c])
        \/ Needs(op[c]) \cap deletedDuring[c] # {}

\* Of the calls that delete the same row at the same time, one at most is
\* told that it did.
DeletedOnce ==
    \A c, d \in Calls :
        /\ answer[c] = 204 /\ answer[d] = 204
        /\ op[c].table = op[d].table /\ op[c].id = op[d].id
        => c = d
=============================================================================
