------------------------- MODULE ConfigStore_proofs --------------------------
(***************************************************************************)
(* Proofs about module ConfigStore, for every set of keys and requests.    *)
(***************************************************************************)
EXTENDS ConfigStore, TLAPS

-----------------------------------------------------------------------------
(* Types                                                                   *)

\* What a row gives is something a field can hold, and no zero for a number.
LEMMA LoadedType ==
    ASSUME NEW k \in Keys, NEW fallback \in Loads, NEW r \in Row
    PROVE  Loaded(k, r, fallback) \in Loads
  BY DEF Loaded, Converted, Loads, Values, Row

LEMMA IdleType == Idle \in Step /\ Idle.at = "idle"
  BY DEF Idle, Step, Values, Loads

\* A step of request q moves it alone.
LEMMA RequestMoves ==
    ASSUME TypeOK, NEW q \in Requests, NEW x \in Step,
           x.at # "idle" => x.key \in Keys,
           req' = [req EXCEPT ![q] = x]
    PROVE  /\ req' \in [Requests -> Step]
           /\ \A p \in Requests : req'[p].at # "idle" => req'[p].key \in Keys
  BY DEF TypeOK

LEMMA RequestType ==
    ASSUME TypeOK, NEW q \in Requests
    PROVE  /\ req[q] \in Step
           /\ req[q].at # "idle" => req[q].key \in Keys
  BY DEF TypeOK

\* Query in one piece: the row it reads, and what it takes from it.
Seen(k, fails) == [row[k] EXCEPT !.there = @ /\ ~fails]

Answered(q, fails) ==
    [req[q] EXCEPT !.at = "assign",
                   !.got = Loaded(req[q].key, Seen(req[q].key, fails), req[q].got)]

LEMMA QueryStep ==
    ASSUME TypeOK, NEW q \in Requests, NEW fails \in BOOLEAN, Query(q, fails)
    PROVE  /\ req[q].key \in Keys
           /\ Seen(req[q].key, fails) \in Row
           /\ req' = [req EXCEPT ![q] = Answered(q, fails)]
           /\ Answered(q, fails).key = req[q].key
           /\ Answered(q, fails).at = "assign"
           /\ Answered(q, fails).got
                = Loaded(req[q].key, Seen(req[q].key, fails), req[q].got)
           /\ Answered(q, fails) \in Step
  <1>1. req[q].key \in Keys /\ req[q] \in Step /\ req[q].got \in Loads
    BY RequestType DEF Query, Step
  <1>2. Seen(req[q].key, fails) \in Row
    BY <1>1 DEF Seen, Row, TypeOK
  <1>3. Loaded(req[q].key, Seen(req[q].key, fails), req[q].got) \in Loads
    BY <1>1, <1>2, LoadedType
  <1>4. req' = [req EXCEPT ![q] = Answered(q, fails)]
    BY DEF Query, Seen, Answered, TypeOK
  <1>5. /\ Answered(q, fails) \in Step
        /\ Answered(q, fails).key = req[q].key
        /\ Answered(q, fails).at = "assign"
        /\ Answered(q, fails).got
             = Loaded(req[q].key, Seen(req[q].key, fails), req[q].got)
    BY <1>1, <1>3 DEF Step, Answered
  <1> QED
    BY <1>1, <1>2, <1>4, <1>5

\* What Write leaves in the table.
Written(q) ==
    IF req[q].op = "delete"
    THEN [there |-> FALSE, value |-> "default", described |-> FALSE]
    ELSE [there |-> TRUE, value |-> req[q].value,
          described |-> row[req[q].key].there /\ row[req[q].key].described]

LEMMA WriteStep ==
    ASSUME TypeOK, NEW q \in Requests, Write(q)
    PROVE  /\ row' = [row EXCEPT ![req[q].key] = Written(q)]
           /\ req[q].key \in Keys
           /\ Written(q) \in Row
           /\ Written(q).there /\ Written(q).described =>
                /\ req[q].op # "delete"
                /\ Written(q).value = req[q].value
                /\ row[req[q].key].there /\ row[req[q].key].described
  <1>1. req[q] \in Step /\ req[q].key \in Keys /\ row[req[q].key] \in Row
    BY RequestType DEF Write, TypeOK
  <1>2. row' = [row EXCEPT ![req[q].key] = Written(q)]
    BY DEF Write, Written
  <1>3. Written(q) \in Row
    BY <1>1 DEF Written, Row, Step, Values
  <1>4. Written(q).there /\ Written(q).described =>
          /\ req[q].op # "delete"
          /\ Written(q).value = req[q].value
          /\ row[req[q].key].there /\ row[req[q].key].described
    BY DEF Written
  <1> QED
    BY <1>1, <1>2, <1>3, <1>4

LEMMA InitType == Init => TypeOK
  BY ConfigAssumption, IdleType DEF Init, TypeOK, Row, Values, Loads

LEMMA NextType ==
    ASSUME TypeOK, [Next]_vars
    PROVE  TypeOK'
  <1>1. ASSUME NEW q \in Requests, NEW k \in Keys, NEW v \in Values,
               NEW op \in {"put", "delete"}, NEW at \in {"read", "write"},
               Start(q, op, k, v, at)
        PROVE  TypeOK'
    <2> DEFINE x == [at |-> at, op |-> op, key |-> k, value |-> v,
                  blind |-> FALSE, got |-> "default"]
    <2>1. x \in Step /\ x.key \in Keys
      BY DEF Step, Loads, Values
    <2>2. req' = [req EXCEPT ![q] = x]
      BY <1>1 DEF Start
    <2> QED
      BY <1>1, <2>1, <2>2, RequestMoves DEF Start, TypeOK
  <1>2. ASSUME NEW q \in Requests,
               (\E fails \in BOOLEAN : Check(q, fails)) \/ Write(q) \/ WriteFails(q)
                 \/ Reload(q)
        PROVE  TypeOK'
    <2>0. req[q] \in Step /\ req[q].key \in Keys
      BY <1>2, RequestType DEF Check, Write, WriteFails, Reload
    <2>1. ASSUME NEW at \in {"write", "reload"}
          PROVE  [req[q] EXCEPT !.at = at] \in Step
                 /\ [req[q] EXCEPT !.at = at].key = req[q].key
      BY <2>0 DEF Step
    <2>2. [req[q] EXCEPT !.at = "query", !.got = mem[req[q].key]] \in Step
          /\ [req[q] EXCEPT !.at = "query", !.got = mem[req[q].key]].key = req[q].key
      BY <2>0 DEF Step, TypeOK
    <2>6. ASSUME NEW b \in BOOLEAN
          PROVE  [req[q] EXCEPT !.at = "write", !.blind = b] \in Step
                 /\ [req[q] EXCEPT !.at = "write", !.blind = b].key = req[q].key
      BY <2>0 DEF Step
    <2>3. \E x \in Step : /\ x.at # "idle" => x.key \in Keys
                          /\ req' = [req EXCEPT ![q] = x]
      BY <1>2, <2>0, <2>1, <2>2, <2>6, IdleType DEF Check, Write, WriteFails, Reload, TypeOK
    <2>4. /\ req' \in [Requests -> Step]
          /\ \A p \in Requests : req'[p].at # "idle" => req'[p].key \in Keys
      BY <2>3, RequestMoves
    <2>5. row' \in [Keys -> Row] /\ blind' \subseteq Keys
      <3>1. CASE Write(q)
        <4>1. row' \in [Keys -> Row]
          BY <3>1, WriteStep DEF TypeOK
        <4> QED
          BY <2>0, <3>1, <4>1 DEF Write, TypeOK
      <3>2. CASE ~Write(q)
        BY <1>2, <3>2 DEF Check, WriteFails, Reload, TypeOK
      <3> QED
        BY <3>1, <3>2
    <2> QED
      BY <1>2, <2>4, <2>5 DEF Check, Write, WriteFails, Reload, TypeOK
  <1>3. ASSUME NEW q \in Requests, NEW fails \in BOOLEAN, Query(q, fails)
        PROVE  TypeOK'
    <2>1. /\ req' \in [Requests -> Step]
          /\ \A p \in Requests : req'[p].at # "idle" => req'[p].key \in Keys
      BY <1>3, QueryStep, RequestMoves
    <2>2. missed' \subseteq Keys
      BY <1>3, QueryStep DEF Query, TypeOK
    <2> QED
      BY <1>3, <2>1, <2>2 DEF Query, TypeOK
  <1>4. ASSUME NEW q \in Requests, Assign(q)
        PROVE  TypeOK'
    <2>1. req[q].got \in Loads /\ req[q].key \in Keys
      BY <1>4, RequestType DEF Assign, Step
    <2> QED
      BY <1>4, <2>1, IdleType, RequestMoves DEF Assign, TypeOK
  <1>5. CASE Restart
    <2>1. \A k \in Keys : Loaded(k, row[k], "default") \in Loads
      BY LoadedType DEF Loads, Values, TypeOK
    <2> QED
      BY <1>5, <2>1, IdleType DEF Restart, TypeOK
  <1>6. CASE UNCHANGED vars
    BY <1>6 DEF vars, TypeOK
  <1> QED
    BY <1>1, <1>2, <1>3, <1>4, <1>5, <1>6 DEF Next, Put, Delete, Values

\* The types hold for every set of keys and every number of requests.
THEOREM TypeCorrect == Spec => []TypeOK
  BY InitType, NextType, PTL DEF Spec

-----------------------------------------------------------------------------
(* Validation                                                              *)

\* The inductive invariant: a request that could read the row, and is about to write
\* over one with metadata, has a value they admit. A row without metadata never gets
\* any, so what was checked against nothing is not written over a row that has them.
CheckedBeforeWritten ==
    /\ TypeOK
    /\ DescribedValuesAreValid
    /\ \A q \in Requests : req[q].at = "write" /\ req[q].op # "delete" /\ ~req[q].blind =>
        LET r == row[req[q].key]
        IN r.there /\ r.described => Valid(req[q].key, req[q].value)

LEMMA ChecksHold ==
    ASSUME CheckedBeforeWritten, [Next]_vars
    PROVE  CheckedBeforeWritten'
  <1> USE DEF CheckedBeforeWritten, DescribedValuesAreValid
  <1>0. TypeOK /\ TypeOK'
    BY NextType
  <1>1. ASSUME NEW q \in Requests, NEW k \in Keys, NEW v \in Values, NEW op, NEW at,
               at = "write" => op = "delete",
               Start(q, op, k, v, at)
        PROVE  CheckedBeforeWritten'
    BY <1>0, <1>1 DEF Start, TypeOK
  <1>2. ASSUME NEW q \in Requests, NEW fails \in BOOLEAN, Check(q, fails)
        PROVE  CheckedBeforeWritten'
    <2>1. \A p \in Requests : req'[p].at = "write" =>
             /\ req'[p].op = req[p].op /\ req'[p].key = req[p].key
             /\ req'[p].value = req[p].value
             /\ p = q /\ ~req'[p].blind =>
                  LET r == row[req[p].key]
                  IN r.there /\ r.described => Valid(req[p].key, req[p].value)
             /\ p # q => req[p].at = "write" /\ req'[p].blind = req[p].blind
      <3>1. req[q] \in Step
        BY <1>0, RequestType
      <3> QED
        BY <1>0, <1>2, <3>1, IdleType DEF Check, TypeOK, Step
    <2> QED
      BY <1>0, <1>2, <2>1 DEF Check
  <1>3. ASSUME NEW q \in Requests, Write(q)
        PROVE  CheckedBeforeWritten'
    <2>1. req[q] \in Step /\ req[q].key \in Keys
      BY <1>0, <1>3, RequestType DEF Write
    <2>2. \A k \in Keys : row'[k].there /\ row'[k].described =>
             /\ row[k].there /\ row[k].described
             /\ \/ k # req[q].key /\ row'[k].value = row[k].value
                \/ k = req[q].key /\ req[q].op # "delete" /\ row'[k].value = req[q].value
      BY <1>0, <1>3, WriteStep DEF TypeOK
    <2>3. \A p \in Requests : req'[p].at = "write" => req'[p] = req[p]
      BY <1>0, <1>3, <2>1 DEF Write, TypeOK, Step
    <2>4. \A k \in Keys : k \notin blind' =>
             (k = req[q].key => ~req[q].blind) /\ (k # req[q].key => k \notin blind)
      BY <1>3 DEF Write
    <2>5. DescribedValuesAreValid'
      BY <1>0, <1>3, <2>1, <2>2, <2>4 DEF Write, Valid
    <2> QED
      BY <1>0, <1>3, <2>1, <2>2, <2>3, <2>5, RequestType DEF Write
  <1>4. ASSUME NEW q \in Requests,
               \/ WriteFails(q) \/ Reload(q) \/ Assign(q)
               \/ \E fails \in BOOLEAN : Query(q, fails)
        PROVE  CheckedBeforeWritten'
    <2>1. req[q] \in Step /\ UNCHANGED << row, blind >>
      BY <1>0, <1>4, RequestType DEF WriteFails, Reload, Assign, Query
    <2>2. \A p \in Requests : req'[p].at = "write" => req'[p] = req[p]
      <3>1. CASE WriteFails(q) \/ Reload(q) \/ Assign(q)
        BY <1>0, <3>1, <2>1, IdleType DEF WriteFails, Reload, Assign, TypeOK, Step
      <3>2. CASE \E fails \in BOOLEAN : Query(q, fails)
        BY <1>0, <3>2, QueryStep DEF TypeOK
      <3> QED
        BY <1>4, <3>1, <3>2
    <2> QED
      BY <1>0, <2>1, <2>2 DEF Valid
  <1>5. CASE Restart \/ UNCHANGED vars
    BY <1>0, <1>5, IdleType DEF Restart, vars
  <1> QED
    BY <1>1, <1>2, <1>3, <1>4, <1>5 DEF Next, Put, Delete, Values

\* A row that still has the metadata of the migration holds a value they admit, unless
\* the put that wrote it could not read it, whatever requests come between the check
\* of a value and its writing.
THEOREM ValidationSurvivesRaces == Spec => []DescribedValuesAreValid
  <1>1. Init => CheckedBeforeWritten
    BY InitType DEF Init, CheckedBeforeWritten, DescribedValuesAreValid, Valid, Idle
  <1> QED
    BY <1>1, ChecksHold, PTL DEF Spec, CheckedBeforeWritten

-----------------------------------------------------------------------------
(* What the fields hold.                                                   *)

\* A reload that finds nothing gives back the field, unless its product wrapped.
Fixed(k, v) == v = "wrapped" \/ Converted(k, v) = v

FieldsAreFixed ==
    /\ TypeOK
    /\ \A k \in Keys : Fixed(k, mem[k])
    /\ \A q \in Requests :
        req[q].at \in {"query", "assign"} => Fixed(req[q].key, req[q].got)

LEMMA LoadedIsFixed ==
    ASSUME NEW k, NEW fallback, NEW r
    PROVE  Fixed(k, Loaded(k, r, fallback)) /\ Fixed(k, "default")
  BY DEF Fixed, Loaded, Converted

LEMMA FieldsStayFixed ==
    ASSUME FieldsAreFixed, [Next]_vars
    PROVE  FieldsAreFixed'
  <1> USE DEF FieldsAreFixed
  <1>0. TypeOK /\ TypeOK'
    BY NextType
  <1>1. ASSUME NEW q \in Requests, NEW k \in Keys, NEW v \in Values, NEW op,
               NEW at \in {"read", "write"}, Start(q, op, k, v, at)
        PROVE  FieldsAreFixed'
    BY <1>0, <1>1 DEF Start, TypeOK, Fixed, Converted
  <1>2. ASSUME NEW q \in Requests,
               (\E fails \in BOOLEAN : Check(q, fails)) \/ Write(q) \/ WriteFails(q)
        PROVE  FieldsAreFixed'
    <2>1. req[q] \in Step /\ UNCHANGED mem
      BY <1>0, <1>2, RequestType DEF Check, Write, WriteFails
    <2>2. \A p \in Requests : req'[p].at \in {"query", "assign"} => req'[p] = req[p]
      BY <1>0, <1>2, <2>1, IdleType DEF Check, Write, WriteFails, TypeOK, Step
    <2> QED
      BY <1>0, <2>1, <2>2 DEF Fixed, Converted
  <1>3. ASSUME NEW q \in Requests, Reload(q)
        PROVE  FieldsAreFixed'
    <2>1. req[q] \in Step /\ req[q].key \in Keys
      BY <1>0, <1>3, RequestType DEF Reload
    <2>2. /\ req'[q].got = mem[req[q].key] /\ req'[q].key = req[q].key
          /\ \A p \in Requests \ {q} : req'[p] = req[p]
      BY <1>0, <1>3, <2>1 DEF Reload, TypeOK, Step
    <2> QED
      BY <1>0, <1>3, <2>1, <2>2 DEF Reload, Fixed, Converted
  <1>4. ASSUME NEW q \in Requests, NEW fails \in BOOLEAN, Query(q, fails)
        PROVE  FieldsAreFixed'
    <2> DEFINE k == req[q].key
               r == Seen(req[q].key, fails)
    <2>1. k \in Keys /\ r \in Row /\ req[q].at = "query"
      BY <1>0, <1>4, QueryStep DEF Query
    <2>2. /\ req'[q].got = Loaded(k, r, req[q].got) /\ req'[q].key = k
          /\ \A p \in Requests \ {q} : req'[p] = req[p]
      BY <1>0, <1>4, QueryStep DEF TypeOK
    <2>3. Fixed(k, Loaded(k, r, req[q].got))
      BY LoadedIsFixed
    <2> QED
      BY <1>0, <1>4, <2>1, <2>2, <2>3 DEF Query, Fixed, Converted
  <1>5. ASSUME NEW q \in Requests, Assign(q)
        PROVE  FieldsAreFixed'
    <2>1. req[q].key \in Keys /\ Fixed(req[q].key, req[q].got)
      BY <1>0, <1>5, RequestType DEF Assign
    <2>2. \A p \in Requests : req'[p].at \in {"query", "assign"} => req'[p] = req[p]
      BY <1>0, <1>5, IdleType DEF Assign, TypeOK
    <2> QED
      BY <1>0, <1>5, <2>1, <2>2 DEF Assign, TypeOK, Fixed, Converted
  <1>6. CASE Restart
    <2>1. \A k \in Keys : mem'[k] = Loaded(k, row[k], "default")
      BY <1>6 DEF Restart
    <2>2. \A k \in Keys : Fixed(k, mem'[k])
      BY <2>1, LoadedIsFixed
    <2> QED
      BY <1>0, <1>6, <2>2, IdleType DEF Restart, Fixed, Converted
  <1>7. CASE UNCHANGED vars
    BY <1>0, <1>7 DEF vars, Fixed, Converted
  <1> QED
    BY <1>1, <1>2, <1>3, <1>4, <1>5, <1>6, <1>7 DEF Next, Put, Delete, Values

-----------------------------------------------------------------------------
(* What a restart changes.                                                 *)

Good(k) == row[k].there /\ Readable(k, row[k].value)
Fresh(k) == Loaded(k, row[k], "default")

\* The field of k is what the row gives, or the one request at k will make it so.
Following(k) ==
    \/ \E q \in Requests : req[q].key = k /\ req[q].at \in {"reload", "query"}
    \/ \E q \in Requests : req[q].key = k /\ req[q].at = "assign" /\ req[q].got = Fresh(k)
    \/ /\ \A q \in Requests : req[q].key = k => req[q].at \in {"read", "write"}
       /\ mem[k] = Fresh(k)

Alone(k) == \A p, q \in Requests : req[p].key = k /\ req[q].key = k => p = q

InSync(k) == Alone(k) /\ (Good(k) => Following(k))

\* The inductive invariant.
MemoryFollows ==
    /\ TypeOK
    /\ \A q \in Requests : req[q].at = "idle" => req[q].key = NoKey
    /\ \A k \in Keys : k \notin overlapped \cup missed => InSync(k)

\* A field is read from a readable row whatever it was.
LEMMA ReadAfresh ==
    ASSUME TypeOK, NEW k \in Keys, Good(k), NEW fallback
    PROVE  Loaded(k, Seen(k, FALSE), fallback) = Fresh(k)
  <1>1. row[k] \in Row /\ row[k].there = TRUE
    BY DEF Good, TypeOK, Row
  <1>2. Seen(k, FALSE).there = TRUE /\ Seen(k, FALSE).value = row[k].value
    BY <1>1 DEF Seen, Row
  <1> QED
    BY <1>1, <1>2 DEF Good, Fresh, Loaded, Converted

\* What is said of a key does not change while its row, its field and the requests
\* at it stay as they are.
LEMMA Frame ==
    ASSUME NEW k \in Keys, InSync(k), row'[k] = row[k], mem'[k] = mem[k],
           \A q \in Requests : req[q].key = k \/ req'[q].key = k => req'[q] = req[q]
    PROVE  InSync(k)'
  <1>1. Good(k)' = Good(k) /\ Fresh(k)' = Fresh(k)
    BY DEF Good, Fresh, Loaded, Converted, Readable
  <1>2. Alone(k)'
    BY DEF InSync, Alone
  <1>3. Following(k) => Following(k)'
    BY <1>1 DEF Following
  <1> QED
    BY <1>1, <1>2, <1>3 DEF InSync

LEMMA MemoryKeepsFollowing ==
    ASSUME MemoryFollows, [Next]_vars
    PROVE  MemoryFollows'
  <1>0. /\ TypeOK /\ TypeOK'
        /\ \A q \in Requests : req[q].at = "idle" => req[q].key = NoKey
        /\ \A k \in Keys : k \notin overlapped \cup missed => InSync(k)
    BY NextType DEF MemoryFollows
  <1>1. ASSUME NEW q \in Requests, NEW k \in Keys, NEW v \in Values,
               NEW op, NEW at \in {"read", "write"}, Start(q, op, k, v, at)
        PROVE  MemoryFollows'
    <2>1. /\ req[q].key = NoKey /\ UNCHANGED << row, mem >>
          /\ req'[q].key = k /\ req'[q].at = at
          /\ \A p \in Requests \ {q} : req'[p] = req[p]
      BY <1>0, <1>1 DEF Start, TypeOK
    <2>2. k \notin overlapped' \cup missed' =>
            k \notin overlapped \cup missed /\ \A p \in Requests : req[p].key # k
      BY <1>1 DEF Start, At
    <2>3. k \notin overlapped' \cup missed' => InSync(k)'
      BY <1>0, <2>1, <2>2
      DEF InSync, Alone, Following, Good, Fresh, Loaded, Converted, Readable
    <2>4. ASSUME NEW j \in Keys \ {k}, j \notin overlapped' \cup missed'
          PROVE  InSync(j)'
      BY <1>0, <1>1, <2>1, <2>4, Frame, ConfigAssumption DEF Start
    <2> QED
      BY <1>0, <2>1, <2>3, <2>4 DEF MemoryFollows
  <1>2. ASSUME NEW q \in Requests,
               Write(q) \/ WriteFails(q) \/ Reload(q) \/ Assign(q)
                 \/ \E fails \in BOOLEAN : Check(q, fails) \/ Query(q, fails)
        PROVE  MemoryFollows'
    <2>a. req[q].key \in Keys /\ req[q] \in Step /\ req[q].at # "idle"
      BY <1>0, <1>2, RequestType DEF Check, Write, WriteFails, Reload, Assign, Query
    <2>b. PICK k \in Keys : k = req[q].key
      BY <2>a
    <2>0. k = req[q].key /\ req[q] \in Step /\ req[q].at # "idle" /\ k # NoKey
      BY <2>a, <2>b, ConfigAssumption
    <2>1. /\ \A p \in Requests \ {q} : req'[p] = req[p]
          /\ \/ req'[q].key = k /\ req'[q].at # "idle"
             \/ req'[q].key = NoKey
      <3>1. CASE (\E fails \in BOOLEAN : Check(q, fails)) \/ Write(q) \/ WriteFails(q)
                   \/ Reload(q) \/ Assign(q)
        BY <1>0, <2>0, <3>1
        DEF Check, Write, WriteFails, Reload, Assign, Idle, TypeOK, Step
      <3>2. CASE \E fails \in BOOLEAN : Query(q, fails)
        BY <1>0, <2>0, <3>2, QueryStep DEF TypeOK
      <3> QED
        BY <1>2, <3>1, <3>2
    <2>2. /\ overlapped \subseteq overlapped' /\ missed \subseteq missed'
          /\ \A j \in Keys \ {k} : row'[j] = row[j] /\ mem'[j] = mem[j]
      BY <1>0, <1>2, <2>0
      DEF Check, Write, WriteFails, Reload, Assign, Query, TypeOK
    <2>3. ASSUME NEW j \in Keys \ {k}, j \notin overlapped' \cup missed'
          PROVE  InSync(j)'
      BY <1>0, <2>0, <2>1, <2>2, <2>3, Frame, ConfigAssumption
    <2>4. ASSUME k \notin overlapped' \cup missed'
          PROVE  InSync(k)'
      <3>0. Alone(k) /\ (Good(k) => Following(k)) /\ Alone(k)'
        BY <1>0, <2>0, <2>1, <2>2, <2>4 DEF InSync, Alone
      <3>1. CASE (\E fails \in BOOLEAN : Check(q, fails)) \/ WriteFails(q)
        <4>1. /\ UNCHANGED << row, mem >>
              /\ req[q].at \in {"read", "write"}
              /\ req'[q].key = k => req'[q].at = "write"
          BY <1>0, <2>0, <3>1 DEF Check, WriteFails, Idle, TypeOK, Step
        <4>2. Good(k) => mem[k] = Fresh(k)
          BY <2>0, <3>0, <4>1 DEF Following, Alone
        <4>3. \A p \in Requests : req'[p].key = k => req'[p].at \in {"read", "write"}
          BY <2>0, <2>1, <3>0, <4>1 DEF Alone
        <4> QED
          BY <3>0, <4>1, <4>2, <4>3 DEF InSync, Following, Good, Fresh, Loaded, Converted, Readable
      <3>2. CASE Write(q) \/ Reload(q)
        <4>1. req'[q].key = k /\ req'[q].at \in {"reload", "query"}
          BY <1>0, <2>0, <3>2 DEF Write, Reload, TypeOK, Step
        <4> QED
          BY <3>0, <4>1 DEF InSync, Following
      <3>3. ASSUME NEW fails \in BOOLEAN, Query(q, fails)
            PROVE  InSync(k)'
        <4>1. ~fails /\ UNCHANGED << row, mem >>
          BY <2>0, <2>4, <3>3 DEF Query
        <4>2. /\ req'[q].key = k /\ req'[q].at = "assign"
              /\ req'[q].got = Loaded(k, Seen(k, FALSE), req[q].got)
          BY <1>0, <2>0, <3>3, <4>1, QueryStep DEF TypeOK
        <4>3. Good(k) => req'[q].got = Fresh(k)
          BY <1>0, <2>0, <4>2, ReadAfresh
        <4> QED
          BY <3>0, <4>1, <4>2, <4>3 DEF InSync, Following, Good, Fresh, Loaded, Converted, Readable
      <3>4. CASE Assign(q)
        <4>1. UNCHANGED row /\ req[q].at = "assign" /\ mem'[k] = req[q].got
          BY <1>0, <2>0, <3>4 DEF Assign, TypeOK
        <4>2. Good(k) => mem'[k] = Fresh(k)
          BY <2>0, <3>0, <4>1 DEF Following, Alone
        <4>3. \A p \in Requests : req'[p].key # k
          BY <1>0, <2>0, <2>1, <3>0, <3>4 DEF Alone, Assign, Idle, TypeOK
        <4> QED
          BY <3>0, <4>1, <4>2, <4>3 DEF InSync, Following, Good, Fresh, Loaded, Converted, Readable
      <3> QED
        BY <1>2, <3>1, <3>2, <3>3, <3>4
    <2> QED
      BY <1>0, <2>0, <2>1, <2>3, <2>4 DEF MemoryFollows
  <1>3. CASE Restart
    <2>1. \A k \in Keys : mem'[k] = Fresh(k) /\ UNCHANGED row
      BY <1>3 DEF Restart, Fresh
    <2>2. \A q \in Requests : req'[q].key = NoKey
      BY <1>3 DEF Restart, Idle
    <2>3. \A k \in Keys : InSync(k)'
      BY <2>1, <2>2, ConfigAssumption
      DEF InSync, Alone, Following, Good, Fresh, Loaded, Converted, Readable
    <2> QED
      BY <1>0, <2>2, <2>3 DEF MemoryFollows
  <1>4. CASE UNCHANGED vars
    <2>1. \A k \in Keys : InSync(k) => InSync(k)'
      BY <1>4, Frame DEF vars
    <2> QED
      BY <1>0, <1>4, <2>1 DEF vars, MemoryFollows
  <1> QED
    BY <1>1, <1>2, <1>3, <1>4 DEF Next, Put, Delete, Values

\* A key whose requests came one after the other is in memory what the next start
\* would load, for every number of requests about other keys beside them.
THEOREM MemoryIsWhatARestartLoads == Spec => []RestartChangesNothing
  <1>1. Init => MemoryFollows
    <2> SUFFICES ASSUME Init PROVE MemoryFollows
      OBVIOUS
    <2>1. \A q \in Requests : req[q].key = NoKey
      BY DEF Init, Idle
    <2>2. \A k \in Keys : mem[k] = Fresh(k)
      BY DEF Init, Fresh, Loaded, Converted, Readable
    <2> QED
      BY <2>1, <2>2, InitType, ConfigAssumption
      DEF MemoryFollows, InSync, Alone, Following
  <1>2. MemoryFollows => RestartChangesNothing
    <2> SUFFICES ASSUME MemoryFollows,
                        NEW k \in Keys, At(k) = {}, k \notin overlapped \cup missed, Good(k)
                 PROVE  mem[k] = Fresh(k)
      BY DEF RestartChangesNothing, Good, Fresh
    <2> QED
      BY DEF MemoryFollows, InSync, Following, At
  <1> QED
    BY <1>1, <1>2, MemoryKeepsFollowing, PTL DEF Spec

-----------------------------------------------------------------------------
(* What a deletion changes.                                                *)

\* Between two starts a field changes only by a put that has written the row: a
\* deletion changes nothing in memory, whose old value is the fallback of its reload,
\* so the default comes with the next start and not before
\* (config_api.go, dbconfig.go). Requests that overlap at the key are left aside, as
\* one that deletes may load what another has put, and so is a field whose conversion
\* overflowed, as one in bytes is raised to a megabyte by any reload.
OnlyPutsChangeMemory ==
    [][\A k \in Keys : mem'[k] # mem[k] /\ mem[k] # "wrapped" /\ k \notin overlapped =>
          \/ Restart
          \/ row[k].there /\ \E q \in At(k) : req[q].op = "put" /\ Assign(q)]_vars

\* A request that reloads k has put the row or has nothing new in hand.
Harmless(q, k) ==
    /\ req[q].op = "put" /\ req[q].at \in {"reload", "query", "assign"} => row[k].there
    /\ req[q].op = "delete" /\ req[q].at \in {"reload", "query", "assign"} => ~row[k].there
    /\ req[q].at # "idle" => req[q].op \in {"put", "delete"}
    /\ req[q].at = "query" => req[q].got = mem[k]
    /\ req[q].at = "assign" =>
         req[q].got = mem[k] \/ req[q].op = "put" \/ mem[k] = "wrapped"

\* The inductive invariant.
DeletionsAreHarmless ==
    /\ FieldsAreFixed
    /\ \A q \in Requests : req[q].at = "idle" => req[q].key = NoKey
    /\ \A k \in Keys : k \notin overlapped =>
        Alone(k) /\ \A q \in At(k) : Harmless(q, k)

\* Without a row the reload gives back what was in memory.
LEMMA NothingLoaded ==
    ASSUME NEW k \in Keys, NEW r \in Row, ~r.there, NEW fallback,
           Fixed(k, fallback), fallback # "wrapped"
    PROVE  Loaded(k, r, fallback) = fallback
  BY DEF Loaded, Fixed

LEMMA DeletionsStayHarmless ==
    ASSUME DeletionsAreHarmless, [Next]_vars
    PROVE  DeletionsAreHarmless'
  <1>0. /\ TypeOK /\ TypeOK' /\ FieldsAreFixed /\ FieldsAreFixed'
        /\ \A q \in Requests : req[q].at = "idle" => req[q].key = NoKey
        /\ \A k \in Keys : k \notin overlapped =>
              Alone(k) /\ \A q \in At(k) : Harmless(q, k)
    BY FieldsStayFixed DEF DeletionsAreHarmless, FieldsAreFixed
  <1>1. ASSUME NEW k \in Keys, k \notin overlapped, row'[k] = row[k], mem'[k] = mem[k],
               \A q \in Requests : req[q].key = k \/ req'[q].key = k => req'[q] = req[q]
        PROVE  Alone(k)' /\ \A q \in At(k)' : Harmless(q, k)'
    BY <1>0, <1>1 DEF Alone, At, Harmless
  <1>2. ASSUME NEW q \in Requests, NEW k \in Keys, NEW v \in Values,
               NEW op \in {"put", "delete"}, NEW at \in {"read", "write"},
               Start(q, op, k, v, at)
        PROVE  DeletionsAreHarmless'
    <2>1. /\ req[q].key = NoKey /\ UNCHANGED << row, mem >>
          /\ req'[q].key = k /\ req'[q].at = at /\ req'[q].op = op
          /\ \A p \in Requests \ {q} : req'[p] = req[p]
      BY <1>0, <1>2 DEF Start, TypeOK
    <2>2. k \notin overlapped' => k \notin overlapped /\ \A p \in Requests : req[p].key # k
      BY <1>2 DEF Start, At
    <2>3. k \notin overlapped' => Alone(k)' /\ \A p \in At(k)' : Harmless(p, k)'
      BY <2>1, <2>2 DEF Alone, At, Harmless
    <2>4. ASSUME NEW j \in Keys \ {k}, j \notin overlapped'
          PROVE  Alone(j)' /\ \A p \in At(j)' : Harmless(p, j)'
      BY <1>1, <1>2, <2>1, <2>4, ConfigAssumption DEF Start
    <2> QED
      BY <1>0, <2>1, <2>3, <2>4 DEF DeletionsAreHarmless
  <1>3. ASSUME NEW q \in Requests,
               Write(q) \/ WriteFails(q) \/ Reload(q) \/ Assign(q)
                 \/ \E fails \in BOOLEAN : Check(q, fails) \/ Query(q, fails)
        PROVE  DeletionsAreHarmless'
    <2>a. req[q].key \in Keys /\ req[q] \in Step /\ req[q].at # "idle"
      BY <1>0, <1>3, RequestType DEF Check, Write, WriteFails, Reload, Assign, Query
    <2>b. PICK k \in Keys : k = req[q].key
      BY <2>a
    <2>0. k = req[q].key /\ req[q] \in Step /\ req[q].at # "idle" /\ k # NoKey
      BY <2>a, <2>b, ConfigAssumption
    <2>1. /\ \A p \in Requests \ {q} : req'[p] = req[p]
          /\ \/ req'[q].key = k /\ req'[q].at # "idle" /\ req'[q].op = req[q].op
             \/ req'[q].key = NoKey
      <3>1. CASE (\E fails \in BOOLEAN : Check(q, fails)) \/ Write(q) \/ WriteFails(q)
                   \/ Reload(q) \/ Assign(q)
        BY <1>0, <2>0, <3>1
        DEF Check, Write, WriteFails, Reload, Assign, Idle, TypeOK, Step
      <3>2. CASE \E fails \in BOOLEAN : Query(q, fails)
        BY <1>0, <2>0, <3>2 DEF Query, TypeOK, Step
      <3> QED
        BY <1>3, <3>1, <3>2
    <2>2. /\ overlapped' = overlapped
          /\ \A j \in Keys \ {k} : row'[j] = row[j] /\ mem'[j] = mem[j]
      BY <1>0, <1>3, <2>0
      DEF Check, Write, WriteFails, Reload, Assign, Query, TypeOK
    <2>3. ASSUME NEW j \in Keys \ {k}, j \notin overlapped'
          PROVE  Alone(j)' /\ \A p \in At(j)' : Harmless(p, j)'
      BY <1>1, <2>0, <2>1, <2>2, <2>3, ConfigAssumption
    <2>4. ASSUME k \notin overlapped'
          PROVE  Alone(k)' /\ \A p \in At(k)' : Harmless(p, k)'
      <3>0. Alone(k) /\ Harmless(q, k)
        BY <1>0, <2>0, <2>2, <2>4 DEF At
      <3>1. Alone(k)' /\ \A p \in At(k)' : p = q
        BY <2>0, <2>1, <3>0 DEF Alone, At
      <3> SUFFICES ASSUME req'[q].key = k
                   PROVE  Harmless(q, k)'
        BY <3>1 DEF At
      <3>2. req'[q].op = req[q].op /\ req[q].op \in {"put", "delete"}
        BY <2>0, <2>1, <3>0 DEF Harmless
      <3>3. CASE \E fails \in BOOLEAN : Check(q, fails)
        <4>1. req'[q].at = "write"
          BY <1>0, <2>0, <3>3 DEF Check, Idle, TypeOK, Step
        <4> QED
          BY <3>2, <4>1 DEF Harmless
      <3>4. CASE Write(q)
        <4>1. req'[q].at = "reload" /\ row'[k].there = (req[q].op # "delete")
          BY <1>0, <2>0, <3>4 DEF Write, TypeOK, Step
        <4> QED
          BY <3>2, <4>1 DEF Harmless
      <3>5. CASE Reload(q)
        <4>1. /\ req[q].at = "reload" /\ req'[q].at = "query" /\ req'[q].got = mem[k]
              /\ UNCHANGED << row, mem >>
          BY <1>0, <2>0, <3>5 DEF Reload, TypeOK, Step
        <4> QED
          BY <3>0, <3>2, <4>1 DEF Harmless
      <3>6. ASSUME NEW fails \in BOOLEAN, Query(q, fails)
            PROVE  Harmless(q, k)'
        <4>1. /\ req[q].at = "query" /\ UNCHANGED << row, mem >>
              /\ req'[q].at = "assign" /\ Seen(k, fails) \in Row
              /\ req'[q].got = Loaded(k, Seen(k, fails), req[q].got)
          <5>1. req[q].at = "query" /\ UNCHANGED << row, mem >>
            BY <3>6 DEF Query
          <5>2. /\ req' = [req EXCEPT ![q] = Answered(q, fails)]
                /\ Answered(q, fails).at = "assign" /\ Seen(k, fails) \in Row
                /\ Answered(q, fails).got = Loaded(k, Seen(k, fails), req[q].got)
            BY <1>0, <2>0, <3>6, QueryStep
          <5>3. req'[q] = Answered(q, fails)
            BY <1>0, <5>2 DEF TypeOK
          <5> QED
            BY <5>1, <5>2, <5>3
        <4>2. req[q].got = mem[k] /\ Fixed(k, mem[k])
          BY <1>0, <3>0, <4>1 DEF Harmless, FieldsAreFixed
        <4>3. ASSUME req[q].op = "delete", mem[k] # "wrapped"
              PROVE  req'[q].got = mem[k]
          <5>1. ~Seen(k, fails).there
            BY <1>0, <3>0, <4>1, <4>3 DEF Harmless, Seen, TypeOK, Row
          <5> QED
            BY <4>1, <4>2, <4>3, <5>1, NothingLoaded
        <4> QED
          BY <3>0, <3>2, <4>1, <4>3 DEF Harmless
      <3>7. ~WriteFails(q) /\ ~Assign(q)
        BY <1>0, <2>0 DEF WriteFails, Assign, Idle, TypeOK
      <3> QED
        BY <1>3, <3>3, <3>4, <3>5, <3>6, <3>7
    <2> QED
      BY <1>0, <2>0, <2>1, <2>3, <2>4 DEF DeletionsAreHarmless
  <1>4. CASE Restart
    <2>1. \A q \in Requests : req'[q].key = NoKey
      BY <1>4 DEF Restart, Idle
    <2> QED
      BY <1>0, <2>1, ConfigAssumption DEF DeletionsAreHarmless, Alone, At
  <1>5. CASE UNCHANGED vars
    <2>1. \A k \in Keys : k \notin overlapped =>
            Alone(k)' /\ \A q \in At(k)' : Harmless(q, k)'
      BY <1>1, <1>5 DEF vars
    <2> QED
      BY <1>0, <1>5, <2>1 DEF vars, DeletionsAreHarmless
  <1> QED
    BY <1>2, <1>3, <1>4, <1>5 DEF Next, Put, Delete, Values

\* Run deleted_default shows one deletion that leaves the old value in memory; that
\* every deletion does, until the next start, for any number of requests, is this.
THEOREM DeletionsWaitForTheRestart == Spec => OnlyPutsChangeMemory
  <1>1. Init => DeletionsAreHarmless
    <2> SUFFICES ASSUME Init PROVE DeletionsAreHarmless
      OBVIOUS
    <2>1. \A q \in Requests : req[q].key = NoKey
      BY DEF Init, Idle
    <2>2. FieldsAreFixed
      BY InitType, IdleType DEF Init, FieldsAreFixed, Fixed, Converted
    <2> QED
      BY <2>1, <2>2, ConfigAssumption DEF DeletionsAreHarmless, Alone, At
  <1>2. ASSUME DeletionsAreHarmless, [Next]_vars, NEW k \in Keys, mem'[k] # mem[k],
               mem[k] # "wrapped", k \notin overlapped, ~Restart
        PROVE  row[k].there /\ \E q \in At(k) : req[q].op = "put" /\ Assign(q)
    <2>1. TypeOK /\ \A q \in At(k) : Harmless(q, k)
      BY <1>2 DEF DeletionsAreHarmless, FieldsAreFixed
    <2>2. PICK q \in Requests : Assign(q)
      BY <1>2
      DEF Next, Put, Delete, Start, Check, Write, WriteFails, Reload, Query, vars
    <2>3. q \in At(k) /\ req[q].at = "assign" /\ mem'[k] = req[q].got
      BY <1>2, <2>1, <2>2 DEF Assign, At, TypeOK
    <2> QED
      BY <1>2, <2>1, <2>2, <2>3 DEF Harmless
  <1>3. DeletionsAreHarmless /\ [Next]_vars =>
          (\A k \in Keys : mem'[k] # mem[k] /\ mem[k] # "wrapped" /\ k \notin overlapped =>
             \/ Restart
             \/ row[k].there /\ \E q \in At(k) : req[q].op = "put" /\ Assign(q))
    BY <1>2
  <1> QED
    BY <1>1, <1>3, DeletionsStayHarmless, PTL DEF Spec, OnlyPutsChangeMemory
=============================================================================
