---------------------------- MODULE DriftMessages ----------------------------
(***************************************************************************)
(* How the messages between a tab and the database server in the worker    *)
(* cross a port.  There are two protocols: DriftProtocol makes flat lists, *)
(* WebProtocol objects that the browser can clone, with values tagged that *)
(* it would change.  The worker takes the new one if it knows it or if the *)
(* tab is older than the choice.                                           *)
(*                                                                         *)
(* A JavaScript value is a tuple of its kind and what it holds.            *)
(***************************************************************************)
EXTENDS Naturals, Sequences, SequencesExt, Functions

CONSTANTS
  Columns,      \* names of columns
  Texts,        \* statements, table names and error texts
  Args,         \* values of variables, among Values
  MaxArgs,      \* bound on the values in a list
  MaxRows       \* bound on statements, rows and tables in a message

ASSUME MessagesAssumption == {MaxArgs, MaxRows} \subseteq Nat

VARIABLES
  packet        \* a message on its way

-----------------------------------------------------------------------------
(* JavaScript values, as the browser clones them *)

Null == <<"null">>
Num(n) == <<"number", n>>
Str(s) == <<"string", s>>
Bool(b) == <<"boolean", b>>
List(items) == <<"array", items>>
Object(fields) == <<"object", fields>>
IsNull(w) == w[1] = "null"
Content(w) == w[2]
Item(w, i) == w[2][i + 1]

\* The values of SQL: integers and texts are what they are in JavaScript, a
\* fraction is a number as well, a blob a Uint8Array, and an integer of more
\* than 53 bits a BigInt of Dart, which cannot be cloned.
Values ==
  {Null} \cup ({"number", "fraction", "bytes", "big"} \X {0}) \cup {Str("1")}

-----------------------------------------------------------------------------
(* Values *)

\* DriftProtocol._encodeDbValue, _decodeDbValue
NativeValue(v) == IF v[1] = "big" THEN List(<<Str("bigint"), Str(Content(v))>>) ELSE v
NativeRead(w) ==
  IF w[1] = "array"
  THEN IF Len(Content(w)) = 2 /\ Item(w, 0) = Str("bigint")
       THEN <<"big", Content(Item(w, 1))>> ELSE <<"bytes", Content(w)>>
  ELSE w

\* WebProtocol._encodeDbValue, _decodeDbValue
WebValue(v) ==
  CASE v[1] = "fraction" -> List(<<Num(15), v>>)
    [] v[1] = "big" -> List(<<Num(14), Str(Content(v))>>)
    [] v[1] \notin {"fraction", "big"} -> v
WebRead(w) ==
  CASE w[1] = "array" /\ Len(Content(w)) # 2 -> <<"undefined">>
    [] w[1] = "array" /\ Len(Content(w)) = 2 ->
         IF Item(w, 0) = Num(14) THEN <<"big", Content(Item(w, 1))>> ELSE Item(w, 1)
    [] w[1] = "fraction" -> <<"undefined">>
    [] w[1] \notin {"array", "fraction"} -> w

\* A value as the one or the other protocol writes and reads it.
Encoded(v, web) == IF web THEN WebValue(v) ELSE NativeValue(v)
Decoded(w, web) == IF web THEN WebRead(w) ELSE NativeRead(w)

Each(Encode(_), items) == [i \in DOMAIN items |-> Encode(items[i])]

-----------------------------------------------------------------------------
(* Requests *)

Methods == <<"custom", "deleteOrUpdate", "insert", "select">>
Controls == <<"beginTransaction", "commit", "rollback", "startExclusive", "endExclusive">>
Kinds == <<"insert", "update", "delete">>
Dialects == {"sqlite", "mysql", "postgres", "duckdb", "mariadb"}
Place(names, name) == Num((CHOOSE i \in DOMAIN names : names[i] = name) - 1)
Named(names, w) == names[Content(w) + 1]

ListOf(m, web) ==
  LET Encode(v) == Encoded(v, web) IN
  CASE m.type = "terminateAll" -> Num(0)
    [] m.type = "query" ->
         List(<<Num(3), Place(Methods, m.method), Str(m.sql),
                List(Each(Encode, m.args)), m.executor>>)
    [] m.type = "batch" ->
         List(<<Num(4), List(Each(Str, m.statements))>>
              \o [i \in DOMAIN m.runs |->
                    List(<<Num(m.runs[i][1])>> \o Each(Encode, m.runs[i][2]))]
              \o <<m.executor>>)
    [] m.type = "transaction" -> List(<<Num(5), Place(Controls, m.control), m.executor>>)
    [] m.type = "ensureOpen" -> List(<<Num(6), m.version, m.executor>>)
    [] m.type = "beforeOpen" -> List(<<Num(7), m.before, m.now, m.executor>>)
    [] m.type = "tablesUpdated" ->
         List(<<Num(8)>> \o
              [i \in DOMAIN m.tables |->
                 List(<<Str(m.tables[i][1]),
                        IF m.tables[i][2] = "any" THEN Null
                        ELSE Place(Kinds, m.tables[i][2])>>)])
    [] m.type = "cancel" -> List(<<Num(12), m.id>>)
    [] m.type = "serverInfo" -> List(<<Num(13), Str(m.dialect)>>)
    [] m.type = "nothing" -> Null

\* The last of a batch is its executor, those between are its runs.
Runs(w, web) ==
  LET Read(v) == Decoded(v, web) IN
  [i \in 1..(Len(Content(w)) - 3) |->
     LET run == Content(Item(w, i + 1))
     IN  <<Content(run[1]), Each(Read, Tail(run))>>]

ReadRequest(w, web) ==
  CASE IsNull(w) -> [type |-> "nothing"]
    [] w[1] = "number" -> [type |-> "terminateAll"]
    [] w[1] = "array" ->
         LET tag == Content(Item(w, 0))
             At(i) == Item(w, i)
             Read(v) == Decoded(v, web)
         IN  CASE tag = 3 ->
                    [type |-> "query", method |-> Named(Methods, At(1)),
                     sql |-> Content(At(2)), args |-> Each(Read, Content(At(3))),
                     executor |-> At(4)]
               [] tag = 4 ->
                    [type |-> "batch", statements |-> Each(Content, Content(At(1))),
                     runs |-> Runs(w, web), executor |-> Last(Content(w))]
               [] tag = 5 ->
                    [type |-> "transaction", control |-> Named(Controls, At(1)),
                     executor |-> At(2)]
               [] tag = 6 ->
                    [type |-> "ensureOpen", version |-> At(1), executor |-> At(2)]
               [] tag = 7 ->
                    [type |-> "beforeOpen", before |-> At(1), now |-> At(2),
                     executor |-> At(3)]
               [] tag = 8 ->
                    [type |-> "tablesUpdated",
                     tables |-> [i \in 1..(Len(Content(w)) - 1) |->
                       <<Content(Item(At(i), 0)),
                         IF IsNull(Item(At(i), 1)) THEN "any"
                         ELSE Named(Kinds, Item(At(i), 1))>>]]
               [] tag = 12 -> [type |-> "cancel", id |-> At(1)]
               [] tag = 13 ->
                    [type |-> "serverInfo",
                     dialect |-> CHOOSE d \in Dialects : Str(d) = At(1)]

-----------------------------------------------------------------------------
(* Results *)

\* A row is read by the names of its columns; of two with the same name by the
\* last.
RowOf(columns, values) ==
  [c \in ToSet(columns) |->
     values[CHOOSE i \in DOMAIN columns :
              /\ columns[i] = c
              /\ \A j \in DOMAIN columns : columns[j] = c => j <= i]]

RowsOf(m) == [i \in DOMAIN m.rows |-> RowOf(m.columns, m.rows[i])]

\* DriftProtocol puts the names and all values in one list, behind their count.
NativeResult(m) ==
  IF m.rows = <<>> THEN List(<<Num(11)>>)
  ELSE List(<<Num(11), Num(Len(m.columns))>> \o Each(Str, m.columns)
            \o <<Num(Len(m.rows))>>
            \o FlattenSeq([i \in DOMAIN m.rows |-> Each(NativeValue, m.rows[i])]))

\* a plausible mistake: a row begins at the number of rows
RowsFromCount(w) ==
  LET n == Content(Item(w, 1))
      names == [i \in 1..n |-> Content(Item(w, 1 + i))]
  IN  [r \in 1..Content(Item(w, 2 + n)) |->
         RowOf(names, [i \in 1..n |-> NativeRead(Item(w, 2 + n + (r - 1) * n + i - 1))])]
\* The values of row r begin at 3 + n + r * n.
NativeRows(w) ==
  LET n == Content(Item(w, 1))
      names == [i \in 1..n |-> Content(Item(w, 1 + i))]
  IN  [r \in 1..Content(Item(w, 2 + n)) |->
         RowOf(names, [i \in 1..n |-> NativeRead(Item(w, 3 + n + (r - 1) * n + i - 1))])]

\* WebProtocol has a list of names and a list for each row.
WebResult(m) ==
  IF m.rows = <<>> THEN Object([c |-> List(<<>>), r |-> List(<<>>)])
  ELSE Object([c |-> List(Each(Str, m.columns)),
               r |-> List([i \in DOMAIN m.rows |-> List(Each(WebValue, m.rows[i]))])])

WebRows(w) ==
  LET names == Each(Content, Content(Content(w).c))
  IN  [r \in DOMAIN Content(Content(w).r) |->
         RowOf(names, Each(WebRead, Content(Content(Content(w).r)[r])))]

-----------------------------------------------------------------------------
(* DriftProtocol.serialize, deserialize *)

NativePayload(m) ==
  CASE m.type = "rows" -> NativeResult(m)
    [] m.type = "primitive" /\ m.value[1] = "boolean" -> m.value
    [] m.type = "primitive" /\ m.value[1] = "number" -> List(<<Num(10), m.value>>)
    [] m.type \notin {"rows", "primitive"} -> ListOf(m, FALSE)

NativePayloadRead(w) ==
  CASE w[1] = "boolean" -> [type |-> "primitive", value |-> w]
    [] w[1] = "array" /\ Item(w, 0) = Num(10) ->
         [type |-> "primitive", value |-> Item(w, 1)]
    [] w[1] = "array" /\ Item(w, 0) = Num(11) ->
         [type |-> "rows", rows |-> IF Len(Content(w)) = 1 THEN <<>> ELSE NativeRows(w)]
    [] OTHER -> ReadRequest(w, FALSE)

Serialized(m) ==
  CASE m.is = "request" -> List(<<Num(0), m.id, NativePayload(m.payload)>>)
    [] m.is = "response" -> List(<<Num(1), m.id, NativePayload(m.payload)>>)
    [] m.is = "error" -> List(<<Num(2), m.id, Str(m.error.text), m.stack>>)
    [] m.is = "canceled" -> List(<<Num(3), m.id>>)

Deserialized(w) ==
  LET tag == Content(Item(w, 0))
      id == Item(w, 1)
  IN  CASE tag = 0 -> [is |-> "request", id |-> id,
                       payload |-> NativePayloadRead(Item(w, 2))]
        [] tag = 1 -> [is |-> "response", id |-> id,
                       payload |-> NativePayloadRead(Item(w, 2))]
        [] tag = 2 -> [is |-> "error", id |-> id,
                       error |-> [text |-> Content(Item(w, 2))], stack |-> Item(w, 3)]
        [] tag = 3 -> [is |-> "canceled", id |-> id]

-----------------------------------------------------------------------------
(* WebProtocol.serialize, deserialize *)

WebPayload(m) ==
  CASE m.type = "rows" -> WebResult(m)
    [] m.type = "primitive" -> m.value
    [] m.type \notin {"rows", "primitive"} -> ListOf(m, TRUE)

WebResponseRead(w) ==
  CASE IsNull(w) -> [type |-> "nothing"]
    [] w[1] \in {"boolean", "number"} -> [type |-> "primitive", value |-> w]
    [] w[1] = "object" -> [type |-> "rows", rows |-> WebRows(w)]

\* From version 4 on an error of SQLite keeps its parts.
SqliteError(m) ==
  List(<<m.id, m.stack, Str(m.error.text), m.error.explanation, Num(m.error.code),
         m.error.operation, m.error.statement, 
         IF IsNull(m.error.args) THEN Null ELSE List(Each(WebValue, Content(m.error.args)))>>)

SqliteErrorRead(w) ==
  [is |-> "error", id |-> Item(w, 0), stack |-> Item(w, 1),
   error |-> [text |-> Content(Item(w, 2)), explanation |-> Item(w, 3),
              code |-> Content(Item(w, 4)), operation |-> Item(w, 5),
              statement |-> Item(w, 6),
              args |-> IF IsNull(Item(w, 7)) THEN Null
                       ELSE List(Each(WebRead, Content(Item(w, 7))))]]

IsSqliteError(m) == "code" \in DOMAIN m.error

WebSerialized(m, version) ==
  CASE m.is = "request" ->
         List(<<Num(0), Object([i |-> m.id, p |-> WebPayload(m.payload)])>>)
    [] m.is = "response" ->
         List(<<Num(1), Object([i |-> m.id, p |-> WebPayload(m.payload)])>>)
    [] m.is = "error" ->
         IF IsSqliteError(m) /\ version >= 4 THEN List(<<Num(4), SqliteError(m)>>)
         ELSE List(<<Num(2), List(<<m.id, Str(m.error.text), m.stack>>)>>)
    [] m.is = "canceled" -> List(<<Num(3), m.id>>)

WebDeserialized(w) ==
  LET tag == Content(Item(w, 0))
      q == Item(w, 1)
  IN  CASE tag = 0 -> [is |-> "request", id |-> Content(q).i,
                       payload |-> ReadRequest(Content(q).p, TRUE)]
        [] tag = 1 -> [is |-> "response", id |-> Content(q).i,
                       payload |-> WebResponseRead(Content(q).p)]
        [] tag = 2 -> [is |-> "error", id |-> Item(q, 0),
                       error |-> [text |-> Content(Item(q, 1))], stack |-> Item(q, 2)]
        [] tag = 4 -> SqliteErrorRead(q)
        [] tag = 3 -> [is |-> "canceled", id |-> q]

-----------------------------------------------------------------------------
(* The messages that set up a worker *)

\* ProtocolVersion.negotiate: a number beyond those known counts as the last.
Versions == 0..4
Known(n) == IF n > 4 THEN 4 ELSE n

\* A tab of an older version leaves out what came later.
ServeFields(m) ==
  LET late == [v |-> 1, migrations |-> 2, new_serialization |-> 3]
      fields == [v |-> Num(m.version), migrations |-> Bool(m.migrations),
                 new_serialization |-> Bool(m.newSerialization),
                 storage |-> Str(m.storage), database |-> Str(m.database),
                 initPort |-> m.initPort]
  IN  Restrict(fields, {f \in DOMAIN fields :
                          f \in DOMAIN late => late[f] <= m.version})

\* Existing databases are pairs of a storage and a name.
Existing(m) ==
  List([i \in DOMAIN m.existing |->
          Object([l |-> Str(m.existing[i][1]), n |-> Str(m.existing[i][2])])])
ExistingRead(w) ==
  [i \in DOMAIN Content(w) |-> <<Content(Content(Content(w)[i]).l), Content(Content(Content(w)[i]).n)>>]

SetUp(m) ==
  CASE m.type = "ServeDriftDatabase" -> Object(ServeFields(m))
    [] m.type = "DedicatedWorkerCompatibilityResult" ->
         Object([supportsNestedWorkers |-> Bool(m.can[1]), canAccessOpfs |-> Bool(m.can[2]),
                 supportsSharedArrayBuffers |-> Bool(m.can[3]),
                 supportsIndexedDb |-> Bool(m.indexedDb),
                 indexedDbExists |-> Bool(m.exists[1]), opfsExists |-> Bool(m.exists[2]),
                 existing |-> Existing(m), v |-> Num(m.version)])
    [] m.type = "SharedWorkerCompatibilityResult" ->
         List(<<Bool(m.can[1]), Bool(m.can[2]), Bool(m.can[3]),
                Bool(m.exists[1]), Bool(m.exists[2]), Existing(m), Num(m.version)>>)
    [] m.type = "DeleteDatabase" -> List(<<Str(m.storage), Str(m.database)>>)
    [] m.type = "RequestCompatibilityCheck" -> Str(m.database)

SetUpRead(type, w) ==
  CASE type = "ServeDriftDatabase" ->
         LET p == Content(w)
             version == IF "v" \in DOMAIN p THEN Known(Content(p.v)) ELSE 0
         IN  [type |-> type, version |-> version, storage |-> Content(p.storage),
              database |-> Content(p.database), initPort |-> p.initPort,
              migrations |-> version < 2 \/ Content(p.migrations),
              newSerialization |-> version < 3 \/ Content(p.new_serialization)]
    [] type = "DedicatedWorkerCompatibilityResult" ->
         LET p == Content(w)
         IN  [type |-> type,
              can |-> <<Content(p.supportsNestedWorkers), Content(p.canAccessOpfs),
                        Content(p.supportsSharedArrayBuffers)>>,
              indexedDb |-> Content(p.supportsIndexedDb),
              exists |-> <<Content(p.indexedDbExists), Content(p.opfsExists)>>,
              existing |-> IF "existing" \in DOMAIN p THEN ExistingRead(p.existing)
                           ELSE <<>>,
              version |-> IF "v" \in DOMAIN p THEN Known(Content(p.v)) ELSE 0]
    [] type = "SharedWorkerCompatibilityResult" ->
         LET At(i) == Content(Item(w, i))
         IN  [type |-> type, can |-> <<At(0), At(1), At(2)>>,
              exists |-> <<At(3), At(4)>>,
              existing |-> IF Len(Content(w)) > 5 THEN ExistingRead(Item(w, 5)) ELSE <<>>,
              version |-> IF Len(Content(w)) > 6 THEN Known(At(6)) ELSE 0]
    [] type = "DeleteDatabase" ->
         [type |-> type, storage |-> Content(Item(w, 0)), database |-> Content(Item(w, 1))]
    [] type = "RequestCompatibilityCheck" -> [type |-> type, database |-> Content(w)]

-----------------------------------------------------------------------------
(* Messages, and how they travel *)

ArgLists == SeqOf(Args, MaxArgs)
OneText == CHOOSE t \in Texts : TRUE
Executors == {Null, Num(0), Num(1)}

Payloads ==
  [type : {"terminateAll", "nothing"}]
    \cup [type : {"query"}, method : ToSet(Methods), sql : Texts,
          args : ArgLists, executor : Executors]
    \cup [type : {"batch"}, statements : SeqOf(Texts, MaxRows),
          runs : SeqOf({0, 1} \X SeqOf(Args, 1), MaxRows), executor : Executors]
    \cup [type : {"transaction"}, control : ToSet(Controls), executor : Executors]
    \cup [type : {"ensureOpen"}, version : {Num(2)}, executor : Executors]
    \cup [type : {"beforeOpen"}, before : {Null, Num(1)}, now : {Num(2)},
          executor : {Num(0), Num(1)}]
    \cup [type : {"tablesUpdated"},
          tables : SeqOf(Texts \X (ToSet(Kinds) \cup {"any"}), MaxRows)]
    \cup [type : {"cancel"}, id : {Num(0), Num(3)}]
    \cup [type : {"serverInfo"}, dialect : Dialects]

\* All rows of a result have a value for each column.
ResultPayloads ==
  UNION {[type : {"rows"}, columns : [1..n -> Columns],
          rows : SeqOf([1..n -> Args], MaxRows)] : n \in 1..MaxArgs}
    \cup [type : {"primitive"}, value : {Bool(TRUE), Bool(FALSE), Num(0), Num(11)}]
    \cup [type : {"nothing"}]

Errors ==
  [text : {OneText}]
    \cup [text : Texts, explanation : {Null, Str("why")}, code : {19},
          operation : {Null, Str("executing")}, statement : {Null, Str(OneText)},
          position : {Null, Num(3)}, args : {Null} \cup {List(a) : a \in ArgLists}]

Messages ==
  [is : {"request"}, id : {Num(7)}, payload : Payloads]
    \cup [is : {"response"}, id : {Num(7)}, payload : ResultPayloads]
    \cup [is : {"error"}, id : {Num(7)}, error : Errors, stack : {Null, Str("trace")}]
    \cup [is : {"canceled"}, id : {Num(7)}]

SetUps ==
  [type : {"ServeDriftDatabase"}, version : Versions, storage : {"opfsShared", "indexedDb"},
   database : Texts, initPort : {Null, Object(<<>>)}, migrations : BOOLEAN,
   newSerialization : BOOLEAN]
    \cup [type : {"DedicatedWorkerCompatibilityResult"}, can : [1..3 -> BOOLEAN],
          indexedDb : BOOLEAN, exists : [1..2 -> BOOLEAN],
          existing : SeqOf({"opfs", "indexedDb"} \X Texts, 1), version : {4}]
    \cup [type : {"SharedWorkerCompatibilityResult"}, can : [1..3 -> BOOLEAN],
          exists : [1..2 -> BOOLEAN],
          existing : SeqOf({"opfs", "indexedDb"} \X Texts, 2), version : {4}]
    \cup [type : {"DeleteDatabase"}, storage : {"opfs", "indexedDb"}, database : Texts]
    \cup [type : {"RequestCompatibilityCheck"}, database : Texts]

\* version and web say what the connection is set up with.
MessagesInit ==
  packet \in {[at |-> "tab", version |-> v, web |-> TRUE] : v \in Versions}
                \cup {[at |-> "tab", version |-> 4, web |-> FALSE]}

\* DriftCommunication._send
Post ==
  /\ packet.at = "tab"
  /\ \E m \in Messages :
       packet' = [at |-> "port", version |-> packet.version, web |-> packet.web, sent |-> m,
                  wire |-> IF packet.web THEN WebSerialized(m, packet.version)
                           ELSE Serialized(m)]

\* DriftCommunication._handleMessage
ReceiveMessage ==
  /\ packet.at = "port"
  /\ packet' = [at |-> "server", version |-> packet.version, web |-> packet.web,
                sent |-> packet.sent,
                got |-> IF packet.web THEN WebDeserialized(packet.wire)
                        ELSE Deserialized(packet.wire)]

PostSetUp ==
  /\ packet.at = "tab"
  /\ \E m \in SetUps :
       packet' = [at |-> "worker port", sent |-> m, wire |-> SetUp(m)]

ReceiveSetUp ==
  /\ packet.at = "worker port"
  /\ packet' = [at |-> "worker", sent |-> packet.sent,
                got |-> SetUpRead(packet.sent.type, packet.wire)]

MessagesNext == Post \/ ReceiveMessage \/ PostSetUp \/ ReceiveSetUp

MessagesSpec == MessagesInit /\ [][MessagesNext]_packet

-----------------------------------------------------------------------------
(* Properties *)

\* A message is where it is, and is none of those that cannot be cloned.
RECURSIVE CanClone(_)
CanClone(w) ==
  CASE w[1] = "array" -> \A i \in DOMAIN Content(w) : CanClone(Content(w)[i])
    [] w[1] = "object" -> \A f \in DOMAIN Content(w) : CanClone(Content(w)[f])
    [] OTHER -> w[1] \in {"null", "number", "fraction", "string", "boolean", "bytes"}
MessagesTypeOK ==
  /\ packet.at \in {"tab", "port", "server", "worker port", "worker"}
  /\ packet.at \in {"port", "worker port"} => CanClone(packet.wire)

\* What the other side should know of a message: a result is read by the names
\* of its columns, an error is a text unless it is SQLite's and the connection
\* keeps its parts, all but the position in the statement.
Seen(m) ==
  CASE m.is = "response" /\ m.payload.type = "rows" ->
         [m EXCEPT !.payload = [type |-> "rows", rows |-> RowsOf(m.payload)]]
    [] m.is = "error" ->
         [m EXCEPT !.error =
            IF packet.web /\ packet.version >= 4 /\ IsSqliteError(m)
            THEN Restrict(m.error, DOMAIN m.error \ {"position"})
            ELSE [text |-> m.error.text]]
    [] OTHER -> m

SetUpSeen(m) ==
  IF m.type = "ServeDriftDatabase"
  THEN [m EXCEPT !.migrations = @ \/ m.version < 2,
                 !.newSerialization = @ \/ m.version < 3]
  ELSE m

\* Every message arrives as what was sent, over both protocols and whatever
\* values, names and lists it holds; one that sets up a worker also from a tab
\* of an older version, to which the worker grants what it could not say.
MessagesSurvive ==
  /\ packet.at = "server" => packet.got = Seen(packet.sent)
  /\ packet.at = "worker" => packet.got = SetUpSeen(packet.sent)
=============================================================================
