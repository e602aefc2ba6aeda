--------------------------- MODULE SqliteStatements ---------------------------
(***************************************************************************)
(* The connection of the database server to SQLite: how it opens and       *)
(* closes the database, prepares statements, keeps some of them prepared,  *)
(* binds values, runs them and reads rows.  A call of the delegate runs to *)
(* its end, so the operators take the state of the connection (a db) and   *)
(* return it with what the call comes to.                                  *)
(*                                                                         *)
(* SQLite itself is external: a statement may fail when it runs, and a     *)
(* value can only be bound to one that has been reset.  Every statement    *)
(* with a parameter returns the value bound to it.                         *)
(***************************************************************************)
EXTENDS Integers, Sequences, FiniteSetsExt, SequencesExt

CONSTANTS
  SqlTexts,     \* texts of SQL: sequences of Parts
  Batches,      \* batches: sequences of SqlTexts
  Bindings,     \* values for parameters, among SqlValues
  Limit,        \* how many statements are kept
  Half,         \* half of the 64-bit integers: 2^63
  Exact         \* the integers that a number of JavaScript holds: 2^53

ASSUME StatementsAssumption ==
  /\ {Limit, Half, Exact} \subseteq Nat \ {0} /\ Exact < Half
  /\ \A b \in Batches : Len(b) <= 2

VARIABLES
  db,           \* the connection
  last          \* what the last call has come to, if it was a select

statementVars == <<db, last>>

-----------------------------------------------------------------------------
\* What a text consists of: statements on some table, with a parameter or none.
Parts == [is : {"statement", "explain", "bad"}, params : {0, 1}, table : STRING]

ValueKinds == {"null", "int", "big", "boolean", "fraction", "text", "blob", "other"}
SqlValues == ValueKinds \X Int

\* A batch prepares all of its texts, and the last of them may have two parts.
StatementIds == 1..(Limit + 3)

\* A CommonPreparedStatement and its statement in SQLite ("handle").
Statement ==
  [closed : BOOLEAN, reset : BOOLEAN, params : {0, 1}, explain : BOOLEAN,
   handle : {"none", "ready", "halted"}, bound : Seq(Bindings)]

NoStatement ==
  [closed |-> TRUE, reset |-> TRUE, params |-> 0, explain |-> FALSE,
   handle |-> "none", bound |-> <<>>]

\* The kept statements are in the order of their last use.
Connection ==
  [delegate : {"new", "open", "closed"}, connections : 0..1,
   statement : [StatementIds -> Statement],
   kept : Seq(SqlTexts \X StatementIds), misused : BOOLEAN]

StatementsInit ==
  /\ db = [delegate |-> "new", connections |-> 0,
             statement |-> [i \in StatementIds |-> NoStatement], kept |-> <<>>,
             misused |-> FALSE]
  /\ last = [call |-> "none"]

Ok(h, got) == [db |-> h, fails |-> FALSE, got |-> got]
Error(h, why) == [db |-> h, fails |-> TRUE, got |-> why]

-----------------------------------------------------------------------------
(* Statements *)

KeptIds(h) == {h.kept[i][2] : i \in DOMAIN h.kept}
Unused(h) ==
  CHOOSE i \in StatementIds \ KeptIds(h) : h.statement[i].handle = "none"

Prepared(h, i, part) ==
  [h EXCEPT !.statement[i] =
     [closed |-> FALSE, reset |-> TRUE, params |-> part.params,
      explain |-> part.is = "explain", handle |-> "ready", bound |-> <<>>]]

\* A call of SQLite with a statement that is finalized.
Touched(h, i) ==
  IF h.statement[i].handle = "none" THEN [h EXCEPT !.misused = TRUE] ELSE h

\* a plausible mistake: a statement that has run to its end needs no reset
ResetIfUsed(h, i) == [h EXCEPT !.statement[i].reset = TRUE]
Reset(h, i) ==
  IF h.statement[i].reset THEN h
  ELSE [Touched(h, i) EXCEPT !.statement[i].reset = TRUE,
                             !.statement[i].handle = "ready"]

CloseStatement(h, i) ==
  IF h.statement[i].closed THEN h
  ELSE [Touched(Reset(h, i), i) EXCEPT !.statement[i] = NoStatement]

CloseAll(h, ids) == FoldLeft(CloseStatement, h, ids)

\* The text has one statement only; one more, or an error, closes the first.
Prepare(h, text) ==
  CASE text = <<>> -> Error(h, "no statement")
    [] text # <<>> /\ text[1].is = "bad" -> Error(h, "sqlite")
    [] text # <<>> /\ text[1].is # "bad" ->
         LET i == Unused(h)
             one == Prepared(h, i, text[1])
             j == Unused(one)
         IN  CASE Len(text) = 1 -> Ok(one, i)
               [] Len(text) > 1 /\ text[2].is = "bad" ->
                    Error(CloseStatement(one, i), "trailing data")
               [] Len(text) > 1 /\ text[2].is # "bad" ->
                    Error(CloseAll(Prepared(one, j, text[2]), <<i, j>>),
                          "trailing statement")

-----------------------------------------------------------------------------
(* SqlValues *)

\* Numbers are taken modulo 2^64; only a BigInt is checked.
Wrapped(n) == ((n + Half) % (2 * Half)) - Half
CanBind(v) ==
  /\ v[1] # "other"
  /\ v[1] = "big" => v[2] \in (-Half)..(Half - 1)

\* What SQLite holds of a value, and what is read from a column.
Stored(v) ==
  CASE v[1] \in {"int", "big", "boolean"} -> <<"integer", Wrapped(v[2])>>
    [] v[1] \notin {"int", "big", "boolean"} -> v

ReadColumn(s) ==
  IF s[1] = "integer"
  THEN IF s[2] \in (-Exact)..Exact THEN <<"int", s[2]>> ELSE <<"big", s[2]>>
  ELSE s

\* A value cannot be bound before a statement is reset.
Bind(h, i, args) ==
  CASE Len(args) # h.statement[i].params -> Error(h, "parameters")
    [] Len(args) = h.statement[i].params /\ args = <<>> -> Ok(h, 0)
    [] Len(args) = h.statement[i].params /\ args # <<>> ->
         CASE ~CanBind(args[1]) -> Error(h, "value")
           [] CanBind(args[1]) /\ h.statement[i].handle # "ready" ->
                Error(Touched(h, i), "misuse")
           [] CanBind(args[1]) /\ h.statement[i].handle = "ready" ->
                Ok([h EXCEPT !.statement[i].bound = args], 0)

\* It runs to its end, or until SQLite fails.
Step(h, i, fails) ==
  LET stepped == [Touched(h, i) EXCEPT !.statement[i].reset = FALSE,
                                       !.statement[i].handle = "halted"]
      bound == h.statement[i].bound
  IN  IF fails THEN Error(stepped, "sqlite")
      ELSE Ok(stepped, [n \in DOMAIN bound |-> ReadColumn(Stored(bound[n]))])

Execute(h, i, args, fails) ==
  IF h.statement[i].closed \/ h.delegate = "closed" THEN Error(h, "released")
  ELSE LET bound == Bind(Reset(h, i), i, args)
       IN  IF bound.fails THEN bound ELSE Step(bound.db, i, fails)

-----------------------------------------------------------------------------
(* Statements that are kept *)

KeptAt(h, text) == {p \in DOMAIN h.kept : h.kept[p][1] = text}

DropOldest(h) == [CloseStatement(h, h.kept[1][2]) EXCEPT !.kept = Tail(@)]

\* The statement for a text, and whether it is kept.
Look(h, text) ==
  IF KeptAt(h, text) # {}
  THEN LET p == CHOOSE p \in KeptAt(h, text) : TRUE
       IN  Ok([h EXCEPT !.kept = Append(RemoveAt(@, p), @[p])],
              [id |-> h.kept[p][2], kept |-> TRUE])
  ELSE LET new == Prepare(h, text)
           i == new.got
           room == IF Len(h.kept) = Limit THEN DropOldest(new.db) ELSE new.db
       IN  CASE new.fails -> new
             [] ~new.fails /\ text[1].is = "explain" ->
                  Ok(new.db, [id |-> i, kept |-> FALSE])
             [] ~new.fails /\ text[1].is # "explain" ->
                  Ok([room EXCEPT !.kept = Append(@, <<text, i>>)],
                     [id |-> i, kept |-> TRUE])

\* With a statement that is not kept closed in the end, whatever it came to.
Using(h, text, args, fails) ==
  LET found == Look(h, text)
      done == Execute(found.db, found.got.id, args, fails)
  IN  CASE found.fails -> found
        [] ~found.fails /\ found.got.kept -> done
        [] ~found.fails /\ ~found.got.kept ->
             [done EXCEPT !.db = CloseStatement(@, found.got.id)]

-----------------------------------------------------------------------------
(* Calls *)

ComesTo(outcome) == db' = outcome.db /\ last' = [call |-> "done"]

\* WasmDatabase.open: a connection that cannot be set up is closed again.
OpenDatabase ==
  /\ db.delegate = "new"
  /\ \/ ComesTo(Ok([db EXCEPT !.delegate = "open", !.connections = @ + 1], 0))
     \/ ComesTo(Error(db, "sqlite"))

\* The user version is read with a statement of its own.
ReadVersion ==
  /\ db.delegate = "open"
  /\ \E fails \in BOOLEAN :
       LET i == Unused(db)
           h == Prepared(db, i, [is |-> "statement", params |-> 0, table |-> "pragma"])
           read == Execute(h, i, <<>>, fails)
       IN  ComesTo([read EXCEPT !.db = CloseStatement(@, i)])

\* runCustom, runInsert, runUpdate: without arguments SQLite runs the text.
RunText ==
  /\ db.delegate = "open"
  /\ \E text \in SqlTexts, fails \in BOOLEAN :
       ComesTo(IF fails \/ \E p \in DOMAIN text : text[p].is = "bad"
            THEN Error(db, "sqlite") ELSE Ok(db, <<>>))

RunWith ==
  /\ db.delegate = "open"
  /\ \E text \in SqlTexts, v \in Bindings, fails \in BOOLEAN :
       ComesTo(Using(db, text, <<v>>, fails))

Select ==
  /\ db.delegate = "open"
  /\ \E text \in SqlTexts, args \in {<<>>} \cup {<<v>> : v \in Bindings},
        fails \in BOOLEAN :
       LET outcome == Using(db, text, args, fails)
       IN  /\ db' = outcome.db
           /\ last' = [call |-> "select", text |-> text, args |-> args,
                       fails |-> outcome.fails, got |-> outcome.got]

\* runBatched: all texts are prepared, then all runs are made, until an error;
\* all are closed in the end.
PrepareEach(h, texts) ==
  FoldLeft(LAMBDA so, text :
             IF so.fails THEN so
             ELSE LET new == Prepare(so.db, text)
                  IN  IF new.fails THEN Error(CloseAll(new.db, so.got), new.got)
                      ELSE Ok(new.db, Append(so.got, new.got)),
           Ok(h, <<>>), texts)

RunEach(h, ids, runs, args, fails) ==
  FoldLeft(LAMBDA so, run :
             IF so.fails THEN so
             ELSE LET done == Execute(so.db, ids[run], args, fails)
                  IN  IF done.fails THEN done ELSE Ok(done.db, <<>>),
           Ok(h, <<>>), runs)

RunBatch ==
  /\ db.delegate = "open"
  /\ \E texts \in Batches, fails \in BOOLEAN :
       \E runs \in SeqOf(DOMAIN texts, 2),
          args \in {<<>>, <<CHOOSE v \in Bindings : CanBind(v)>>} :
         LET prepared == PrepareEach(db, texts)
             done == RunEach(prepared.db, prepared.got, runs, args, fails)
         IN  ComesTo(IF prepared.fails THEN prepared
                  ELSE [done EXCEPT !.db = CloseAll(@, prepared.got)])

\* SQLite keeps a connection for as long as it has statements.
CloseDatabase ==
  /\ db.delegate = "open"
  /\ LET closed == CloseAll(db, [p \in DOMAIN db.kept |-> db.kept[p][2]])
         alive == \E i \in StatementIds : closed.statement[i].handle # "none"
     IN  ComesTo(Ok([closed EXCEPT !.kept = <<>>, !.delegate = "closed",
                                !.connections = IF alive THEN @ ELSE @ - 1], 0))

StatementsNext ==
  \/ OpenDatabase \/ ReadVersion \/ RunText \/ RunWith \/ Select \/ RunBatch
  \/ CloseDatabase

StatementsSpec == StatementsInit /\ [][StatementsNext]_statementVars

-----------------------------------------------------------------------------
(* Properties *)

\* The state of the connection.
StatementsTypeOK ==
  /\ db \in Connection
  /\ last.call \in {"none", "select", "done"}

\* Between two calls exactly the statements that are kept, one for each text
\* and no more than the limit, are alive in SQLite, and none was used that was
\* finalized; a closed database leaves no connection that would hold the file.
NoneLost ==
  /\ ~db.misused
  /\ {i \in StatementIds : db.statement[i].handle # "none"} = KeptIds(db)
  /\ Len(db.kept) <= Limit
  /\ \A p, q \in DOMAIN db.kept :
       db.kept[p][1] = db.kept[q][1] \/ db.kept[p][2] = db.kept[q][2] => p = q
  /\ db.delegate = "closed" => db.connections = 0

\* What a value counts as, when it is compared.
Amount(v) == IF v[1] \in {"int", "big", "boolean"} THEN <<"number", v[2]>> ELSE v

\* A select comes to the values bound by that call, whatever its statement was
\* used for before; it fails only with an error of SQLite or a wrong call.  (A
\* number beyond 64 bits is not what comes back: only BigInts are checked.)
AsAsked ==
  last.call = "select" =>
    IF last.fails
    THEN \/ last.got = "sqlite"
         \/ Len(last.text) # 1
         \/ last.text[1].params # Len(last.args)
         \/ \E n \in DOMAIN last.args : ~CanBind(last.args[n])
    ELSE /\ Len(last.got) = Len(last.args)
         /\ \A n \in DOMAIN last.args :
              Wrapped(last.args[n][2]) = last.args[n][2]
                => Amount(last.got[n]) = Amount(last.args[n])

StatementsKept == NoneLost /\ AsAsked
=============================================================================
