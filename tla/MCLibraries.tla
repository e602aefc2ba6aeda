----------------------------- MODULE MCLibraries -----------------------------
(* An instance for TLC of what the web worker and the tabs are built on:   *)
(* futures, streams, broadcasts and collections of Dart, the channel and   *)
(* the messages on it, SQLite's statements and files, and the search for   *)
(* databases.  They share no state, so each behaviour runs one.            *)
EXTENDS DartFutures, DartStreams, DartBroadcasts, DartCollections, PortChannels,
        DriftMessages, SqliteStatements, MemoryFiles, FixedFiles, IndexedDbProbes, OpfsListing

VARIABLE part

languageVars == <<futureVars, streamVars, broadcastVars, collectionVars>>
wireVars == <<channelVars, packet>>
sqliteVars == <<statementVars, memoryVars, fixedVars>>
searchVars == <<probesVars, listingVars>>
mcVars == <<languageVars, wireVars, sqliteVars, searchVars, part>>

Part(p) == part = p /\ UNCHANGED part
RunsFutures ==
  /\ Part("futures")
  /\ UNCHANGED <<streamVars, broadcastVars, collectionVars, wireVars, sqliteVars,
                 searchVars>>
RunsStreams ==
  /\ Part("streams")
  /\ UNCHANGED <<futureVars, broadcastVars, collectionVars, wireVars, sqliteVars,
                 searchVars>>
RunsBroadcasts ==
  /\ Part("broadcasts")
  /\ UNCHANGED <<futureVars, streamVars, collectionVars, wireVars, sqliteVars,
                 searchVars>>
RunsCollections ==
  /\ Part("collections")
  /\ UNCHANGED <<futureVars, streamVars, broadcastVars, wireVars, sqliteVars,
                 searchVars>>
RunsChannels ==
  /\ Part("channels") /\ UNCHANGED <<languageVars, packet, sqliteVars, searchVars>>
RunsMessages ==
  /\ Part("messages")
  /\ UNCHANGED <<languageVars, channelVars, sqliteVars, searchVars>>
RunsStatements ==
  /\ Part("statements")
  /\ UNCHANGED <<languageVars, wireVars, memoryVars, fixedVars, searchVars>>
RunsFiles ==
  /\ Part("files")
  /\ UNCHANGED <<languageVars, wireVars, statementVars, fixedVars, searchVars>>
RunsFixed ==
  /\ Part("fixed")
  /\ UNCHANGED <<languageVars, wireVars, statementVars, memoryVars, searchVars>>
RunsProbes ==
  /\ Part("probes") /\ UNCHANGED <<languageVars, wireVars, sqliteVars, listingVars>>
RunsListing ==
  /\ Part("listing") /\ UNCHANGED <<languageVars, wireVars, sqliteVars, probesVars>>

\* The parts that do not run have one initial state.
MCInit ==
  /\ FuturesInit /\ StreamsInit /\ BroadcastsInit /\ CollectionsInit
  /\ ChannelsInit /\ MessagesInit
  /\ StatementsInit /\ MemoryInit /\ FixedInit /\ ProbesInit /\ ListingInit
  /\ part \in {"futures", "streams", "broadcasts", "collections", "channels", "messages",
               "statements", "files", "fixed", "probes", "listing"}
  /\ part # "streams" => \A choice \in DOMAIN setup : ~setup[choice]
  /\ part # "collections" => subject = "linked"
  /\ part # "messages" => packet.version = 4 /\ packet.web

MCSpec ==
  /\ MCInit
  /\ [][\/ RunsFutures /\ FuturesNext
        \/ RunsStreams /\ StreamsNext
        \/ RunsBroadcasts /\ BroadcastsNext
        \/ RunsCollections /\ CollectionsNext
        \/ RunsChannels /\ ChannelsNext
        \/ RunsMessages /\ MessagesNext
        \/ RunsStatements /\ StatementsNext
        \/ RunsFiles /\ MemoryNext
        \/ RunsFixed /\ FixedNext
        \/ RunsProbes /\ ProbesNext
        \/ RunsListing /\ ListingNext]_mcVars

\* The state of all parts.
TypesOK ==
  CASE part = "futures" -> FuturesTypeOK
    [] part = "streams" -> StreamsTypeOK
    [] part = "broadcasts" -> BroadcastsTypeOK
    [] part = "collections" -> CollectionsTypeOK
    [] part = "channels" -> ChannelsTypeOK
    [] part = "messages" -> MessagesTypeOK
    [] part = "statements" -> StatementsTypeOK
    [] part = "files" -> MemoryTypeOK
    [] part = "fixed" -> FixedTypeOK
    [] part = "probes" -> ProbesTypeOK
    [] part = "listing" -> ListingTypeOK

\* Who waits for something to happen is called when it does, in order and once,
\* FuturesTell, StreamsDeliver and BroadcastReaches, and what goes through a
\* collection sees all of it or fails: CollectionsHold.
DartHolds ==
  FuturesTell /\ StreamsDeliver /\ BroadcastReaches /\ CollectionsHold

\* What one side says is what the other hears: ChannelsDeliver of the order of
\* messages, MessagesSurvive of what is in them.
WireHolds == ChannelsDeliver /\ MessagesSurvive

\* Statements and files are as SQLite was told, StatementsKept and FilesHold,
\* and files that are kept open show the last commit: LastCommitFound.
SqliteHolds == StatementsKept /\ FilesHold /\ LastCommitFound

\* Looking for databases finds those that are there and changes nothing:
\* ProbesLeaveNoTrace and ListsDatabases.
SearchHolds == ProbesLeaveNoTrace /\ ListsDatabases

-----------------------------------------------------------------------------
\* Texts of SQL: on the table t without and with a parameter, on another table,
\* one that explains, and one with something behind it that does not parse.
S(n) == [is |-> "statement", params |-> n, table |-> "t"]
U == [is |-> "statement", params |-> 1, table |-> "u"]
X == [is |-> "explain", params |-> 1, table |-> "t"]
B == [is |-> "bad", params |-> 0, table |-> "t"]

MCTexts == {<<S(0)>>, <<S(1)>>, <<U>>, <<X>>, <<S(1), B>>}
MCBatches ==
  {<<<<S(1)>>, <<S(0)>>>>, <<<<U>>, <<S(1), S(0)>>>>, <<<<X>>>>, <<<<S(1)>>, <<S(1), B>>>>}
\* Two of the keys share a bucket.
MCKeys ==
  {<<"text", 1, 1>>, <<"small", 1, 2>>, <<"other", 1, 3>>, <<"other", 1, 4>>}
MCBindings == {<<"int", -5>>, <<"big", -8>>, <<"big", 8>>}
=============================================================================
