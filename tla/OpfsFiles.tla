------------------------------ MODULE OpfsFiles ------------------------------
(***************************************************************************)
(* The file system of the web worker that keeps its files in the origin    *)
(* private file system.  SQLite runs in one worker of a tab and calls      *)
(* synchronously; a second worker, the file system server, makes the       *)
(* asynchronous calls to the browser.  The two share two cells, a request  *)
(* and an answer, on which they wait.  Each tab has such a pair.           *)
(*                                                                         *)
(* The browser gives the access handle of a file to one tab at a time.  A  *)
(* server opens it when it needs it and takes note of handles that were    *)
(* opened without a lock: these it lets go when it has nothing to do.      *)
(*                                                                         *)
(* The module follows one file, the database.                              *)
(***************************************************************************)
EXTENDS Naturals

CONSTANTS
  Tabs,       \* the tabs that have the database open, or are about to
  Attempts,   \* how often a server asks for a handle before it gives up
  MaxCalls    \* bound on the calls of all tabs

\* Who has the handle when no tab has it.
Nobody == "nobody"

ASSUME OpfsAssumption ==
  Attempts \in Nat \ {0} /\ MaxCalls \in Nat /\ Nobody \notin Tabs

VARIABLES
  client,     \* of a tab: "idle", "waits" for an answer, or "gone"
  opened,     \* whether SQLite has the file open
  locked,     \* whether SQLite believes it has locked the file
  level,      \* whether the lock level of the file object is set
  call,       \* the last call of SQLite
  calls,      \* how many calls were made
  request,    \* the cell of the request
  answer,     \* the cell of the answer
  server,     \* what the server is doing
  attempt,    \* how often it has asked for the handle
  handle,     \* the tab that has the access handle
  implicit,   \* the tabs whose handle is noted as opened without a lock
  explicit,   \* the tabs whose handle is marked as locked
  held,       \* the tabs whose server had the handle for the locked file
  paused,     \* those whose server was idle or told the size since
  overtaken   \* those the file has changed for since, by another tab

opfsVars == <<client, opened, locked, level, call, calls, request, answer, server,
              attempt, handle, implicit, explicit, held, paused, overtaken>>

clientVars == <<client, opened, locked, level, call, calls>>
handleVars == <<handle, implicit, explicit>>
ghostVars == <<held, paused, overtaken>>

-----------------------------------------------------------------------------
None == "none"

Access == {"read", "write", "size", "truncate"}
Calls == Access \cup {"open", "sync", "sleep", "lock", "unlock", "close", "stop"}

OpfsInit ==
  /\ client = [t \in Tabs |-> "idle"]
  /\ opened = [t \in Tabs |-> FALSE]
  /\ locked = [t \in Tabs |-> FALSE]
  /\ level = [t \in Tabs |-> FALSE]
  /\ call = [t \in Tabs |-> None]
  /\ calls = 0
  /\ request = [t \in Tabs |-> None]
  /\ answer = [t \in Tabs |-> None]
  /\ server = [t \in Tabs |-> "waits"]
  /\ attempt = [t \in Tabs |-> 0]
  /\ handle = Nobody
  /\ implicit = {} /\ explicit = {}
  /\ held = {} /\ paused = {} /\ overtaken = {}

ServerGoes(t, pc) == server' = [server EXCEPT ![t] = pc]

\* What is followed of a tab ends with the unlock of the file.
Unheld(t) ==
  /\ held' = held \ {t}
  /\ paused' = paused \ {t}
  /\ overtaken' = overtaken \ {t}

-----------------------------------------------------------------------------
(* SQLite *)

\* SQLite reads the head of a file it opens, and locks it for all else.  A lock
\* is asked for while the level of the file object is not set, an unlock while
\* it is.
MayCall(t, c) ==
  CASE c \in {"open", "stop"} -> ~opened[t]
    [] c = "lock" -> opened[t] /\ ~level[t]
    [] c = "unlock" -> level[t]
    [] c = "close" -> opened[t] /\ ~locked[t]
    [] c \in {"read", "sleep"} -> opened[t]
    [] OTHER -> locked[t]

\* The message is in the shared buffer, the answer is cleared, the request is
\* set: the server looks at the request alone.
Call(t, c) ==
  /\ client[t] = "idle" /\ MayCall(t, c)
  /\ calls < MaxCalls
  /\ calls' = calls + 1
  /\ client' = [client EXCEPT ![t] = "waits"]
  /\ call' = [call EXCEPT ![t] = c]
  /\ answer' = [answer EXCEPT ![t] = None]
  /\ request' = [request EXCEPT ![t] = c]
  /\ UNCHANGED <<opened, locked, level, server, attempt, handleVars, ghostVars>>

\* Once the level is set a lock is no request: SQLite has locked the file and
\* the server knows nothing of it.
LockAgain(t) ==
  /\ client[t] = "idle" /\ level[t] /\ ~locked[t]
  /\ calls < MaxCalls
  /\ calls' = calls + 1
  /\ locked' = [locked EXCEPT ![t] = TRUE]
  /\ UNCHANGED <<client, opened, level, call, request, answer, server, attempt,
                 handleVars, ghostVars>>

\* Whether the file is locked and open is what SQLite makes of the answer.  An
\* unlock leaves the level of the file object; a file that is opened has a new
\* one.
Return(t) ==
  LET ok == answer[t] = "ok"
      c == call[t]
  IN  /\ client[t] = "waits" /\ answer[t] # None
      /\ client' = [client EXCEPT ![t] = IF c = "stop" THEN "gone" ELSE "idle"]
      /\ opened' = [opened EXCEPT ![t] = IF ~ok THEN @ ELSE c = "open" \/
                                           (@ /\ c # "close")]
      /\ locked' = [locked EXCEPT ![t] = IF ~ok THEN @ ELSE c = "lock" \/
                                           (@ /\ c # "unlock")]
      /\ level' = [level EXCEPT ![t] = IF ~ok THEN @ ELSE c = "lock" \/
                                         (@ /\ c # "close")]
      /\ call' = [call EXCEPT ![t] = None]
      /\ UNCHANGED <<calls, request, answer, server, attempt, handleVars, ghostVars>>

\* The browser ends the workers of a tab and closes its handle.
CloseTab(t) ==
  /\ client[t] # "gone"
  /\ client' = [client EXCEPT ![t] = "gone"]
  /\ ServerGoes(t, "ended")
  /\ handle' = IF handle = t THEN Nobody ELSE handle
  /\ implicit' = implicit \ {t} /\ explicit' = explicit \ {t}
  /\ opened' = [opened EXCEPT ![t] = FALSE]
  /\ locked' = [locked EXCEPT ![t] = FALSE]
  /\ level' = [level EXCEPT ![t] = FALSE]
  /\ call' = [call EXCEPT ![t] = None]
  /\ request' = [request EXCEPT ![t] = None]
  /\ answer' = [answer EXCEPT ![t] = None]
  /\ attempt' = [attempt EXCEPT ![t] = 0]
  /\ Unheld(t)
  /\ UNCHANGED calls

-----------------------------------------------------------------------------
(* Handles *)

\* _closeSyncHandle
CloseHandle(t) ==
  /\ handle' = IF handle = t THEN Nobody ELSE handle
  /\ implicit' = implicit \ {t}
  /\ explicit' = IF handle = t THEN explicit \ {t} ELSE explicit

\* _releaseImplicitLock
ReleaseImplicit(t) ==
  IF t \in implicit THEN CloseHandle(t) ELSE UNCHANGED handleVars

Pause(t) == paused' = paused \cup (held' \cap {t})

\* The server resets the request before it carries it out.
Take(t) ==
  /\ server[t] = "waits" /\ request[t] # None
  /\ request' = [request EXCEPT ![t] = None]
  /\ ServerGoes(t, "handles")
  /\ UNCHANGED <<clientVars, answer, attempt, handleVars, ghostVars>>

\* Nothing was asked for in the time the server waits.  A request may be set
\* before the handles are let go.
TimeOut(t) ==
  /\ server[t] = "waits" /\ request[t] = None
  /\ ServerGoes(t, "timed out")
  /\ UNCHANGED <<clientVars, request, answer, attempt, handleVars, ghostVars>>

\* a plausible mistake: the request is reset whatever ended the wait
LetGoResetting(t) ==
  /\ server[t] = "timed out"
  /\ ServerGoes(t, "waits")
  /\ UNCHANGED <<held, overtaken>>
  /\ ReleaseImplicit(t) /\ Pause(t)
  /\ request' = [request EXCEPT ![t] = None]
  /\ UNCHANGED <<clientVars, answer, attempt>>

LetGo(t) ==
  /\ server[t] = "timed out"
  /\ ServerGoes(t, "waits")
  /\ UNCHANGED <<held, overtaken>>
  /\ ReleaseImplicit(t) /\ Pause(t)
  /\ UNCHANGED <<clientVars, request, answer, attempt>>

\* What a call needs no handle for, or does with the one there is.
Handle(t) ==
  /\ server[t] = "handles"
  /\ \/ /\ call[t] \in {"open", "sync"}
        /\ ServerGoes(t, "ok")
        /\ UNCHANGED <<handleVars, ghostVars, attempt>>
     \/ /\ call[t] \in {"sleep", "stop"}
        /\ ServerGoes(t, "ok")
        /\ UNCHANGED <<held, overtaken, attempt>>
        /\ ReleaseImplicit(t) /\ Pause(t)
     \/ /\ call[t] \in {"unlock", "close"}
        /\ ServerGoes(t, "ok")
        /\ CloseHandle(t)
        /\ Unheld(t)
        /\ UNCHANGED attempt
     \/ /\ call[t] \in Access \cup {"lock"}
        /\ ServerGoes(t, IF handle = t THEN "acts" ELSE "opens")
        /\ attempt' = [attempt EXCEPT ![t] = IF handle = t THEN 0 ELSE 1]
        /\ UNCHANGED <<handleVars, ghostVars>>
  /\ UNCHANGED <<clientVars, request, answer>>

\* _openForSynchronousAccess: a handle that is not opened for a locked file is
\* noted.  The lock call opens it before it marks it.
OpenHandle(t) ==
  /\ server[t] = "opens"
  /\ \/ /\ handle = Nobody
        /\ handle' = t
        /\ implicit' = IF t \in explicit THEN implicit ELSE implicit \cup {t}
        /\ ServerGoes(t, "acts")
        /\ attempt' = [attempt EXCEPT ![t] = 0]
        /\ UNCHANGED explicit
     \/ /\ handle # Nobody
        /\ IF attempt[t] = Attempts
           THEN /\ ServerGoes(t, "error")
                /\ attempt' = [attempt EXCEPT ![t] = 0]
           ELSE /\ attempt' = [attempt EXCEPT ![t] = @ + 1]
                /\ UNCHANGED server
        /\ UNCHANGED handleVars
  /\ UNCHANGED <<clientVars, request, answer, ghostVars>>

\* The tab, when it has the file locked.
Locker(t) == IF locked[t] THEN {t} ELSE {}

\* a plausible mistake: a read lets the handle go as a size does
ActLettingGo(t) ==
  /\ server[t] = "acts"
  /\ ServerGoes(t, "ok")
  /\ \/ /\ call[t] = "lock"
        /\ explicit' = explicit \cup {t}
        /\ held' = held \cup {t}
        /\ paused' = paused \ {t} /\ overtaken' = overtaken \ {t}
        /\ UNCHANGED <<handle, implicit>>
     \/ /\ call[t] \in Access
        /\ held' = held \cup Locker(t)
        /\ overtaken' = IF call[t] \in {"write", "truncate"}
                        THEN overtaken \cup (held \ {t}) ELSE overtaken
        /\ IF call[t] \in {"size", "truncate", "read"}
           THEN /\ ReleaseImplicit(t)
                /\ IF call[t] = "read" THEN UNCHANGED paused ELSE Pause(t)
           ELSE UNCHANGED <<handleVars, paused>>
  /\ UNCHANGED <<clientVars, request, answer, attempt>>

\* A size and a truncation let a handle go that is noted.
Act(t) ==
  /\ server[t] = "acts"
  /\ ServerGoes(t, "ok")
  /\ \/ /\ call[t] = "lock"
        /\ explicit' = explicit \cup {t}
        /\ held' = held \cup {t}
        /\ paused' = paused \ {t} /\ overtaken' = overtaken \ {t}
        /\ UNCHANGED <<handle, implicit>>
     \/ /\ call[t] \in Access
        /\ held' = held \cup Locker(t)
        /\ overtaken' = IF call[t] \in {"write", "truncate"}
                        THEN overtaken \cup (held \ {t}) ELSE overtaken
        /\ IF call[t] \in {"size", "truncate"}
           THEN ReleaseImplicit(t) /\ Pause(t)
           ELSE UNCHANGED <<handleVars, paused>>
  /\ UNCHANGED <<clientVars, request, answer, attempt>>

Reply(t) ==
  /\ server[t] \in {"ok", "error"}
  /\ answer' = [answer EXCEPT ![t] = server[t]]
  /\ ServerGoes(t, IF call[t] = "stop" THEN "ended" ELSE "waits")
  /\ UNCHANGED <<clientVars, request, attempt, handleVars, ghostVars>>

-----------------------------------------------------------------------------
ServerAct(t) ==
  Take(t) \/ LetGo(t) \/ Handle(t) \/ OpenHandle(t) \/ Act(t) \/ Reply(t)

OpfsNext ==
  \E t \in Tabs :
    \/ \E c \in Calls : Call(t, c)
    \/ LockAgain(t) \/ Return(t) \/ CloseTab(t) \/ TimeOut(t) \/ ServerAct(t)

OpfsSpec == OpfsInit /\ [][OpfsNext]_opfsVars

OpfsFairness ==
  \A t \in Tabs : WF_opfsVars(ServerAct(t)) /\ WF_opfsVars(Return(t))

-----------------------------------------------------------------------------
(* Properties *)

\* The state of SQLite, of the cells and of the server of each tab.  Every
\* handle that is open is noted as opened without a lock: the note is made
\* before the lock is marked and nothing takes it back.
OpfsTypeOK ==
  /\ client \in [Tabs -> {"idle", "waits", "gone"}]
  /\ opened \in [Tabs -> BOOLEAN]
  /\ locked \in [Tabs -> BOOLEAN] /\ level \in [Tabs -> BOOLEAN]
  /\ call \in [Tabs -> Calls \cup {None}]
  /\ calls \in 0..MaxCalls
  /\ request \in [Tabs -> Calls \cup {None}]
  /\ answer \in [Tabs -> {None, "ok", "error"}]
  /\ server \in [Tabs -> {"waits", "timed out", "handles", "opens", "acts",
                          "ok", "error", "ended"}]
  /\ attempt \in [Tabs -> 0..Attempts]
  /\ handle \in Tabs \cup {Nobody}
  /\ implicit = Tabs \cap {handle}
  /\ explicit \subseteq implicit
  /\ held \subseteq Tabs
  /\ paused \cup overtaken \subseteq held

\* What a tab has had of the file since SQLite locked it no other tab changes
\* before the unlock, unless the server of the first was idle, slept, or was
\* asked for the size or a truncation since: these let the handle go although
\* the file is locked.  The first lock of a file object takes the handle; the
\* later ones ask for nothing, so they hold from the first access to the file.
LocksHold == held \cap overtaken \subseteq paused

CallWaits(t) == client[t] = "waits"

\* Every call returns to SQLite: no request is lost between the two cells,
\* whenever the server times out, and a server that cannot have the handle
\* gives up.
CallsReturn == \A t \in Tabs : CallWaits(t) ~> ~CallWaits(t)
=============================================================================
