----------------------------- MODULE WorkerChecks -----------------------------
(***************************************************************************)
(* Before a tab opens a database it asks workers what they can do: a       *)
(* dedicated worker of its own, and the worker that all tabs share, which  *)
(* passes the question on to a dedicated worker it has nested.  A          *)
(* dedicated worker tries the access handles of the origin private file    *)
(* system with a file whose name is the same for all of them.              *)
(*                                                                         *)
(* A tab asks about a database of its own, and one worker at a time.  The  *)
(* browser has the file system, so that FALSE is a wrong answer.           *)
(***************************************************************************)
EXTENDS Naturals, Sequences, SequencesExt

CONSTANTS
  Openers,    \* the tabs that are about to open a database
  MaxChecks   \* bound on the questions of all tabs

ASSUME ChecksAssumption ==
  /\ MaxChecks \in Nat
  /\ {"nested", "nobody", "nothing", "error"} \cap Openers = {}

Workers == Openers \cup {"nested"}

VARIABLES
  question,   \* of a tab: "none", or the worker it asks: "own", "shared"
  told,       \* what its last question came to
  checks,     \* how many questions were asked
  probe,      \* whether the file of the detection is there
  prober,     \* the worker that has its access handle
  waiting,    \* of a worker: the questions that wait for its lock
  detection,  \* of a worker: what the detection does next
  outcome,    \* of a worker: whether it could open the handle
  known,      \* of a worker: whether that is kept, once and for all
  ready,      \* of a worker: the questions that are past the lock
  alive,      \* whether the shared worker has its nested worker
  listening,  \* the tabs whose question the shared worker has passed on
  news,       \* the messages of the nested worker to the shared one
  offered,    \* the tabs told by the shared worker to use its nested one
  served,     \* the tabs whose database the nested worker serves
  lost,       \* those whose nested worker was terminated
  disturbed,  \* tabs whose question met another one in the shared worker
  contested   \* workers whose detection met that of another worker

checkVars == <<question, told, checks, probe, prober, waiting, detection,
               outcome, known, ready, alive, listening, news, offered,
               served, lost, disturbed, contested>>

tabVars == <<question, told, checks>>
probeVars == <<probe, prober>>
workVars == <<waiting, detection, outcome, known, ready>>
sharedVars == <<alive, listening, news, offered, served, lost, disturbed>>

-----------------------------------------------------------------------------
NoProber == "nobody"
Report(opfs, about) == [opfs |-> opfs, about |-> about]
Reports == [opfs : BOOLEAN, about : Openers]
Untold == Report(FALSE, "nothing")
Failure == Report(FALSE, "error")

ChecksInit ==
  /\ question = [t \in Openers |-> "none"]
  /\ told = [t \in Openers |-> Untold]
  /\ checks = 0
  /\ probe = FALSE /\ prober = NoProber
  /\ waiting = [w \in Workers |-> <<>>]
  /\ detection = [w \in Workers |-> "idle"]
  /\ outcome = [w \in Workers |-> FALSE]
  /\ known = [w \in Workers |-> FALSE]
  /\ ready = [w \in Workers |-> {}]
  /\ alive = FALSE /\ listening = {} /\ news = <<>>
  /\ offered = {} /\ served = {} /\ lost = {} /\ disturbed = {}
  /\ contested = {}

-----------------------------------------------------------------------------
(* Questions *)

\* A question arrives at a dedicated worker.
Queued(w, t) == waiting' = [waiting EXCEPT ![w] = Append(@, t)]

Question(t, where) ==
  /\ question[t] = "none"
  /\ checks < MaxChecks
  /\ question' = [question EXCEPT ![t] = where]
  /\ told' = [told EXCEPT ![t] = Untold]
  /\ checks' = checks + 1

AskOwn(t) ==
  /\ Question(t, "own")
  /\ Queued(t, t)
  /\ UNCHANGED <<probeVars, detection, outcome, known, ready, sharedVars,
                 contested>>

\* Every question in the nested worker, or on its way back.
Nested ==
  listening \cup ToSet(waiting["nested"]) \cup ready["nested"]
    \cup {t \in Openers : news # <<>>}

\* The shared worker makes a nested worker if it has none, passes the question
\* on and listens for an answer.
AskShared(t) ==
  /\ Question(t, "shared")
  /\ Queued("nested", t)
  /\ alive' = TRUE
  /\ listening' = listening \cup {t}
  /\ disturbed' = IF Nested = {} THEN disturbed \ {t}
                  ELSE disturbed \cup Nested \cup {t}
  /\ UNCHANGED <<probeVars, detection, outcome, known, ready, news, offered,
                 served, lost, contested>>

-----------------------------------------------------------------------------
(* The detection of a dedicated worker *)

Goes(w, pc) == detection' = [detection EXCEPT ![w] = pc]

\* The oldest question has the lock.  It detects unless that was done.
TakeLock(w) ==
  /\ detection[w] = "idle" /\ waiting[w] # <<>>
  /\ IF known[w]
     THEN /\ ready' = [ready EXCEPT ![w] = @ \cup {Head(waiting[w])}]
          /\ waiting' = [waiting EXCEPT ![w] = Tail(@)]
          /\ UNCHANGED <<detection, contested>>
     ELSE LET others == {v \in Workers \ {w} : detection[v] # "idle"}
          IN  /\ Goes(w, "file")
              /\ contested' = IF others = {} THEN contested
                              ELSE contested \cup others \cup {w}
              /\ UNCHANGED <<ready, waiting>>
  /\ UNCHANGED <<tabVars, probeVars, outcome, known, sharedVars>>

MakeFile(w) ==
  /\ detection[w] = "file"
  /\ Goes(w, "handle")
  /\ probe' = TRUE
  /\ UNCHANGED <<tabVars, prober, waiting, outcome, known, ready, sharedVars,
                 contested>>

OpenProbe(w) ==
  /\ detection[w] = "handle"
  /\ LET free == probe /\ prober = NoProber
     IN  /\ Goes(w, IF free THEN "close" ELSE "remove")
         /\ prober' = IF free THEN w ELSE prober
         /\ outcome' = [outcome EXCEPT ![w] = free]
  /\ UNCHANGED <<tabVars, probe, waiting, known, ready, sharedVars, contested>>

CloseProbe(w) ==
  /\ detection[w] = "close"
  /\ Goes(w, "remove")
  /\ prober' = NoProber
  /\ UNCHANGED <<tabVars, probe, waiting, outcome, known, ready, sharedVars,
                 contested>>

\* What an error that nobody catches does to the question that met it.  The
\* owner of the worker hears of it.
Throws(w, t) ==
  IF w = "nested"
  THEN /\ news' = Append(news, Failure)
       /\ UNCHANGED <<question, told>>
  ELSE /\ question' = [question EXCEPT ![t] = "none"]
       /\ told' = [told EXCEPT ![t] = Failure]
       /\ UNCHANGED news

\* a plausible mistake: what was found is not kept
RemoveFileForgetting(w) ==
  /\ detection[w] = "remove"
  /\ Goes(w, "idle")
  /\ waiting' = [waiting EXCEPT ![w] = Tail(@)]
  /\ IF probe /\ prober = NoProber
     THEN /\ probe' = FALSE
          /\ ready' = [ready EXCEPT ![w] = @ \cup {Head(waiting[w])}]
          /\ UNCHANGED <<question, told, news, known>>
     ELSE /\ Throws(w, Head(waiting[w]))
          /\ UNCHANGED <<probe, known, ready>>
  /\ UNCHANGED <<checks, prober, outcome, alive, listening, offered,
                 served, lost, disturbed, contested>>

\* The browser does not remove a file that is not there or that has a handle.
\* Nobody catches the error: the question is not answered, the next one in
\* line detects again.
RemoveFile(w) ==
  /\ detection[w] = "remove"
  /\ Goes(w, "idle")
  /\ waiting' = [waiting EXCEPT ![w] = Tail(@)]
  /\ IF probe /\ prober = NoProber
     THEN /\ probe' = FALSE
          /\ known' = [known EXCEPT ![w] = TRUE]
          /\ ready' = [ready EXCEPT ![w] = @ \cup {Head(waiting[w])}]
          /\ UNCHANGED <<question, told, news>>
     ELSE /\ Throws(w, Head(waiting[w]))
          /\ UNCHANGED <<probe, known, ready>>
  /\ UNCHANGED <<checks, prober, outcome, alive, listening, offered,
                 served, lost, disturbed, contested>>

\* The worker looks which databases there are, then answers.
AnswerCheck(w, t) ==
  /\ t \in ready[w]
  /\ ready' = [ready EXCEPT ![w] = @ \ {t}]
  /\ IF w = "nested"
     THEN /\ news' = Append(news, Report(outcome[w], t))
          /\ UNCHANGED <<question, told>>
     ELSE /\ question' = [question EXCEPT ![t] = "none"]
          /\ told' = [told EXCEPT ![t] = Report(outcome[w], t)]
          /\ UNCHANGED news
  /\ UNCHANGED <<checks, probeVars, waiting, detection, outcome, known, alive,
                 listening, offered, served, lost, disturbed, contested>>

-----------------------------------------------------------------------------
(* The shared worker *)

\* All that listen hear the same.
Told(answers) ==
  /\ told' = [t \in Openers |-> IF t \in listening THEN answers[t] ELSE told[t]]
  /\ question' = [t \in Openers |->
                    IF t \in listening THEN "none" ELSE question[t]]
  /\ listening' = {}

HearAnswer ==
  /\ news # <<>> /\ Head(news) # Failure
  /\ news' = Tail(news)
  /\ Told([t \in Openers |-> Head(news)])
  /\ offered' = IF Head(news).opfs THEN offered \cup listening ELSE offered
  /\ UNCHANGED <<checks, probeVars, workVars, alive, served, lost, disturbed,
                 contested>>

\* Whoever listens for an answer hears of an error and terminates the worker.
HearError ==
  /\ news # <<>> /\ Head(news) = Failure
  /\ IF listening = {}
     THEN /\ news' = Tail(news)
          /\ UNCHANGED <<tabVars, probeVars, workVars, alive, listening,
                         offered, served, lost>>
     ELSE /\ news' = <<>>
          /\ Told([t \in Openers |-> Report(FALSE, t)])
          /\ alive' = FALSE
          /\ waiting' = [waiting EXCEPT !["nested"] = <<>>]
          /\ detection' = [detection EXCEPT !["nested"] = "idle"]
          /\ outcome' = [outcome EXCEPT !["nested"] = FALSE]
          /\ known' = [known EXCEPT !["nested"] = FALSE]
          /\ ready' = [ready EXCEPT !["nested"] = {}]
          /\ prober' = IF prober = "nested" THEN NoProber ELSE prober
          /\ lost' = lost \cup offered \cup served
          /\ offered' = {} /\ served' = {}
          /\ UNCHANGED <<checks, probe>>
  /\ UNCHANGED <<disturbed, contested>>

\* The shared worker passes on that a tab wants its database served.
Serve(t) ==
  /\ t \in offered /\ question[t] = "none"
  /\ offered' = offered \ {t}
  /\ served' = served \cup {t}
  /\ UNCHANGED <<tabVars, probeVars, workVars, alive, listening, news, lost,
                 disturbed, contested>>

-----------------------------------------------------------------------------
CheckStep ==
  \/ \E w \in Workers :
       \/ TakeLock(w) \/ MakeFile(w) \/ OpenProbe(w) \/ CloseProbe(w)
       \/ RemoveFile(w)
       \/ \E t \in Openers : AnswerCheck(w, t)
  \/ HearAnswer \/ HearError

ChecksNext ==
  \/ \E t \in Openers : AskOwn(t) \/ AskShared(t) \/ Serve(t)
  \/ CheckStep

ChecksSpec == ChecksInit /\ [][ChecksNext]_checkVars

\* Workers go on; nothing makes a tab ask.
ChecksFairness == WF_checkVars(CheckStep)

-----------------------------------------------------------------------------
(* Properties *)

\* The state of the tabs, of the workers and of the browser's file; a handle
\* is held only by a detection that is about to close it.
ChecksTypeOK ==
  /\ question \in [Openers -> {"none", "own", "shared"}]
  /\ told \in [Openers -> {Untold, Failure} \cup Reports]
  /\ checks \in 0..MaxChecks
  /\ probe \in BOOLEAN /\ prober \in Workers \cup {NoProber}
  /\ waiting \in [Workers -> Seq(Openers)]
  /\ detection \in [Workers -> {"idle", "file", "handle", "close", "remove"}]
  /\ outcome \in [Workers -> BOOLEAN]
  /\ known \in [Workers -> BOOLEAN]
  /\ ready \in [Workers -> SUBSET Openers]
  /\ alive \in BOOLEAN /\ listening \subseteq Openers
  /\ news \in Seq({Failure} \cup Reports)
  /\ offered \cup served \cup lost \cup disturbed \subseteq Openers
  /\ contested \subseteq Workers
  /\ \A w \in Workers : prober = w <=> detection[w] = "close"

\* What a tab is told holds.  A check that met no other in the shared worker,
\* by a worker whose detection met no other, is answered with the truth; and
\* the nested worker is not terminated once a tab was told to use it, whatever
\* goes wrong in the checks of others.
AnswersHold ==
  /\ \A t \in Openers \ disturbed :
       told[t] # Untold =>
         told[t] = Report(TRUE, t) \/ contested \cap {t, "nested"} # {}
  /\ lost = {}

CheckWaits(t) == question[t] # "none"

\* Every question comes to an end.
ChecksEnd == \A t \in Openers : CheckWaits(t) ~> ~CheckWaits(t)
=============================================================================
