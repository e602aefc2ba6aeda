----------------------------- MODULE PortChannels -----------------------------
(***************************************************************************)
(* The channel between a tab and the database server over a MessagePort.   *)
(* Each end has two guarded channels back to back: the outer one is what   *)
(* the user of the end has, the inner one is bound to the port.  Between   *)
(* them are two controllers that deliver in later turns of the event loop. *)
(* A side that closes says "_disconnect" and closes its port.              *)
(*                                                                         *)
(* The port is external: it keeps the order of messages, delivers none     *)
(* after it was closed, and nobody hears of a tab that is gone.            *)
(***************************************************************************)
EXTENDS Naturals, Sequences, SequencesExt

CONSTANTS MaxSent     \* bound on the messages of an end

ASSUME ChannelsAssumption == MaxSent \in Nat

VARIABLES
  end,      \* the state of both ends
  wire,     \* the messages on their way to an end
  sent,     \* what the user of an end has sent
  heardAt,    \* what the user of an end has heard, and that it is done
  gone      \* whether the tab is gone

channelVars == <<end, wire, sent, heardAt, gone>>

-----------------------------------------------------------------------------
Ends == {"tab", "worker"}
Other(e) == IF e = "tab" THEN "worker" ELSE "tab"
PortMessages == 1..MaxSent

\* A sink is open, closed by its user, or cut off by the end of its stream.
\* inward and outward are what the controllers have not delivered yet.
End ==
  [sink : {"open", "closed", "cut"}, guard : {"open", "closed", "cut"},
   inward : Seq(PortMessages \cup {0}), outward : Seq(PortMessages \cup {0}), port : BOOLEAN]

\* The end of a stream, and of what is said over the port.
EndOfStream == 0
Disconnect == 0

ChannelsInit ==
  /\ end = [e \in Ends |-> [sink |-> "open", guard |-> "open", inward |-> <<>>,
                            outward |-> <<>>, port |-> TRUE]]
  /\ wire = [e \in Ends |-> <<>>]
  /\ sent = [e \in Ends |-> 0]
  /\ heardAt = [e \in Ends |-> <<>>]
  /\ gone = FALSE

Lives(e) == e = "tab" => ~gone
Posts(e, message) == wire' = [wire EXCEPT ![Other(e)] = Append(@, message)]
HearsAt(e, event) == heardAt' = [heardAt EXCEPT ![e] = Append(@, event)]

-----------------------------------------------------------------------------
(* The user of an end *)

\* What is sent after the other end has closed is dropped.
SendMessage(e) ==
  /\ Lives(e) /\ sent[e] < MaxSent /\ end[e].sink # "closed"
  /\ sent' = [sent EXCEPT ![e] = @ + 1]
  /\ end' = IF end[e].sink = "open" /\ end[e].guard = "open"
            THEN [end EXCEPT ![e].outward = Append(@, sent[e] + 1)] ELSE end
  /\ UNCHANGED <<wire, heardAt, gone>>

\* a plausible mistake: what has not been posted yet is dropped
OnlyGoodbye(outward) == <<EndOfStream>>
WithGoodbye(outward) == Append(outward, EndOfStream)

\* The end hears no more, and its own end goes behind what it has sent.
CloseEnd(e) ==
  /\ Lives(e) /\ end[e].sink # "closed"
  /\ IF end[e].sink = "open"
     THEN /\ end' = [end EXCEPT ![e].sink = "closed", ![e].inward = <<>>,
                                ![e].outward = IF end[e].guard = "open"
                                               THEN WithGoodbye(@) ELSE @]
          /\ HearsAt(e, EndOfStream)
     ELSE end' = [end EXCEPT ![e].sink = "closed"] /\ UNCHANGED heardAt
  /\ UNCHANGED <<wire, sent, gone>>

TabGone ==
  /\ ~gone
  /\ gone' = TRUE
  /\ wire' = [wire EXCEPT !["tab"] = <<>>]
  /\ UNCHANGED <<end, sent, heardAt>>

-----------------------------------------------------------------------------
(* Turns of the event loop *)

\* What the user has sent is posted; its end closes the port.
PostNext(e) ==
  /\ Lives(e) /\ end[e].outward # <<>>
  /\ Posts(e, Head(end[e].outward))
  /\ end' = IF Head(end[e].outward) = EndOfStream
            THEN [end EXCEPT ![e].outward = Tail(@), ![e].guard = "cut", ![e].port = FALSE]
            ELSE [end EXCEPT ![e].outward = Tail(@)]
  /\ UNCHANGED <<sent, heardAt, gone>>

\* The end of the other side cancels what is still to be posted, answers with
\* the same and closes the port.
ReceiveNext(e) ==
  /\ Lives(e) /\ wire[e] # <<>> /\ end[e].port
  /\ IF Head(wire[e]) = Disconnect
     THEN /\ end' = [end EXCEPT ![e].guard = "closed", ![e].outward = <<>>,
                                ![e].inward = IF end[e].sink = "closed" THEN @
                                              ELSE Append(@, EndOfStream),
                                ![e].port = FALSE]
          /\ wire' = [e2 \in Ends |-> IF e2 = e THEN Tail(wire[e])
                                      ELSE Append(wire[e2], Disconnect)]
     ELSE /\ end' = IF end[e].sink = "closed" THEN end
                    ELSE [end EXCEPT ![e].inward = Append(@, Head(wire[e]))]
          /\ wire' = [wire EXCEPT ![e] = Tail(@)]
  /\ UNCHANGED <<sent, heardAt, gone>>

DeliverNext(e) ==
  /\ Lives(e) /\ end[e].inward # <<>>
  /\ HearsAt(e, Head(end[e].inward))
  /\ end' = IF Head(end[e].inward) = EndOfStream
            THEN [end EXCEPT ![e].inward = Tail(@), ![e].sink = "cut"]
            ELSE [end EXCEPT ![e].inward = Tail(@)]
  /\ UNCHANGED <<wire, sent, gone>>

ChannelsNext ==
  \/ \E e \in Ends :
       SendMessage(e) \/ CloseEnd(e) \/ PostNext(e) \/ ReceiveNext(e) \/ DeliverNext(e)
  \/ TabGone

ChannelsSpec == ChannelsInit /\ [][ChannelsNext]_channelVars

-----------------------------------------------------------------------------
(* Properties *)

\* The state of both ends.
ChannelsTypeOK ==
  /\ end \in [Ends -> End]
  /\ \A e \in Ends : wire[e] \in Seq(PortMessages \cup {Disconnect}) /\ sent[e] \in 0..MaxSent
  /\ gone \in BOOLEAN

IsDone(e) == heardAt[e] # <<>> /\ Last(heardAt[e]) = EndOfStream
Got(e) == SelectSeq(heardAt[e], LAMBDA m : m # EndOfStream)

\* Nothing is on its way any more.
Still ==
  /\ \A e \in Ends : end[e].inward = <<>> /\ end[e].outward = <<>>
  /\ \A e \in Ends : end[e].port => wire[e] = <<>>

\* An end hears what the other has sent, in order, and once at most that the
\* channel is done, after which it hears nothing.  It hears everything, if
\* only the other end was closed, and of the end too: the one who closes
\* waits for nothing, but drops nothing either.  (Not of a tab that is gone.)
ChannelsDeliver ==
  /\ \A e \in Ends :
       /\ \A i \in DOMAIN Got(e) : Got(e)[i] = i
       /\ \A i \in DOMAIN heardAt[e] : heardAt[e][i] = EndOfStream => i = Len(heardAt[e])
       /\ Len(Got(e)) <= sent[Other(e)]
  /\ Still /\ ~gone =>
       /\ IsDone("tab") <=> IsDone("worker")
       /\ \A e \in Ends :
            ~IsDone(e) \/ (end[Other(e)].sink = "closed" /\ end[e].sink = "cut")
              => Len(Got(e)) = sent[Other(e)]
=============================================================================
