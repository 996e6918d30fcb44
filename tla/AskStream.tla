----------------------------- MODULE AskStream -----------------------------
(***************************************************************************)
(* One question asked from the web page: src/app/static/index.html, the    *)
(* handler ask_stream of src/app/api.py, and between the two an            *)
(* EventSource that gives the page each message once and in order until it *)
(* is closed, by the page, by the server or by the network.                *)
(*                                                                         *)
(* ask_stream starts a worker thread, whose events go through a queue to   *)
(* the generator that the server drains.  The worker is never told that    *)
(* its client has gone, and the generator learns it only when it next has  *)
(* something to send.  What the worker does between its events is left to  *)
(* the module that composes it with what Pipeline.answer calls.            *)
(*                                                                         *)
(* An event is a message as well: json.dumps writes a NaN of a row as NaN, *)
(* which the page's JSON.parse refuses, so a result may be unreadable.     *)
(***************************************************************************)
EXTENDS Integers, Sequences

CONSTANTS
  Stages,   \* the stage ids of PIPELINE_STAGES, in order
  Stops,    \* the stages after which answer may return
  MaxAsks,  \* bound: questions asked from the page
  Unsteady  \* bound: the questions whose connection may break

Asks == 1 .. MaxAsks

ASSUME AskStreamAssumption ==
  /\ MaxAsks \in Nat
  /\ Stages \in Seq(STRING)
  /\ Stops \subseteq DOMAIN Stages
  /\ Unsteady \subseteq Asks

VARIABLES
  asked,    \* questions asked so far: ask n is the n-th
  stream,   \* stream[n]: the request of ask n, as the server sees it
  worker,   \* worker[n]: its thread, the last stage it has reported, and
            \* what it has put as the outcome
  events,   \* events[n]: its queue
  page      \* the page: the EventSource es, and what it shows

streamVars == <<asked, stream, worker, events, page>>

Event(type) == [type |-> type, step |-> 0, readable |-> TRUE]
StepEvent(n) == [Event("step") EXCEPT !.step = n]

(* gates: the stages shown as resolved, once they are drawn; of: the       *)
(* question they and the readout are about                                 *)
EmptyPage ==
  [es |-> {}, done |-> FALSE, disabled |-> FALSE, drawn |-> FALSE, gates |-> <<>>,
   readout |-> "empty", of |-> 0]

StreamInit ==
  /\ asked = 0
  /\ stream = [n \in Asks |-> "none"]
  /\ worker = [n \in Asks |-> [state |-> "none", at |-> 0, outcome |-> "none"]]
  /\ events = [n \in Asks |-> <<>>]
  /\ page = EmptyPage

-----------------------------------------------------------------------------
(* The page *)

(* finish() *)
Finished(p) == [p EXCEPT !.done = TRUE, !.es = {}, !.disabled = FALSE]

(* applyStep: a gate that is not on the page is passed over.  The script   *)
(* has thrown while it was loaded, at the missing element "examples", and  *)
(* so before GLYPH got its value: applyStep throws too, but only once the  *)
(* gate's class is set, which is what is modelled; its glyph and its       *)
(* detail never appear.                                                    *)
StepApplied(p, step) == IF p.drawn THEN [p EXCEPT !.gates = Append(@, step)] ELSE p

(* es.onmessage *)
Handled(p, message) ==
  IF ~message.readable THEN p
  ELSE CASE message.type = "stages" -> [p EXCEPT !.drawn = TRUE, !.gates = <<>>]
         [] message.type = "step"   -> StepApplied(p, message.step)
         [] message.type = "done"   -> Finished(p)
         [] OTHER                   -> [p EXCEPT !.readout = message.type]

(* the message reaches the page, if the page still listens *)
Delivered(n, message) ==
  IF n \in page.es THEN [Handled(page, message) EXCEPT !.of = n] ELSE page

(* es.onerror *)
Lost(n) ==
  IF n \in page.es /\ ~page.done
  THEN Finished([page EXCEPT !.readout = "lost", !.of = n])
  ELSE page

(* A plausible bug: the source of the previous question stays open. *)
AskedBesides(n) ==
  [EmptyPage EXCEPT !.es = page.es \cup {n}, !.disabled = TRUE, !.readout = "running",
                    !.of = n]

(* start(): the page is cleared and another source takes the place of es *)
AskedAnew(n) ==
  [EmptyPage EXCEPT !.es = {n}, !.disabled = TRUE, !.readout = "running", !.of = n]

(* start() is run by the button, and also by Enter, which works while a    *)
(* question is running; their listeners are set before the script throws   *)
Start ==
  /\ asked < MaxAsks
  /\ asked' = asked + 1
  /\ page' = AskedAnew(asked + 1)
  /\ stream' = [stream EXCEPT ![asked + 1] = "requested"]
  /\ UNCHANGED <<worker, events>>

(* External: the network drops the connection the page listens on. *)
Disconnect(n) ==
  /\ n \in page.es \cap Unsteady
  /\ page' = Lost(n)
  /\ UNCHANGED <<asked, stream, worker, events>>

-----------------------------------------------------------------------------
(* The server *)

(* _authorize_stream: 401 or 429, which the page sees as a lost connection *)
Refuse(n) ==
  /\ stream[n] = "requested"
  /\ stream' = [stream EXCEPT ![n] = "refused"]
  /\ page' = Lost(n)
  /\ UNCHANGED <<asked, worker, events>>

(* event_stream is entered: the queue, the thread, the list of stages *)
Open(n) ==
  /\ stream[n] = "requested"
  /\ stream' = [stream EXCEPT ![n] = "open"]
  /\ worker' = [worker EXCEPT ![n].state = "answering"]
  /\ page' = Delivered(n, Event("stages"))
  /\ UNCHANGED <<asked, events>>

(* the client has left before event_stream was entered *)
NeverOpened(n) ==
  /\ stream[n] = "requested"
  /\ n \notin page.es
  /\ stream' = [stream EXCEPT ![n] = "dropped"]
  /\ UNCHANGED <<asked, worker, events, page>>

(* the client has left: the generator is not resumed after what it yields *)
MayDrop(n) == IF n \in page.es THEN {"open"} ELSE {"open", "dropped"}

(* A plausible bug: the newest event is taken. *)
Newest(n) == events[n][Len(events[n])]

(* what events.get() takes *)
Oldest(n) == events[n][1]

(* an event is taken from the queue and sent *)
Relay(n) ==
  /\ stream[n] = "open"
  /\ events[n] # <<>>
  /\ LET event == Oldest(n) IN
       /\ event.type # "__end__"
       /\ page' = Delivered(n, event)
  /\ \E state \in MayDrop(n) :
       /\ stream' = [stream EXCEPT ![n] = state]
       /\ events' = [events EXCEPT ![n] = IF state = "open" THEN Tail(@) ELSE <<>>]
  /\ UNCHANGED <<asked, worker>>

(* the end is taken from the queue, "done" sent, and the generator returns *)
End(n) ==
  /\ stream[n] = "open"
  /\ events[n] # <<>>
  /\ Oldest(n).type = "__end__"
  /\ events' = [events EXCEPT ![n] = Tail(@)]
  /\ stream' = [stream EXCEPT ![n] = "ended"]
  /\ page' = Delivered(n, Event("done"))
  /\ UNCHANGED <<asked, worker>>

(* events.put(), which never waits; what is put into the queue of a        *)
(* dropped generator nobody reads                                          *)
Put(n, event) ==
  events' = [events EXCEPT ![n] = IF stream[n] = "open" THEN Append(@, event) ELSE @]

(* on_step: the next stage is reported *)
Report(n) ==
  /\ worker[n].state = "answering"
  /\ worker[n].at < Len(Stages)
  /\ worker' = [worker EXCEPT ![n].at = @ + 1]
  /\ Put(n, StepEvent(worker[n].at + 1))
  /\ UNCHANGED <<asked, stream, page>>

(* answer returns, and the worker puts the result *)
PutResult(n) ==
  /\ worker[n].state = "answering"
  /\ worker[n].at \in Stops
  /\ \E readable \in BOOLEAN :
       /\ worker' = [worker EXCEPT ![n].state = "ending",
                                   ![n].outcome = IF readable THEN "result" ELSE "unreadable"]
       /\ Put(n, [Event("result") EXCEPT !.readable = readable])
  /\ UNCHANGED <<asked, stream, page>>

(* Plausible bugs: an exception is swallowed; it ends the worker. *)
Swallowed(n) ==
  /\ worker[n].state = "answering"
  /\ worker' = [worker EXCEPT ![n].state = "ending"]
  /\ UNCHANGED <<asked, stream, events, page>>
Uncaught(n) ==
  /\ worker[n].state = "answering"
  /\ worker' = [worker EXCEPT ![n].state = "ended"]
  /\ UNCHANGED <<asked, stream, events, page>>

(* answer raises, and the worker puts the error *)
PutError(n) ==
  /\ worker[n].state = "answering"
  /\ worker' = [worker EXCEPT ![n].state = "ending", ![n].outcome = "error"]
  /\ Put(n, Event("error"))
  /\ UNCHANGED <<asked, stream, page>>

(* finally, the end *)
PutEnd(n) ==
  /\ worker[n].state = "ending"
  /\ worker' = [worker EXCEPT ![n].state = "ended"]
  /\ Put(n, Event("__end__"))
  /\ UNCHANGED <<asked, stream, page>>

(* what the server does for a request by itself *)
Serving(n) == Refuse(n) \/ Open(n) \/ NeverOpened(n) \/ Relay(n) \/ End(n)

-----------------------------------------------------------------------------
(* Properties *)

Types == {"stages", "step", "result", "error", "done", "__end__"}

StreamOK ==
  /\ asked \in 0 .. MaxAsks
  /\ stream \in [Asks -> {"none", "requested", "refused", "open", "ended", "dropped"}]
  /\ worker \in [Asks -> [state : {"none", "answering", "ending", "ended"},
                          at : 0 .. Len(Stages),
                          outcome : {"none", "result", "unreadable", "error"}]]
  /\ \A n \in Asks : \A i \in DOMAIN events[n] :
       events[n][i] \in [type : Types, step : 0 .. Len(Stages), readable : BOOLEAN]
  /\ page \in [es : SUBSET Asks, done : BOOLEAN, disabled : BOOLEAN, drawn : BOOLEAN,
               gates : Seq(DOMAIN Stages), of : 0 .. MaxAsks,
               readout : {"empty", "running", "result", "error", "lost"}]

(* Nothing of an earlier question reaches the page once another has been   *)
(* asked, though its worker and its generator may still be at work.        *)
ShowsTheLastQuestion == page.of = asked

(* The button comes free only with something to read in its place: the     *)
(* worker's result or error, or that the connection was lost.  The one     *)
(* exception is a result the page cannot parse: then it goes on saying     *)
(* that the pipeline is running.                                           *)
ToldUnlessUnreadable ==
  ~page.disabled /\ asked > 0 =>
    LET outcome == worker[asked].outcome IN
    \/ page.readout = "lost"
    \/ page.readout = outcome
    \/ page.readout = "running" /\ outcome = "unreadable"

(* A generator blocked on an empty queue, in a thread of the server's      *)
(* pool, has a worker that will still put something.                       *)
NobodyWaitsInVain ==
  \A n \in Asks :
    stream[n] = "open" /\ events[n] = <<>> => worker[n].state \in {"answering", "ending"}
=============================================================================
