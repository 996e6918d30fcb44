---------------------------- MODULE Service_proofs ----------------------------
(***************************************************************************)
(* The invariant of the stream, and with Provider_proofs the theorems of   *)
(* the page, its streams and the provider together, for any number of      *)
(* questions, stages, samples and threads.                                 *)
(*                                                                         *)
(* That the page is told in order and in full is a matter of three places  *)
(* at once: what the worker has put, what is still in the queue, and what  *)
(* the page shows.  The invariant says of every open stream that the queue *)
(* is the rest of what its worker has put, and that a page that listens    *)
(* shows all but that rest.                                                *)
(***************************************************************************)
EXTENDS Service, Provider_proofs

EventRecords == [type : Types, step : 0 .. Len(Stages), readable : BOOLEAN]

StreamTyped ==
  /\ asked \in 0 .. MaxAsks
  /\ stream \in [Asks -> {"none", "requested", "refused", "open", "ended", "dropped"}]
  /\ worker \in [Asks -> [state : {"none", "answering", "ending", "ended"},
                          at : 0 .. Len(Stages),
                          outcome : {"none", "result", "unreadable", "error"}]]
  /\ events \in [Asks -> Seq(EventRecords)]
  /\ page \in [es : SUBSET Asks, done : BOOLEAN, disabled : BOOLEAN, drawn : BOOLEAN,
               gates : Seq(DOMAIN Stages), of : 0 .. MaxAsks,
               readout : {"empty", "running", "result", "error", "lost"}]

(* the event that a worker puts for its outcome *)
IsOutcome(event, outcome) ==
  /\ outcome = "error" => event.type = "error"
  /\ outcome # "error" => event.type = "result"
  /\ event.readable <=> outcome # "unreadable"

(* The queue of an open stream is what its worker has put and the          *)
(* generator has not taken: the last unsent of the stages reported, the    *)
(* outcome when one is untold, and the end.                                *)
QueueIs(queue, w, unsent, untold) ==
  /\ w.state # "none"
  /\ w.state = "answering" => untold = 0
  /\ unsent > 0 /\ w.state # "answering" => untold = 1
  /\ Len(queue) = unsent + untold + (IF w.state = "ended" THEN 1 ELSE 0)
  /\ \A i \in 1 .. unsent : queue[i] = StepEvent(w.at - unsent + i)
  /\ untold = 1 => IsOutcome(queue[unsent + 1], w.outcome)
  /\ w.state = "ended" => queue[Len(queue)] = Event("__end__")

Readout(outcome, untold) ==
  IF untold = 1 \/ outcome \in {"none", "unreadable"} THEN "running" ELSE outcome

(* and the page that listens shows exactly the rest *)
PageShows(p, w, unsent, untold) ==
  /\ p.drawn
  /\ p.gates = [i \in 1 .. (w.at - unsent) |-> i]
  /\ p.readout = Readout(w.outcome, untold)

OpenOK(n) ==
  \E unsent \in 0 .. worker[n].at : \E untold \in 0 .. 1 :
    /\ QueueIs(events[n], worker[n], unsent, untold)
    /\ n \in page.es => PageShows(page, worker[n], unsent, untold)

WorkerOK(n) ==
  /\ stream[n] \in {"none", "requested"} => worker[n].state = "none"
  /\ worker[n].state = "none" => worker[n].at = 0
  /\ worker[n].outcome = "none" <=> worker[n].state \in {"none", "answering"}

AskOK(n) ==
  /\ n > asked => stream[n] = "none"
  /\ WorkerOK(n)
  /\ IF stream[n] = "open" THEN OpenOK(n) ELSE events[n] = <<>>

(* The page listens to the last question or to none. *)
PageOK ==
  /\ page.of = asked
  /\ page.es \subseteq {asked}
  /\ page.disabled <=> page.es # {}
  /\ \A n \in page.es :
       /\ ~page.done
       /\ stream[n] \in {"requested", "open"}
       /\ stream[n] = "requested" =>
            page.gates = <<>> /\ page.readout = "running" /\ ~page.drawn
  /\ asked > 0 /\ page.es = {} =>
       \/ page.readout = "lost"
       \/ /\ worker[asked].state = "ended"
          /\ page.readout = Readout(worker[asked].outcome, 0)

StreamInv == StreamTyped /\ PageOK /\ \A n \in Asks : AskOK(n)

-----------------------------------------------------------------------------
(* Events and queues *)

LEMMA StagesCounted == Len(Stages) \in Nat /\ MaxAsks \in Nat /\ Asks \subseteq Nat
BY AskStreamAssumption DEF Asks

LEMMA EventsTyped ==
  /\ \A k \in 0 .. Len(Stages) : StepEvent(k) \in EventRecords
  /\ Event("error") \in EventRecords
  /\ Event("__end__") \in EventRecords
<1>1. Len(Stages) \in Nat
  BY StagesCounted
<1>2. \A k \in 0 .. Len(Stages) : StepEvent(k) \in EventRecords
  BY <1>1 DEF StepEvent, Event, EventRecords, Types
<1>3. Event("error") \in EventRecords
  BY <1>1 DEF Event, EventRecords, Types
<1>4. Event("__end__") \in EventRecords
  BY <1>1 DEF Event, EventRecords, Types
<1> QED
  BY <1>2, <1>3, <1>4

Workers == [state : {"none", "answering", "ending", "ended"},
            at : 0 .. Len(Stages),
            outcome : {"none", "result", "unreadable", "error"}]

(* a stage is reported *)
LEMMA QueueStep ==
  ASSUME NEW queue \in Seq(EventRecords), NEW w \in Workers, NEW unsent \in 0 .. w.at,
         QueueIs(queue, w, unsent, 0), w.state = "answering", w.at < Len(Stages),
         NEW after, after = [w EXCEPT !.at = @ + 1]
  PROVE  QueueIs(Append(queue, StepEvent(w.at + 1)), after, unsent + 1, 0)
<1>1. /\ w.at \in Nat /\ unsent \in Nat /\ Len(queue) = unsent
      /\ after.at = w.at + 1 /\ after.state = "answering"
  BY StagesCounted DEF QueueIs, Workers
<1>2. \A i \in 1 .. unsent : queue[i] = StepEvent(w.at - unsent + i)
  BY DEF QueueIs
<1> DEFINE more == Append(queue, StepEvent(w.at + 1))
<1>3. /\ Len(more) = unsent + 1 /\ more[unsent + 1] = StepEvent(w.at + 1)
      /\ \A i \in 1 .. unsent : more[i] = queue[i]
  BY <1>1
<1>4. ASSUME NEW i \in 1 .. unsent + 1
      PROVE  more[i] = StepEvent(after.at - (unsent + 1) + i)
  <2>1. after.at - (unsent + 1) + i = w.at - unsent + i
    BY <1>1
  <2>2. CASE i = unsent + 1
    BY <1>1, <1>3, <2>2
  <2>3. CASE i \in 1 .. unsent
    BY <1>2, <1>3, <2>1, <2>3
  <2> QED
    BY <1>1, <2>2, <2>3
<1> HIDE DEF more
<1>5. Len(more) = (unsent + 1) + 0 + 0
  BY <1>1, <1>3
<1>6. QueueIs(more, after, unsent + 1, 0)
  BY <1>1, <1>4, <1>5 DEF QueueIs
<1> QED
  BY <1>6 DEF more

(* the outcome is put *)
LEMMA QueueOutcome ==
  ASSUME NEW queue \in Seq(EventRecords), NEW w \in Workers, NEW unsent \in 0 .. w.at,
         QueueIs(queue, w, unsent, 0), w.state = "answering",
         NEW outcome, NEW event \in EventRecords, IsOutcome(event, outcome), NEW after \in Workers,
         after = [w EXCEPT !.state = "ending", !.outcome = outcome]
  PROVE  QueueIs(Append(queue, event), after, unsent, 1)
<1>1. /\ w.at \in Nat /\ unsent \in Nat /\ Len(queue) = unsent
      /\ after.at = w.at /\ after.state = "ending" /\ after.outcome = outcome
  BY StagesCounted DEF QueueIs, Workers
<1>2. \A i \in 1 .. unsent : queue[i] = StepEvent(w.at - unsent + i)
  BY DEF QueueIs
<1> DEFINE more == Append(queue, event)
<1>3. /\ Len(more) = unsent + 1 /\ more[unsent + 1] = event
      /\ \A i \in 1 .. unsent : more[i] = queue[i]
  BY <1>1
<1> HIDE DEF more
<1>4. Len(more) = unsent + 1 + 0
  BY <1>1, <1>3
<1>5. QueueIs(more, after, unsent, 1)
  BY <1>1, <1>2, <1>3, <1>4 DEF QueueIs
<1> QED
  BY <1>5 DEF more

(* the end is put *)
LEMMA QueueEnd ==
  ASSUME NEW queue \in Seq(EventRecords), NEW w \in Workers, NEW unsent \in 0 .. w.at,
         NEW untold \in 0 .. 1, QueueIs(queue, w, unsent, untold), w.state = "ending",
         NEW after, after = [w EXCEPT !.state = "ended"]
  PROVE  QueueIs(Append(queue, Event("__end__")), after, unsent, untold)
<1>1. /\ w.at \in Nat /\ unsent \in Nat
      /\ Len(queue) = unsent + untold + 0
      /\ after.at = w.at /\ after.state = "ended" /\ after.outcome = w.outcome
      /\ unsent > 0 => untold = 1
  BY StagesCounted DEF QueueIs, Workers
<1>2. /\ \A i \in 1 .. unsent : queue[i] = StepEvent(w.at - unsent + i)
      /\ untold = 1 => IsOutcome(queue[unsent + 1], w.outcome)
  BY DEF QueueIs
<1> DEFINE more == Append(queue, Event("__end__"))
<1>3. /\ Len(more) = Len(queue) + 1 /\ more[Len(queue) + 1] = Event("__end__")
      /\ \A i \in 1 .. Len(queue) : more[i] = queue[i]
  OBVIOUS
<1> HIDE DEF more
<1>4. Len(more) = unsent + untold + 1
  BY <1>1, <1>3
<1>5. /\ \A i \in 1 .. unsent : more[i] = StepEvent(w.at - unsent + i)
      /\ untold = 1 => IsOutcome(more[unsent + 1], w.outcome)
  BY <1>1, <1>2, <1>3
<1>6. QueueIs(more, after, unsent, untold)
  BY <1>1, <1>3, <1>4, <1>5 DEF QueueIs
<1> QED
  BY <1>6 DEF more

LEMMA EventTypes ==
  /\ \A k : StepEvent(k).type = "step" /\ StepEvent(k).step = k /\ StepEvent(k).readable
  /\ Event("__end__").type = "__end__"
BY DEF StepEvent, Event

(* an event is taken: the first stage unsent, or the outcome *)
LEMMA QueueTaken ==
  ASSUME NEW queue \in Seq(EventRecords), NEW w \in Workers, NEW unsent \in 0 .. w.at,
         NEW untold \in 0 .. 1, QueueIs(queue, w, unsent, untold),
         queue # <<>>, queue[1].type # "__end__"
  PROVE  \/ /\ unsent > 0 /\ queue[1] = StepEvent(w.at - unsent + 1)
            /\ QueueIs(Tail(queue), w, unsent - 1, untold)
         \/ /\ unsent = 0 /\ untold = 1 /\ IsOutcome(queue[1], w.outcome)
            /\ QueueIs(Tail(queue), w, 0, 0)
<1>1. /\ w.at \in Nat /\ unsent \in Nat /\ Len(queue) \in Nat \ {0}
      /\ Len(queue) = unsent + untold + (IF w.state = "ended" THEN 1 ELSE 0)
  BY StagesCounted, EmptySeq DEF QueueIs, Workers
<1>2. /\ \A i \in 1 .. unsent : queue[i] = StepEvent(w.at - unsent + i)
      /\ untold = 1 => IsOutcome(queue[unsent + 1], w.outcome)
      /\ w.state = "ended" => queue[Len(queue)] = Event("__end__")
      /\ w.state # "none" /\ (w.state = "answering" => untold = 0)
      /\ unsent > 0 /\ w.state # "answering" => untold = 1
  BY DEF QueueIs
<1>3. unsent > 0 \/ untold = 1
  <2> SUFFICES ASSUME unsent = 0, untold = 0 PROVE FALSE
    BY <1>1
  <2>1. w.state = "ended" /\ Len(queue) = 1
    BY <1>1
  <2> QED
    BY <1>2, <2>1, EventTypes
<1> DEFINE less == Tail(queue)
<1>4. /\ Len(less) = Len(queue) - 1
      /\ \A i \in 1 .. Len(queue) - 1 : less[i] = queue[i + 1]
  BY <1>1
<1> HIDE DEF less
<1>5. w.state = "ended" => less[Len(less)] = Event("__end__")
  <2> SUFFICES ASSUME w.state = "ended" PROVE less[Len(less)] = Event("__end__")
    OBVIOUS
  <2>1. Len(queue) > 1
    BY <1>1, <1>3
  <2> QED
    BY <1>1, <1>2, <1>4, <2>1
<1>6. CASE unsent > 0
  <2>1. \A i \in 1 .. unsent - 1 : less[i] = StepEvent(w.at - (unsent - 1) + i)
    <3> SUFFICES ASSUME NEW i \in 1 .. unsent - 1
                 PROVE  less[i] = StepEvent(w.at - (unsent - 1) + i)
      OBVIOUS
    <3>0. w.at \in Nat /\ unsent \in Nat /\ i \in Nat /\ 1 <= i /\ i <= unsent - 1
      BY <1>1
    <3>1. \A at \in Nat : at - unsent + (i + 1) = at - (unsent - 1) + i
      BY <3>0
    <3>2. i + 1 \in 1 .. unsent /\ i \in 1 .. Len(queue) - 1
      BY <1>1, <3>0
    <3>3. less[i] = StepEvent(w.at - unsent + (i + 1))
      BY <1>2, <1>4, <3>2
    <3> QED
      BY <3>0, <3>1, <3>3
  <2>2. untold = 1 => IsOutcome(less[(unsent - 1) + 1], w.outcome)
    BY <1>1, <1>2, <1>4, <1>6
  <2>3. Len(less) = (unsent - 1) + untold + (IF w.state = "ended" THEN 1 ELSE 0)
    BY <1>1, <1>4
  <2>4. QueueIs(less, w, unsent - 1, untold)
    BY <1>1, <1>2, <1>5, <1>6, <2>1, <2>2, <2>3 DEF QueueIs
  <2>5. queue[1] = StepEvent(w.at - unsent + 1)
    BY <1>1, <1>2, <1>6
  <2> QED
    BY <1>6, <2>4, <2>5 DEF less
<1>7. CASE unsent = 0
  <2>1. untold = 1 /\ IsOutcome(queue[1], w.outcome)
    BY <1>1, <1>2, <1>3, <1>7
  <2>2. Len(less) = 0 + 0 + (IF w.state = "ended" THEN 1 ELSE 0)
    BY <1>1, <1>4, <1>7, <2>1
  <2>3. QueueIs(less, w, 0, 0)
    BY <1>2, <1>5, <2>2 DEF QueueIs
  <2> QED
    BY <1>7, <2>1, <2>3 DEF less
<1>8. unsent > 0 \/ unsent = 0
  BY <1>1
<1> QED
  BY <1>6, <1>7, <1>8

(* the end is taken: it is the last *)
LEMMA QueueEnded ==
  ASSUME NEW queue \in Seq(EventRecords), NEW w \in Workers, NEW unsent \in 0 .. w.at,
         NEW untold \in 0 .. 1, QueueIs(queue, w, unsent, untold),
         queue # <<>>, queue[1].type = "__end__"
  PROVE  w.state = "ended" /\ unsent = 0 /\ untold = 0 /\ Tail(queue) = <<>>
<1>1. /\ w.at \in Nat /\ unsent \in Nat /\ Len(queue) \in Nat \ {0}
      /\ Len(queue) = unsent + untold + (IF w.state = "ended" THEN 1 ELSE 0)
  BY StagesCounted, EmptySeq DEF QueueIs, Workers
<1>2. unsent = 0
  <2> SUFFICES ASSUME unsent > 0 PROVE FALSE
    BY <1>1
  <2>1. queue[1] = StepEvent(w.at - unsent + 1)
    BY <1>1 DEF QueueIs
  <2> QED
    BY <2>1, EventTypes
<1>3. untold = 0
  <2> SUFFICES ASSUME untold = 1 PROVE FALSE
    OBVIOUS
  <2>1. IsOutcome(queue[1], w.outcome)
    BY <1>2 DEF QueueIs
  <2>2. queue[1].type \in {"error", "result"}
    BY <2>1 DEF IsOutcome
  <2> QED
    BY <2>1, <2>2
<1>4. w.state = "ended" /\ Len(queue) = 1
  BY <1>1, <1>2, <1>3
<1>5. Tail(queue) = <<>>
  <2>1. Tail(queue) \in Seq(EventRecords) /\ Len(Tail(queue)) = 0
    BY <1>4
  <2> QED
    BY <2>1, EmptySeq
<1> QED
  BY <1>2, <1>3, <1>4, <1>5

-----------------------------------------------------------------------------
(* One ask at a time *)

PageRecords ==
  [es : SUBSET Asks, done : BOOLEAN, disabled : BOOLEAN, drawn : BOOLEAN,
   gates : Seq(DOMAIN Stages), of : 0 .. MaxAsks,
   readout : {"empty", "running", "result", "error", "lost"}]

Streams == {"none", "requested", "refused", "open", "ended", "dropped"}

LEMMA TypedIs ==
  StreamTyped <=>
    /\ asked \in 0 .. MaxAsks /\ stream \in [Asks -> Streams]
    /\ worker \in [Asks -> Workers] /\ events \in [Asks -> Seq(EventRecords)]
    /\ page \in PageRecords
BY DEF StreamTyped, Streams, Workers, PageRecords

LEMMA AskFacts ==
  ASSUME StreamInv, NEW n \in Asks
  PROVE  /\ n \in Nat /\ n # 0 /\ asked \in Nat /\ stream[n] \in Streams
         /\ worker[n] \in Workers /\ events[n] \in Seq(EventRecords) /\ page \in PageRecords
         /\ WorkerOK(n) /\ (n > asked => stream[n] = "none")
         /\ IF stream[n] = "open" THEN OpenOK(n) ELSE events[n] = <<>>
<1>1. n \in Nat /\ n # 0 /\ asked \in Nat
  BY AskStreamAssumption DEF Asks, StreamInv, StreamTyped
<1>2. AskOK(n)
  BY DEF StreamInv
<1> QED
  BY <1>1, <1>2, TypedIs DEF StreamInv, AskOK

(* An ask is as it was when only another one changes, and the page only if *)
(* it listens to that other one.                                           *)
LEMMA OtherAsk ==
  ASSUME StreamInv, NEW m \in Asks, asked' = asked,
         stream'[m] = stream[m], worker'[m] = worker[m], events'[m] = events[m],
         m \in page'.es => page' = page
  PROVE  AskOK(m)'
<1>1. AskOK(m)
  BY DEF StreamInv
<1>2. OpenOK(m) => OpenOK(m)'
  BY DEF OpenOK
<1> QED
  BY <1>1, <1>2 DEF AskOK, WorkerOK

(* The worker goes on: the page is told nothing of it, nor is it due.      *)
LEMMA WorkerStepPage ==
  ASSUME StreamInv, NEW n \in Asks, UNCHANGED <<asked, stream, page>>,
         worker[n].state # "ended", \A m \in Asks \ {n} : worker'[m] = worker[m]
  PROVE  PageOK'
<1>1. PageOK
  BY DEF StreamInv
<1>2. CASE asked = n
  BY <1>1, <1>2 DEF PageOK
<1>3. CASE asked # n
  <2>1. asked > 0 => asked \in Asks \ {n}
    BY <1>3, AskStreamAssumption DEF StreamInv, StreamTyped, Asks
  <2> QED
    BY <1>1, <2>1 DEF PageOK
<1> QED
  BY <1>2, <1>3

(* what events.put() does *)
LEMMA PutChanges ==
  ASSUME StreamInv, NEW n \in Asks, NEW event \in EventRecords, Put(n, event)
  PROVE  /\ events' \in [Asks -> Seq(EventRecords)]
         /\ \A m \in Asks \ {n} : events'[m] = events[m]
         /\ stream[n] = "open" => events'[n] = Append(events[n], event)
         /\ stream[n] # "open" => events'[n] = events[n]
<1>1. events \in [Asks -> Seq(EventRecords)] /\ Append(events[n], event) \in Seq(EventRecords)
  BY DEF StreamInv, StreamTyped
<1> QED
  BY <1>1 DEF Put

(* what a step of the worker has to show *)
LEMMA WorkerStep ==
  ASSUME StreamInv, NEW n \in Asks, UNCHANGED <<asked, stream, page>>,
         NEW w \in Workers, worker' = [worker EXCEPT ![n] = w],
         NEW event \in EventRecords, Put(n, event),
         worker[n].state \in {"answering", "ending"}, w.state \in {"answering", "ending", "ended"},
         w.outcome = "none" <=> w.state = "answering",
         \A unsent \in 0 .. worker[n].at, untold \in 0 .. 1 :
           QueueIs(events[n], worker[n], unsent, untold) =>
             \E u \in 0 .. w.at, t \in 0 .. 1 :
               /\ QueueIs(Append(events[n], event), w, u, t)
               /\ w.at - u = worker[n].at - unsent
               /\ Readout(w.outcome, t) = Readout(worker[n].outcome, untold)
  PROVE  StreamInv'
<1>1. /\ worker' \in [Asks -> Workers] /\ worker'[n] = w
      /\ \A m \in Asks \ {n} : worker'[m] = worker[m]
  BY TypedIs DEF StreamInv
<1>2. StreamTyped'
  BY <1>1, PutChanges, TypedIs DEF StreamInv, StreamTyped, Workers
<1>3. PageOK'
  BY <1>1, WorkerStepPage
<1>4. WorkerOK(n)' /\ (n > asked => stream[n] = "none")
  BY <1>1, AskFacts DEF WorkerOK
<1>0. /\ asked' = asked /\ stream' = stream /\ page' = page
      /\ \A m \in Asks \ {n} :
           stream'[m] = stream[m] /\ worker'[m] = worker[m] /\ events'[m] = events[m]
  BY <1>1, PutChanges
<1>5. stream[n] = "open" => OpenOK(n)'
  <2> SUFFICES ASSUME stream[n] = "open" PROVE OpenOK(n)'
    OBVIOUS
  <2>1. PICK unsent \in 0 .. worker[n].at, untold \in 0 .. 1 :
          /\ QueueIs(events[n], worker[n], unsent, untold)
          /\ n \in page.es => PageShows(page, worker[n], unsent, untold)
    BY AskFacts DEF OpenOK
  <2>2. PICK u \in 0 .. w.at, t \in 0 .. 1 :
          /\ QueueIs(Append(events[n], event), w, u, t)
          /\ w.at - u = worker[n].at - unsent
          /\ Readout(w.outcome, t) = Readout(worker[n].outcome, untold)
    BY <2>1
  <2>3. QueueIs(events'[n], worker'[n], u, t)
    BY <1>1, <2>2, PutChanges
  <2>4. n \in page'.es => PageShows(page', worker'[n], u, t)
    BY <1>1, <2>1, <2>2 DEF PageShows
  <2> QED
    BY <1>1, <2>3, <2>4 DEF OpenOK
<1>6. stream[n] # "open" => events'[n] = <<>>
  BY AskFacts, PutChanges
<1>8. AskOK(n)'
  BY <1>4, <1>5, <1>6, <1>0 DEF AskOK
<1> QED
  <2>1. \A m \in Asks \ {n} : AskOK(m)'
    BY <1>0, OtherAsk
  <2> QED
    BY <1>2, <1>3, <1>8, <2>1 DEF StreamInv

LEMMA ReportKeepsInv ==
  ASSUME StreamInv, NEW n \in Asks, Report(n)
  PROVE  StreamInv'
<1> DEFINE w == [worker[n] EXCEPT !.at = @ + 1]
<1>1. /\ worker[n] \in Workers /\ worker[n].at \in Nat /\ worker[n].at < Len(Stages)
      /\ worker[n].state = "answering" /\ worker[n].outcome = "none" /\ Len(Stages) \in Nat
      /\ UNCHANGED <<asked, stream, page>>
  BY AskFacts, StagesCounted DEF Report, WorkerOK, Workers
<1>2. w \in Workers /\ w.at = worker[n].at + 1 /\ w.state = "answering" /\ w.outcome = "none"
  BY <1>1 DEF Workers
<1>3. worker' = [worker EXCEPT ![n] = w]
  BY DEF Report
<1>4. StepEvent(worker[n].at + 1) \in EventRecords
  BY <1>1, EventsTyped
<1>5. ASSUME NEW unsent \in 0 .. worker[n].at, NEW untold \in 0 .. 1,
             QueueIs(events[n], worker[n], unsent, untold)
      PROVE  \E u \in 0 .. w.at, t \in 0 .. 1 :
               /\ QueueIs(Append(events[n], StepEvent(worker[n].at + 1)), w, u, t)
               /\ w.at - u = worker[n].at - unsent
               /\ Readout(w.outcome, t) = Readout(worker[n].outcome, untold)
  <2>1. QueueIs(events[n], worker[n], unsent, 0) /\ untold = 0
    BY <1>1, <1>5 DEF QueueIs
  <2>2. QueueIs(Append(events[n], StepEvent(worker[n].at + 1)), w, unsent + 1, 0)
    BY <1>1, <2>1, AskFacts, QueueStep
  <2>3. unsent + 1 \in 0 .. w.at /\ w.at - (unsent + 1) = worker[n].at - unsent
    BY <1>1, <1>2
  <2>4. Readout(w.outcome, 0) = Readout(worker[n].outcome, untold)
    BY <1>1, <1>2, <2>1 DEF Readout
  <2> HIDE DEF w
  <2> QED
    BY <2>2, <2>3, <2>4
<1>6. Put(n, StepEvent(worker[n].at + 1))
  BY DEF Report
<1> HIDE DEF w
<1> QED
  BY <1>1, <1>2, <1>3, <1>4, <1>5, <1>6, WorkerStep

(* the worker puts its outcome: a result, one the page cannot read, or an error *)
LEMMA OutcomeKeepsInv ==
  ASSUME StreamInv, NEW n \in Asks, NEW outcome \in {"result", "unreadable", "error"},
         worker[n].state = "answering", UNCHANGED <<asked, stream, page>>,
         worker' = [worker EXCEPT ![n].state = "ending", ![n].outcome = outcome],
         NEW event \in EventRecords, IsOutcome(event, outcome), Put(n, event)
  PROVE  StreamInv'
<1> DEFINE w == [worker[n] EXCEPT !.state = "ending", !.outcome = outcome]
<1>1. /\ worker[n] \in Workers /\ worker[n].at \in Nat /\ worker[n].outcome = "none"
  BY AskFacts, StagesCounted DEF WorkerOK, Workers
<1>2. w \in Workers /\ w.at = worker[n].at /\ w.state = "ending" /\ w.outcome = outcome
  BY <1>1 DEF Workers
<1>3. worker' = [worker EXCEPT ![n] = w]
  BY TypedIs DEF StreamInv, Workers
<1>4. ASSUME NEW unsent \in 0 .. worker[n].at, NEW untold \in 0 .. 1,
             QueueIs(events[n], worker[n], unsent, untold)
      PROVE  \E u \in 0 .. w.at, t \in 0 .. 1 :
               /\ QueueIs(Append(events[n], event), w, u, t)
               /\ w.at - u = worker[n].at - unsent
               /\ Readout(w.outcome, t) = Readout(worker[n].outcome, untold)
  <2>1. QueueIs(events[n], worker[n], unsent, 0) /\ untold = 0
    BY <1>4 DEF QueueIs
  <2>2. QueueIs(Append(events[n], event), w, unsent, 1)
    BY <1>1, <1>2, <2>1, AskFacts, QueueOutcome
  <2>3. Readout(w.outcome, 1) = Readout(worker[n].outcome, untold)
    BY <1>1 DEF Readout
  <2> HIDE DEF w
  <2> QED
    BY <1>2, <2>2, <2>3
<1> HIDE DEF w
<1> QED
  BY <1>1, <1>2, <1>3, <1>4, WorkerStep

LEMMA PutResultKeepsInv ==
  ASSUME StreamInv, NEW n \in Asks, PutResult(n)
  PROVE  StreamInv'
<1>1. PICK readable \in BOOLEAN :
        /\ worker' = [worker EXCEPT ![n].state = "ending",
                                    ![n].outcome = IF readable THEN "result" ELSE "unreadable"]
        /\ Put(n, [Event("result") EXCEPT !.readable = readable])
  BY DEF PutResult
<1> DEFINE event == [Event("result") EXCEPT !.readable = readable]
           outcome == IF readable THEN "result" ELSE "unreadable"
<1>2. event = [type |-> "result", step |-> 0, readable |-> readable]
  BY DEF Event
<1>3. event \in EventRecords /\ IsOutcome(event, outcome)
  BY <1>2, StagesCounted DEF EventRecords, Types, IsOutcome
<1>4. worker[n].state = "answering" /\ UNCHANGED <<asked, stream, page>>
  BY DEF PutResult
<1>5. outcome \in {"result", "unreadable", "error"}
  OBVIOUS
<1> HIDE DEF event
<1> QED
  BY <1>1, <1>3, <1>4, <1>5, OutcomeKeepsInv DEF event

LEMMA PutErrorKeepsInv ==
  ASSUME StreamInv, NEW n \in Asks, PutError(n)
  PROVE  StreamInv'
<1>1. IsOutcome(Event("error"), "error") /\ Event("error") \in EventRecords
  BY EventsTyped DEF IsOutcome, Event
<1> QED
  BY <1>1, OutcomeKeepsInv DEF PutError

LEMMA PutEndKeepsInv ==
  ASSUME StreamInv, NEW n \in Asks, PutEnd(n)
  PROVE  StreamInv'
<1> DEFINE w == [worker[n] EXCEPT !.state = "ended"]
<1>1. /\ worker[n] \in Workers /\ worker[n].at \in Nat /\ worker[n].state = "ending"
      /\ worker[n].outcome # "none" /\ UNCHANGED <<asked, stream, page>>
  BY AskFacts, StagesCounted DEF WorkerOK, Workers, PutEnd
<1>2. /\ w \in Workers /\ w.at = worker[n].at /\ w.state = "ended"
      /\ w.outcome = worker[n].outcome
  BY <1>1 DEF Workers
<1>3. worker' = [worker EXCEPT ![n] = w] /\ Put(n, Event("__end__"))
  BY DEF PutEnd
<1>4. ASSUME NEW unsent \in 0 .. worker[n].at, NEW untold \in 0 .. 1,
             QueueIs(events[n], worker[n], unsent, untold)
      PROVE  \E u \in 0 .. w.at, t \in 0 .. 1 :
               /\ QueueIs(Append(events[n], Event("__end__")), w, u, t)
               /\ w.at - u = worker[n].at - unsent
               /\ Readout(w.outcome, t) = Readout(worker[n].outcome, untold)
  <2>1. QueueIs(Append(events[n], Event("__end__")), w, unsent, untold)
    BY <1>1, <1>4, AskFacts, QueueEnd
  <2> HIDE DEF w
  <2> QED
    BY <1>2, <2>1
<1> HIDE DEF w
<1> QED
  BY <1>1, <1>2, <1>3, <1>4, EventsTyped, WorkerStep

-----------------------------------------------------------------------------
(* What the page shows *)

LEMMA Listening ==
  ASSUME StreamInv, NEW n \in Asks
  PROVE  /\ page \in PageRecords /\ page.of = asked /\ asked \in 0 .. MaxAsks
         /\ page.disabled <=> page.es # {}
         /\ n \in page.es =>
              /\ page.es = {n} /\ asked = n /\ page.of = n /\ page.disabled /\ ~page.done
              /\ stream[n] \in {"requested", "open"}
              /\ stream[n] = "requested" =>
                   page.gates = <<>> /\ page.readout = "running" /\ ~page.drawn
BY TypedIs DEF StreamInv, PageOK

(* What leaves the page alone, and moves an ask that it does not listen to.*)
LEMMA PageLeft ==
  ASSUME StreamInv, NEW n \in Asks, n \notin page.es, UNCHANGED <<asked, page>>,
         worker' \in [Asks -> Workers], worker[n].state # "ended" \/ worker'[n] = worker[n],
         \A m \in Asks \ {n} : stream'[m] = stream[m] /\ worker'[m] = worker[m]
  PROVE  PageOK'
<1>1. PageOK /\ page.es \subseteq Asks
  BY TypedIs DEF StreamInv, PageRecords
<1>2. \A m \in page.es : stream'[m] = stream[m]
  BY <1>1
<1>3. CASE asked = n
  BY <1>1, <1>2, <1>3 DEF PageOK
<1>4. CASE asked # n
  <2>1. asked > 0 => asked \in Asks \ {n}
    BY <1>4, AskStreamAssumption DEF StreamInv, StreamTyped, Asks
  <2> QED
    BY <1>1, <1>2, <2>1 DEF PageOK
<1> QED
  BY <1>3, <1>4

(* The page takes its source away and is told something: it is free.       *)
LEMMA PageFreed ==
  ASSUME StreamInv, NEW n \in Asks, n \in page.es, asked' = asked, NEW p \in PageRecords,
         page' = [Finished(p) EXCEPT !.of = n],
         \/ p.readout = "lost"
         \/ /\ worker'[n].state = "ended"
            /\ p.readout = Readout(worker'[n].outcome, 0)
  PROVE  /\ PageOK' /\ page' \in PageRecords /\ page'.es = {} /\ ~page'.disabled
         /\ page'.readout = p.readout /\ page'.gates = p.gates
<1>1. asked = n /\ n \in 0 .. MaxAsks
  BY Listening
<1>2. /\ page' \in PageRecords /\ page'.es = {} /\ ~page'.disabled /\ page'.of = n
      /\ page'.readout = p.readout /\ page'.gates = p.gates
  BY <1>1 DEF PageRecords, Finished
<1> QED
  BY <1>1, <1>2 DEF PageOK

LEMMA LostPage ==
  ASSUME StreamInv, NEW n \in Asks, UNCHANGED <<asked, worker>>, page' = Lost(n),
         \A m \in Asks \ {n} : stream'[m] = stream[m]
  PROVE  /\ PageOK' /\ page' \in PageRecords /\ n \notin page'.es
         /\ \A m \in Asks : m \in page'.es => page' = page
         /\ n \notin page.es => page' = page
         /\ n \in page.es => /\ page.disabled /\ ~page'.disabled
                             /\ page'.readout = "lost" /\ page'.gates = page.gates
<1>1. CASE n \notin page.es
  <2>1. page' = page
    BY <1>1 DEF Lost
  <2>2. worker' \in [Asks -> Workers]
    BY TypedIs DEF StreamInv
  <2>3. PageOK'
    BY <1>1, <2>1, <2>2, PageLeft
  <2> QED
    BY <1>1, <2>1, <2>3, Listening
<1>2. CASE n \in page.es
  <2>1. PICK p \in PageRecords : /\ p = [page EXCEPT !.readout = "lost", !.of = n]
                                /\ p.readout = "lost" /\ p.gates = page.gates
    <3>1. /\ [page EXCEPT !.readout = "lost", !.of = n] \in PageRecords
          /\ [page EXCEPT !.readout = "lost", !.of = n].readout = "lost"
          /\ [page EXCEPT !.readout = "lost", !.of = n].gates = page.gates
      BY <1>2, Listening DEF PageRecords
    <3> QED
      BY <3>1
  <2>2. page' = [Finished(p) EXCEPT !.of = n]
    BY <1>2, <2>1, Listening DEF Lost, Finished, PageRecords
  <2>3. /\ PageOK' /\ page' \in PageRecords /\ page'.es = {} /\ ~page'.disabled
        /\ page'.readout = "lost" /\ page'.gates = page.gates
    <3>1. asked' = asked /\ asked = n /\ n \in 0 .. MaxAsks
      BY <1>2, Listening
    <3>2. /\ page' \in PageRecords /\ page'.es = {} /\ ~page'.disabled /\ page'.of = n
          /\ page'.readout = "lost" /\ page'.gates = page.gates
      BY <2>1, <2>2, <3>1 DEF PageRecords, Finished
    <3> QED
      BY <3>1, <3>2 DEF PageOK
  <2> QED
    BY <1>2, <2>3, Listening
<1> QED
  BY <1>1, <1>2

-----------------------------------------------------------------------------
(* The steps of the page and of the server *)

LEMMA StartKeepsInv ==
  ASSUME StreamInv, Start
  PROVE  StreamInv'
<1>1. PICK n \in Asks : n = asked + 1 /\ n > asked /\ n \in 0 .. MaxAsks /\ n > 0
  BY AskStreamAssumption DEF Start, StreamInv, StreamTyped, Asks
<1>2. /\ asked' = n /\ stream' = [stream EXCEPT ![n] = "requested"]
      /\ worker' = worker /\ events' = events /\ page' = AskedAnew(n)
  BY <1>1 DEF Start
<1>3. stream[n] = "none"
  BY <1>1, AskFacts
<1>4. /\ page' \in PageRecords /\ page'.es = {n} /\ ~page'.done /\ page'.of = n
      /\ page'.disabled /\ ~page'.drawn /\ page'.gates = <<>> /\ page'.readout = "running"
  <2>1. <<>> \in Seq(DOMAIN Stages)
    OBVIOUS
  <2> QED
    BY <1>1, <1>2, <2>1 DEF AskedAnew, EmptyPage, PageRecords
<1>5. stream' \in [Asks -> Streams] /\ stream'[n] = "requested"
      /\ \A m \in Asks \ {n} : stream'[m] = stream[m]
  BY <1>1, <1>2, TypedIs DEF StreamInv, Streams
<1>6. StreamTyped'
  <2>1. asked' \in 0 .. MaxAsks
    BY <1>1, <1>2
  <2> QED
    BY <1>2, <1>4, <1>5, <2>1 DEF StreamInv, StreamTyped, PageRecords, Streams
<1>7. PageOK'
  BY <1>1, <1>2, <1>4, <1>5 DEF PageOK
<1>8. ASSUME NEW m \in Asks \ {n} PROVE AskOK(m)'
  <2>1. AskOK(m) /\ m \in Nat
    BY AskFacts DEF StreamInv
  <2>2. OpenOK(m) => OpenOK(m)'
    BY <1>2, <1>4 DEF OpenOK
  <2>3. stream'[m] = stream[m] /\ (m > asked' => m > asked)
    BY <1>1, <1>2, <1>5, <2>1, AskFacts
  <2> QED
    BY <1>2, <2>1, <2>2, <2>3 DEF AskOK, WorkerOK
<1>9. AskOK(n)'
  <2>1. WorkerOK(n) /\ events[n] = <<>>
    BY <1>1, <1>3, AskFacts
  <2> QED
    BY <1>1, <1>2, <1>3, <1>5, <2>1 DEF AskOK, WorkerOK
<1>10. \A m \in Asks : AskOK(m)'
  BY <1>8, <1>9
<1> QED
  BY <1>6, <1>7, <1>10 DEF StreamInv

LEMMA DisconnectKeepsInv ==
  ASSUME StreamInv, NEW n \in Asks, Disconnect(n)
  PROVE  StreamInv'
<1>1. UNCHANGED <<asked, stream, worker, events>> /\ page' = Lost(n)
  BY DEF Disconnect
<1>2. /\ PageOK' /\ page' \in PageRecords /\ n \notin page'.es
      /\ \A m \in Asks : m \in page'.es => page' = page
  BY <1>1, LostPage
<1>3. \A m \in Asks : AskOK(m)'
  BY <1>1, <1>2, OtherAsk
<1>4. StreamTyped'
  BY <1>1, <1>2, TypedIs DEF StreamInv, StreamTyped, PageRecords
<1> QED
  BY <1>2, <1>3, <1>4 DEF StreamInv

LEMMA RefuseKeepsInv ==
  ASSUME StreamInv, NEW n \in Asks, Refuse(n)
  PROVE  StreamInv'
<1>1. /\ UNCHANGED <<asked, worker, events>> /\ page' = Lost(n) /\ stream[n] = "requested"
      /\ stream' = [stream EXCEPT ![n] = "refused"]
  BY DEF Refuse
<1>2. stream' \in [Asks -> Streams] /\ stream'[n] = "refused"
      /\ \A m \in Asks \ {n} : stream'[m] = stream[m]
  BY <1>1, TypedIs DEF StreamInv, Streams
<1>3. /\ PageOK' /\ page' \in PageRecords /\ n \notin page'.es
      /\ \A m \in Asks : m \in page'.es => page' = page
  BY <1>1, <1>2, LostPage
<1>4. \A m \in Asks \ {n} : AskOK(m)'
  BY <1>1, <1>2, <1>3, OtherAsk
<1>5. AskOK(n)'
  BY <1>1, <1>2, AskFacts DEF AskOK, WorkerOK
<1>6. StreamTyped'
  BY <1>1, <1>2, <1>3, TypedIs DEF StreamInv, StreamTyped, PageRecords, Streams
<1> QED
  BY <1>3, <1>4, <1>5, <1>6 DEF StreamInv

LEMMA NeverOpenedKeepsInv ==
  ASSUME StreamInv, NEW n \in Asks, NeverOpened(n)
  PROVE  StreamInv'
<1>1. /\ asked' = asked /\ worker' = worker /\ events' = events /\ page' = page
      /\ n \notin page.es /\ stream[n] = "requested"
      /\ stream' = [stream EXCEPT ![n] = "dropped"]
  BY DEF NeverOpened
<1>2. stream' \in [Asks -> Streams] /\ stream'[n] = "dropped"
      /\ \A m \in Asks \ {n} : stream'[m] = stream[m]
  BY <1>1, TypedIs DEF StreamInv, Streams
<1>3. worker' \in [Asks -> Workers]
  BY <1>1, TypedIs DEF StreamInv
<1>4. PageOK'
  BY <1>1, <1>2, <1>3, PageLeft
<1>5. \A m \in Asks \ {n} : AskOK(m)'
  BY <1>1, <1>2, OtherAsk
<1>6. AskOK(n)'
  BY <1>1, <1>2, AskFacts DEF AskOK, WorkerOK
<1>7. StreamTyped'
  BY <1>1, <1>2, TypedIs DEF StreamInv, StreamTyped, Streams
<1> QED
  BY <1>4, <1>5, <1>6, <1>7 DEF StreamInv

(* The page is told something that leaves it waiting. *)
LEMMA PageTold ==
  ASSUME StreamInv, NEW n \in Asks, n \in page.es, asked' = asked, page' \in PageRecords,
         page'.es = page.es, page'.of = n, page'.done = page.done,
         page'.disabled = page.disabled, stream'[n] = "open"
  PROVE  PageOK'
BY Listening DEF PageOK

LEMMA OpenKeepsInv ==
  ASSUME StreamInv, NEW n \in Asks, Open(n)
  PROVE  /\ StreamInv'
         /\ page'.disabled = page.disabled /\ page'.readout = page.readout
         /\ page'.gates = page.gates
<1>1. /\ asked' = asked /\ events' = events /\ page' = Delivered(n, Event("stages"))
      /\ stream[n] = "requested" /\ stream' = [stream EXCEPT ![n] = "open"]
      /\ worker' = [worker EXCEPT ![n].state = "answering"]
  BY DEF Open
<1> DEFINE w == [worker[n] EXCEPT !.state = "answering"]
<1>2. /\ worker[n].at = 0 /\ worker[n].outcome = "none" /\ worker[n].state = "none"
      /\ events[n] = <<>> /\ worker[n] \in Workers
  BY <1>1, AskFacts DEF WorkerOK
<1>3. /\ w \in Workers /\ w.at = 0 /\ w.outcome = "none" /\ w.state = "answering"
  BY <1>2 DEF Workers
<1>4. worker' = [worker EXCEPT ![n] = w]
  BY <1>1
<1> HIDE DEF w
<1>5. /\ stream' \in [Asks -> Streams] /\ stream'[n] = "open"
      /\ worker' \in [Asks -> Workers] /\ worker'[n] = w
      /\ \A m \in Asks \ {n} : stream'[m] = stream[m] /\ worker'[m] = worker[m]
  BY <1>1, <1>3, <1>4, TypedIs DEF StreamInv, Streams
<1>6. CASE n \notin page.es
  <2>1. page' = page
    BY <1>1, <1>6 DEF Delivered
  <2>2. PageOK'
    BY <1>1, <1>2, <1>5, <1>6, <2>1, PageLeft
  <2>3. QueueIs(<<>>, w, 0, 0)
    BY <1>3 DEF QueueIs
  <2>4. OpenOK(n)'
    <3>1. events'[n] = <<>> /\ worker'[n] = w /\ 0 \in 0 .. worker'[n].at /\ n \notin page'.es
      BY <1>1, <1>2, <1>3, <1>5, <1>6, <2>1
    <3> QED
      BY <2>3, <3>1 DEF OpenOK
  <2>5. AskOK(n)'
    BY <1>1, <1>3, <1>5, <2>4, AskFacts DEF AskOK, WorkerOK
  <2>6. \A m \in Asks \ {n} : AskOK(m)'
    BY <1>1, <1>5, <2>1, OtherAsk
  <2>7. StreamTyped'
    BY <1>1, <1>5, <2>1, TypedIs DEF StreamInv, StreamTyped, Streams, Workers
  <2> QED
    BY <2>1, <2>2, <2>5, <2>6, <2>7 DEF StreamInv
<1>7. CASE n \in page.es
  <2>1. /\ page \in PageRecords /\ page.es = {n} /\ page.gates = <<>> /\ page.readout = "running"
        /\ n \in 0 .. MaxAsks
    BY <1>1, <1>7, Listening
  <2>2. page' = [page EXCEPT !.drawn = TRUE, !.gates = <<>>, !.of = n]
    <3>1. Event("stages").readable /\ Event("stages").type = "stages"
      BY DEF Event
    <3> QED
      BY <1>1, <1>7, <2>1, <3>1 DEF Delivered, Handled, PageRecords
  <2>3. /\ page' \in PageRecords /\ page'.es = page.es /\ page'.of = n /\ page'.drawn = TRUE
        /\ page'.done = page.done /\ page'.disabled = page.disabled
        /\ page'.gates = <<>> /\ page'.readout = "running"
    BY <2>1, <2>2 DEF PageRecords
  <2>4. PageOK'
    BY <1>1, <1>5, <1>7, <2>3, PageTold
  <2>5. QueueIs(<<>>, w, 0, 0)
    BY <1>3 DEF QueueIs
  <2>6. PageShows(page', w, 0, 0)
    <3>1. [i \in 1 .. (w.at - 0) |-> i] = <<>>
      BY <1>3
    <3> QED
      BY <1>3, <2>3, <3>1 DEF PageShows, Readout
  <2>7. OpenOK(n)'
    <3>1. events'[n] = <<>> /\ worker'[n] = w /\ 0 \in 0 .. worker'[n].at
      BY <1>1, <1>2, <1>3, <1>5
    <3> QED
      BY <2>5, <2>6, <3>1 DEF OpenOK
  <2>8. AskOK(n)'
    BY <1>1, <1>3, <1>5, <2>7, AskFacts DEF AskOK, WorkerOK
  <2>9. \A m \in Asks \ {n} : AskOK(m)'
    BY <1>1, <1>5, <2>1, <2>3, OtherAsk
  <2>10. StreamTyped'
    BY <1>1, <1>5, <2>3, TypedIs DEF StreamInv, StreamTyped, Streams, Workers, PageRecords
  <2> QED
    BY <2>1, <2>3, <2>4, <2>8, <2>9, <2>10 DEF StreamInv
<1> QED
  BY <1>6, <1>7

(* what a message of the queue does to a page that listens *)
LEMMA GatesGrow ==
  ASSUME NEW k \in Nat
  PROVE  Append([i \in 1 .. k |-> i], k + 1) = [i \in 1 .. k + 1 |-> i]
<1> DEFINE g == [i \in 1 .. k |-> i]
<1>1. g \in Seq(Nat) /\ Len(g) = k
  OBVIOUS
<1>2. \A i \in 1 .. k + 1 : Append(g, k + 1)[i] = i
  BY <1>1
<1>3. Len(Append(g, k + 1)) = k + 1 /\ Append(g, k + 1) \in Seq(Nat)
  BY <1>1
<1> HIDE DEF g
<1>4. Append(g, k + 1) = [i \in 1 .. k + 1 |-> i]
  BY <1>2, <1>3
<1> QED
  BY <1>4 DEF g

LEMMA StepShown ==
  ASSUME StreamInv, NEW n \in Asks, n \in page.es, NEW w \in Workers,
         NEW unsent \in 1 .. w.at, NEW untold \in 0 .. 1,
         PageShows(page, w, unsent, untold),
         page' = Delivered(n, StepEvent(w.at - unsent + 1))
  PROVE  /\ page' \in PageRecords /\ page'.es = page.es /\ page'.of = n
         /\ page'.done = page.done /\ page'.disabled = page.disabled
         /\ page'.readout = page.readout
         /\ page'.gates = Append(page.gates, Len(page.gates) + 1)
         /\ Len(page.gates) < Len(Stages)
         /\ PageShows(page', w, unsent - 1, untold)
<1> DEFINE k == w.at - unsent
<1>1. /\ k \in Nat /\ k + 1 \in DOMAIN Stages /\ k < Len(Stages) /\ w.at - (unsent - 1) = k + 1
  BY AskStreamAssumption, StagesCounted DEF Workers
<1>2. /\ page.drawn /\ page.gates = [i \in 1 .. k |-> i]
      /\ page.readout = Readout(w.outcome, untold)
  BY DEF PageShows
<1>3. StepEvent(k + 1).type = "step" /\ StepEvent(k + 1).step = k + 1 /\ StepEvent(k + 1).readable
  BY EventTypes
<1>4. page' = Delivered(n, StepEvent(k + 1))
  OBVIOUS
<1> HIDE DEF k
<1>5. page \in PageRecords /\ n \in 0 .. MaxAsks
  BY Listening
<1>6. page' = [page EXCEPT !.gates = Append(@, k + 1), !.of = n]
  BY <1>2, <1>3, <1>4, <1>5 DEF Delivered, Handled, StepApplied, PageRecords
<1>7. Len(page.gates) = k
  BY <1>1, <1>2
<1>8. Append(page.gates, k + 1) \in Seq(DOMAIN Stages)
  BY <1>1, <1>5 DEF PageRecords
<1>9. /\ page' \in PageRecords /\ page'.es = page.es /\ page'.of = n /\ page'.drawn = page.drawn
      /\ page'.done = page.done /\ page'.disabled = page.disabled
      /\ page'.readout = page.readout
      /\ page'.gates = Append(page.gates, k + 1)
  BY <1>5, <1>6, <1>8 DEF PageRecords
<1>10. page'.gates = [i \in 1 .. w.at - (unsent - 1) |-> i]
  BY <1>1, <1>2, <1>9, GatesGrow
<1> QED
  BY <1>1, <1>2, <1>7, <1>9, <1>10 DEF PageShows

LEMMA OutcomeShown ==
  ASSUME StreamInv, NEW n \in Asks, n \in page.es, NEW w \in Workers, w.outcome # "none",
         PageShows(page, w, 0, 1), NEW event \in EventRecords, IsOutcome(event, w.outcome),
         page' = Delivered(n, event)
  PROVE  /\ page' \in PageRecords /\ page'.es = page.es /\ page'.of = n
         /\ page'.done = page.done /\ page'.disabled = page.disabled
         /\ page'.gates = page.gates
         /\ page.readout = "running" /\ page'.readout \in {"running", "result", "error"}
         /\ PageShows(page', w, 0, 0)
<1>1. /\ page.drawn /\ page.gates = [i \in 1 .. w.at - 0 |-> i] /\ page.readout = "running"
  BY DEF PageShows, Readout
<1>2. page \in PageRecords /\ n \in 0 .. MaxAsks /\ w.outcome \in {"result", "unreadable", "error"}
  BY Listening DEF Workers
<1>3. page' = [page EXCEPT !.readout = Readout(w.outcome, 0), !.of = n]
  <2>1. CASE w.outcome = "unreadable"
    <3>1. ~event.readable /\ Readout(w.outcome, 0) = "running"
      BY <2>1 DEF IsOutcome, Readout
    <3>2. page' = [page EXCEPT !.of = n]
      BY <3>1 DEF Delivered, Handled
    <3> QED
      BY <1>1, <1>2, <3>1, <3>2 DEF PageRecords
  <2>2. CASE w.outcome \in {"result", "error"}
    <3>1. event.readable /\ event.type = w.outcome /\ Readout(w.outcome, 0) = w.outcome
      BY <2>2 DEF IsOutcome, Readout
    <3>2. page' = [[page EXCEPT !.readout = event.type] EXCEPT !.of = n]
      BY <2>2, <3>1 DEF Delivered, Handled
    <3> QED
      BY <1>2, <3>1, <3>2 DEF PageRecords
  <2> QED
    BY <1>2, <2>1, <2>2
<1>4. Readout(w.outcome, 0) \in {"running", "result", "error"}
  BY <1>2 DEF Readout
<1>5. /\ page' \in PageRecords /\ page'.es = page.es /\ page'.of = n /\ page'.drawn = page.drawn
      /\ page'.done = page.done /\ page'.disabled = page.disabled
      /\ page'.readout = Readout(w.outcome, 0) /\ page'.gates = page.gates
  BY <1>2, <1>3, <1>4 DEF PageRecords
<1> QED
  BY <1>1, <1>4, <1>5 DEF PageShows

(* A message is relayed, and the generator stays or has been left. *)
LEMMA RelayChanges ==
  ASSUME StreamInv, NEW n \in Asks, Relay(n)
  PROVE  /\ asked' = asked /\ worker' = worker /\ page' = Delivered(n, events[n][1])
         /\ stream[n] = "open" /\ events[n] # <<>> /\ events[n][1].type # "__end__"
         /\ stream' \in [Asks -> Streams] /\ events' \in [Asks -> Seq(EventRecords)]
         /\ \A m \in Asks \ {n} : stream'[m] = stream[m] /\ events'[m] = events[m]
         /\ \/ stream'[n] = "open" /\ events'[n] = Tail(events[n])
            \/ stream'[n] = "dropped" /\ events'[n] = <<>> /\ n \notin page.es
<1>1. /\ asked' = asked /\ worker' = worker /\ page' = Delivered(n, events[n][1])
      /\ stream[n] = "open" /\ events[n] # <<>> /\ events[n][1].type # "__end__"
  BY DEF Relay, Oldest
<1>2. PICK state \in MayDrop(n) :
        /\ stream' = [stream EXCEPT ![n] = state]
        /\ events' = [events EXCEPT ![n] = IF state = "open" THEN Tail(@) ELSE <<>>]
  BY DEF Relay
<1>3. state \in {"open", "dropped"} /\ (state = "dropped" => n \notin page.es)
  BY DEF MayDrop
<1>4. stream \in [Asks -> Streams] /\ events \in [Asks -> Seq(EventRecords)]
  BY TypedIs DEF StreamInv
<1>5. Tail(events[n]) \in Seq(EventRecords) /\ <<>> \in Seq(EventRecords)
  BY <1>1, <1>4, EmptySeq
<1>6. /\ stream' \in [Asks -> Streams] /\ events' \in [Asks -> Seq(EventRecords)]
      /\ \A m \in Asks \ {n} : stream'[m] = stream[m] /\ events'[m] = events[m]
  BY <1>2, <1>3, <1>4, <1>5 DEF Streams
<1>7. stream'[n] = state /\ events'[n] = IF state = "open" THEN Tail(events[n]) ELSE <<>>
  BY <1>2, <1>4
<1> QED
  BY <1>1, <1>3, <1>6, <1>7

(* what it tells a page that listens: a stage, or the outcome *)
LEMMA RelayShown ==
  ASSUME StreamInv, NEW n \in Asks, Relay(n), n \in page.es
  PROVE  /\ page' \in PageRecords /\ page'.es = page.es /\ page'.of = n
         /\ page'.done = page.done /\ page'.disabled = page.disabled /\ page.disabled
         /\ page.readout = "running"
         /\ \/ /\ page'.readout = page.readout /\ Len(page.gates) < Len(Stages)
               /\ page'.gates = Append(page.gates, Len(page.gates) + 1)
            \/ /\ page'.gates = page.gates
               /\ page'.readout \in {"running", "result", "error"}
         /\ OpenOK(n)'
<1>1. PICK unsent \in 0 .. worker[n].at, untold \in 0 .. 1 :
        /\ QueueIs(events[n], worker[n], unsent, untold)
        /\ PageShows(page, worker[n], unsent, untold)
  BY RelayChanges, AskFacts DEF OpenOK
<1>0. PICK w \in Workers, queue \in Seq(EventRecords) : w = worker[n] /\ queue = events[n]
  BY AskFacts
<1>2. /\ w \in Workers /\ queue \in Seq(EventRecords) /\ w.at \in Nat /\ queue # <<>>
      /\ queue[1] \in EventRecords /\ queue[1].type # "__end__"
      /\ (w.outcome = "none" <=> w.state \in {"none", "answering"})
  <2>1. w \in Workers /\ queue \in Seq(EventRecords) /\ queue # <<>> /\ queue[1].type # "__end__"
    BY <1>0, RelayChanges, AskFacts
  <2>2. queue[1] \in EventRecords
    BY <2>1, EmptySeq
  <2> QED
    BY <1>0, <2>1, <2>2, AskFacts, StagesCounted DEF Workers, WorkerOK
<1>3. stream'[n] = "open" /\ events'[n] = Tail(queue) /\ worker'[n] = w /\ page.disabled
  BY <1>0, RelayChanges, Listening
<1>4. page' = Delivered(n, queue[1])
  BY <1>0, RelayChanges
<1>5. \/ /\ unsent > 0 /\ queue[1] = StepEvent(w.at - unsent + 1)
         /\ QueueIs(Tail(queue), w, unsent - 1, untold)
      \/ /\ unsent = 0 /\ untold = 1 /\ IsOutcome(queue[1], w.outcome)
         /\ QueueIs(Tail(queue), w, 0, 0)
  <2>1. QueueIs(queue, w, unsent, untold) /\ unsent \in 0 .. w.at
    BY <1>0, <1>1
  <2> QED
    BY <1>2, <2>1, QueueTaken
<1>6. unsent > 0 => w.state = "answering" \/ untold = 1
  BY <1>0, <1>1 DEF QueueIs
<1>7. untold = 1 => w.state \notin {"none", "answering"}
  BY <1>0, <1>1 DEF QueueIs
<1>8. PageShows(page, w, unsent, untold)
  BY <1>0, <1>1
<1>9. CASE /\ unsent > 0 /\ queue[1] = StepEvent(w.at - unsent + 1)
           /\ QueueIs(Tail(queue), w, unsent - 1, untold)
  <2>1. unsent \in 1 .. w.at /\ unsent - 1 \in 0 .. w.at
    BY <1>0, <1>2, <1>9
  <2>2. page.readout = "running"
    BY <1>2, <1>6, <1>8, <1>9 DEF PageShows, Readout
  <2>3. page' = Delivered(n, StepEvent(w.at - unsent + 1))
    BY <1>4, <1>9
  <2>4. /\ page' \in PageRecords /\ page'.es = page.es /\ page'.of = n
        /\ page'.done = page.done /\ page'.disabled = page.disabled
        /\ page'.readout = page.readout
        /\ page'.gates = Append(page.gates, Len(page.gates) + 1)
        /\ Len(page.gates) < Len(Stages)
        /\ PageShows(page', w, unsent - 1, untold)
    BY <1>2, <1>8, <2>1, <2>3, StepShown
  <2>5. OpenOK(n)'
    BY <1>3, <1>9, <2>1, <2>4 DEF OpenOK
  <2> QED
    BY <1>3, <2>2, <2>4, <2>5
<1>10. CASE /\ unsent = 0 /\ untold = 1 /\ IsOutcome(queue[1], w.outcome)
            /\ QueueIs(Tail(queue), w, 0, 0)
  <2>1. PageShows(page, w, 0, 1)
    BY <1>8, <1>10
  <2>3. w.outcome # "none" /\ 0 \in 0 .. w.at
    BY <1>2, <1>7, <1>10
  <2>2. /\ page' \in PageRecords /\ page'.es = page.es /\ page'.of = n
        /\ page'.done = page.done /\ page'.disabled = page.disabled
        /\ page'.gates = page.gates
        /\ page.readout = "running" /\ page'.readout \in {"running", "result", "error"}
        /\ PageShows(page', w, 0, 0)
    BY <1>2, <1>4, <1>10, <2>1, <2>3, OutcomeShown
  <2>4. OpenOK(n)'
    BY <1>3, <1>10, <2>2, <2>3 DEF OpenOK
  <2> QED
    BY <1>3, <2>2, <2>4
<1> QED
  BY <1>5, <1>9, <1>10

LEMMA RelayKeepsInv ==
  ASSUME StreamInv, NEW n \in Asks, Relay(n)
  PROVE  StreamInv'
<1>1. /\ asked' = asked /\ worker' = worker /\ stream[n] = "open"
      /\ stream' \in [Asks -> Streams] /\ events' \in [Asks -> Seq(EventRecords)]
      /\ \A m \in Asks \ {n} : stream'[m] = stream[m] /\ events'[m] = events[m]
      /\ stream'[n] \in {"open", "dropped"} /\ (stream'[n] # "open" => events'[n] = <<>>)
  BY RelayChanges
<1>2. WorkerOK(n) /\ ~(n > asked)
  BY <1>1, AskFacts
<1>3. worker' \in [Asks -> Workers]
  BY <1>1, TypedIs DEF StreamInv
<1>4. /\ page' \in PageRecords /\ PageOK' /\ (stream'[n] = "open" => OpenOK(n)')
      /\ \A m \in Asks \ {n} : m \in page'.es => page' = page
  <2>1. CASE n \in page.es
    <3>1. stream'[n] = "open"
      BY <2>1, RelayChanges
    <3>2. /\ page' \in PageRecords /\ page'.es = page.es /\ page'.of = n
          /\ page'.done = page.done /\ page'.disabled = page.disabled /\ OpenOK(n)'
      BY <2>1, RelayShown
    <3>3. PageOK'
      BY <1>1, <2>1, <3>1, <3>2, PageTold
    <3> QED
      BY <2>1, <3>2, <3>3, Listening
  <2>2. CASE n \notin page.es
    <3>1. page' = page
      BY <2>2, RelayChanges DEF Delivered
    <3>2. PageOK'
      BY <1>1, <1>3, <2>2, <3>1, PageLeft
    <3>3. ASSUME stream'[n] = "open" PROVE OpenOK(n)'
      <4>1. PICK unsent \in 0 .. worker[n].at, untold \in 0 .. 1 :
              QueueIs(events[n], worker[n], unsent, untold)
        BY <1>1, AskFacts DEF OpenOK
      <4>2. events'[n] = Tail(events[n]) /\ events[n] # <<>> /\ events[n][1].type # "__end__"
        BY <3>3, RelayChanges
      <4>3. \E u \in 0 .. worker[n].at, t \in 0 .. 1 :
              QueueIs(Tail(events[n]), worker[n], u, t)
        <5>1. worker[n] \in Workers /\ worker[n].at \in Nat /\ events[n] \in Seq(EventRecords)
          BY AskFacts, StagesCounted DEF Workers
        <5>2. \/ unsent > 0 /\ QueueIs(Tail(events[n]), worker[n], unsent - 1, untold)
              \/ QueueIs(Tail(events[n]), worker[n], 0, 0)
          <6>1. PICK w \in Workers, queue \in Seq(EventRecords) :
                  w = worker[n] /\ queue = events[n]
            BY <5>1
          <6>2. /\ QueueIs(queue, w, unsent, untold) /\ unsent \in 0 .. w.at
                /\ queue # <<>> /\ queue[1].type # "__end__"
            BY <4>1, <4>2, <6>1
          <6>3. \/ unsent > 0 /\ QueueIs(Tail(queue), w, unsent - 1, untold)
                \/ QueueIs(Tail(queue), w, 0, 0)
            BY <6>2, QueueTaken
          <6> QED
            BY <6>1, <6>3
        <5>3. 0 \in 0 .. worker[n].at /\ (unsent > 0 => unsent - 1 \in 0 .. worker[n].at)
          BY <5>1
        <5> QED
          BY <5>2, <5>3
      <4> QED
        BY <1>1, <2>2, <3>1, <4>2, <4>3 DEF OpenOK
    <3> QED
      BY <3>1, <3>2, <3>3, Listening
  <2> QED
    BY <2>1, <2>2
<1>5. AskOK(n)'
  BY <1>1, <1>2, <1>4 DEF AskOK, WorkerOK
<1>6. \A m \in Asks \ {n} : AskOK(m)'
  BY <1>1, <1>4, OtherAsk
<1>7. StreamTyped'
  BY <1>1, <1>3, <1>4, TypedIs DEF StreamInv, StreamTyped, PageRecords, Streams
<1> QED
  BY <1>4, <1>5, <1>6, <1>7 DEF StreamInv

LEMMA EndKeepsInv ==
  ASSUME StreamInv, NEW n \in Asks, End(n)
  PROVE  /\ StreamInv'
         /\ n \notin page.es => page' = page
         /\ n \in page.es => /\ page.disabled /\ ~page'.disabled
                             /\ page'.readout = page.readout /\ page'.gates = page.gates
<1>1. /\ asked' = asked /\ worker' = worker /\ page' = Delivered(n, Event("done"))
      /\ stream[n] = "open" /\ events[n] # <<>> /\ events[n][1].type = "__end__"
      /\ stream' = [stream EXCEPT ![n] = "ended"]
      /\ events' = [events EXCEPT ![n] = Tail(@)]
  BY DEF End, Oldest
<1>2. PICK unsent \in 0 .. worker[n].at, untold \in 0 .. 1 :
        /\ QueueIs(events[n], worker[n], unsent, untold)
        /\ n \in page.es => PageShows(page, worker[n], unsent, untold)
  BY <1>1, AskFacts DEF OpenOK
<1>3. worker[n].state = "ended" /\ unsent = 0 /\ untold = 0 /\ Tail(events[n]) = <<>>
  <2>1. worker[n] \in Workers /\ events[n] \in Seq(EventRecords)
    BY AskFacts
  <2> QED
    BY <1>1, <1>2, <2>1, QueueEnded
<1>4. /\ stream' \in [Asks -> Streams] /\ stream'[n] = "ended"
      /\ events' \in [Asks -> Seq(EventRecords)] /\ events'[n] = <<>>
      /\ worker' \in [Asks -> Workers]
      /\ \A m \in Asks \ {n} : stream'[m] = stream[m] /\ events'[m] = events[m]
  <2>1. stream \in [Asks -> Streams] /\ events \in [Asks -> Seq(EventRecords)]
        /\ worker \in [Asks -> Workers] /\ <<>> \in Seq(EventRecords)
    BY TypedIs, EmptySeq DEF StreamInv
  <2> QED
    BY <1>1, <1>3, <2>1 DEF Streams
<1>5. /\ page' \in PageRecords /\ PageOK' /\ \A m \in Asks : m \in page'.es => page' = page
      /\ n \notin page.es => page' = page
      /\ n \in page.es => /\ page.disabled /\ ~page'.disabled
                          /\ page'.readout = page.readout /\ page'.gates = page.gates
  <2>1. CASE n \notin page.es
    <3>1. page' = page
      BY <1>1, <2>1 DEF Delivered
    <3>2. PageOK'
      BY <1>1, <1>4, <2>1, <3>1, PageLeft
    <3> QED
      BY <2>1, <3>1, <3>2, Listening
  <2>2. CASE n \in page.es
    <3>1. Event("done").readable /\ Event("done").type = "done"
      BY DEF Event
    <3>2. page' = [Finished(page) EXCEPT !.of = n]
      BY <1>1, <2>2, <3>1 DEF Delivered, Handled
    <3>3. page.readout = Readout(worker[n].outcome, 0)
      BY <1>2, <1>3, <2>2 DEF PageShows
    <3>4. page \in PageRecords /\ page.disabled
      BY <2>2, Listening
    <3>5. /\ PageOK' /\ page' \in PageRecords /\ page'.es = {} /\ ~page'.disabled
          /\ page'.readout = page.readout /\ page'.gates = page.gates
      BY <1>1, <1>3, <2>2, <3>2, <3>3, <3>4, PageFreed
    <3> QED
      BY <2>2, <3>4, <3>5
  <2> QED
    BY <2>1, <2>2
<1>6. AskOK(n)'
  BY <1>1, <1>3, <1>4, AskFacts DEF AskOK, WorkerOK
<1>7. \A m \in Asks \ {n} : AskOK(m)'
  BY <1>1, <1>4, <1>5, OtherAsk
<1>8. StreamTyped'
  BY <1>1, <1>4, <1>5, TypedIs DEF StreamInv, StreamTyped, PageRecords, Streams
<1> QED
  BY <1>5, <1>6, <1>7, <1>8 DEF StreamInv

LEMMA StreamStutters ==
  ASSUME StreamInv, UNCHANGED streamVars
  PROVE  StreamInv'
<1>1. /\ asked' = asked /\ stream' = stream /\ worker' = worker /\ events' = events
      /\ page' = page
  BY DEF streamVars
<1>2. StreamTyped' /\ PageOK'
  BY <1>1 DEF StreamInv, StreamTyped, PageOK
<1>3. \A m \in Asks : AskOK(m)'
  BY <1>1, OtherAsk
<1> QED
  BY <1>2, <1>3 DEF StreamInv

LEMMA StreamInitInv == StreamInit => StreamInv
<1> SUFFICES ASSUME StreamInit PROVE StreamInv
  OBVIOUS
<1>1. /\ asked = 0 /\ stream = [n \in Asks |-> "none"] /\ events = [n \in Asks |-> <<>>]
      /\ worker = [n \in Asks |-> [state |-> "none", at |-> 0, outcome |-> "none"]]
      /\ page = EmptyPage
  BY DEF StreamInit
<1>2. Len(Stages) \in Nat /\ MaxAsks \in Nat
  BY StagesCounted
<1>3. page \in PageRecords /\ page.es = {} /\ ~page.disabled /\ page.of = 0
  <2>1. <<>> \in Seq(DOMAIN Stages)
    OBVIOUS
  <2> QED
    BY <1>1, <1>2, <2>1 DEF EmptyPage, PageRecords
<1>4. events \in [Asks -> Seq(EventRecords)]
  <2>1. <<>> \in Seq(EventRecords)
    OBVIOUS
  <2> QED
    BY <1>1, <2>1
<1>5. worker \in [Asks -> Workers]
  BY <1>1, <1>2 DEF Workers
<1>6. StreamTyped
  BY <1>1, <1>2, <1>3, <1>4, <1>5, TypedIs DEF Streams
<1>7. PageOK
  BY <1>1, <1>3 DEF PageOK
<1>8. \A n \in Asks : AskOK(n)
  BY <1>1 DEF AskOK, WorkerOK
<1> QED
  BY <1>6, <1>7, <1>8 DEF StreamInv

-----------------------------------------------------------------------------
(* The page, the streams and the provider together *)

IInv == StreamInv /\ ProviderInv

LEMMA ReturnKeeps ==
  ASSUME ProviderInv, NEW c \in Callers,
         \/ GenerateReturns(c) \/ JudgeReturns(c) \/ GenerateRaises(c) \/ JudgeRaises(c)
  PROVE  ProviderInv'
BY LeaveKeepsInv

LEMMA WorkingKeepsInv ==
  ASSUME IInv, NEW n \in Asks, Working(n)
  PROVE  IInv'
<1>1. n \in Callers /\ StreamInv /\ ProviderInv
  BY ServiceAssumption DEF IInv
<1>2. CASE StageResolved(n)
  BY <1>1, <1>2, ReportKeepsInv, ProviderStutters DEF StageResolved, IInv
<1>3. CASE CallGenerate(n)
  BY <1>1, <1>3, StreamStutters, GenerateKeepsInv DEF CallGenerate, IInv
<1>4. CASE CallJudge(n)
  BY <1>1, <1>4, StreamStutters, JudgeKeepsInv DEF CallJudge, IInv
<1>5. CASE CallReturned(n)
  BY <1>1, <1>5, ReportKeepsInv, ReturnKeeps DEF CallReturned, IInv
<1>6. CASE CallRaised(n)
  BY <1>1, <1>6, PutErrorKeepsInv, ReturnKeeps DEF CallRaised, IInv
<1>7. CASE StageRaised(n)
  BY <1>1, <1>7, PutErrorKeepsInv, ProviderStutters DEF StageRaised, IInv
<1>8. CASE AnswerReturned(n)
  BY <1>1, <1>8, PutResultKeepsInv, ProviderStutters DEF AnswerReturned, IInv
<1>9. CASE WorkerEnds(n)
  BY <1>1, <1>9, PutEndKeepsInv, ProviderStutters DEF WorkerEnds, IInv
<1> QED
  BY <1>2, <1>3, <1>4, <1>5, <1>6, <1>7, <1>8, <1>9 DEF Working

LEMMA ServingKeepsInv ==
  ASSUME IInv, NEW n \in Asks, Serving(n), UNCHANGED providerVars
  PROVE  IInv'
<1>1. StreamInv'
  BY RefuseKeepsInv, OpenKeepsInv, NeverOpenedKeepsInv, RelayKeepsInv, EndKeepsInv
     DEF Serving, IInv
<1> QED
  BY <1>1, ProviderStutters DEF IInv

LEMMA NextKeepsInv == IInv /\ [Next]_vars => IInv'
<1> SUFFICES ASSUME IInv, [Next]_vars PROVE IInv'
  OBVIOUS
<1>1. ASSUME NEW n \in Asks, Serving(n), UNCHANGED providerVars PROVE IInv'
  BY <1>1, ServingKeepsInv
<1>2. ASSUME NEW n \in Asks, Working(n) PROVE IInv'
  BY <1>2, WorkingKeepsInv
<1>3. ASSUME NEW n \in Asks, ProviderStep(n), UNCHANGED streamVars PROVE IInv'
  BY <1>3, ServiceAssumption, ProviderStepKeepsInv, StreamStutters DEF IInv
<1>4. CASE Start /\ UNCHANGED providerVars
  BY <1>4, StartKeepsInv, ProviderStutters DEF IInv
<1>5. ASSUME NEW n \in Asks, Disconnect(n), UNCHANGED providerVars PROVE IInv'
  BY <1>5, DisconnectKeepsInv, ProviderStutters DEF IInv
<1>6. CASE Regain /\ UNCHANGED streamVars
  BY <1>6, StreamStutters, RegainKeepsInv DEF IInv
<1>7. CASE UNCHANGED vars
  BY <1>7, StreamStutters, ProviderStutters DEF IInv, vars
<1> QED
  BY <1>1, <1>2, <1>3, <1>4, <1>5, <1>6, <1>7 DEF Next, Server

LEMMA InitInv == Init => IInv
BY StreamInitInv, ProviderInitInv DEF Init, IInv

(* The invariant of the page, its streams and the provider's accounts      *)
(* holds in every state of the service: index.html, ask_stream and         *)
(* groq_provider.py.                                                       *)
THEOREM ServiceInvariant == FairSpec => []IInv
<1>1. Init => IInv
  BY InitInv
<1>2. IInv /\ [Next]_vars => IInv'
  BY NextKeepsInv
<1> QED
  BY <1>1, <1>2, PTL DEF FairSpec

-----------------------------------------------------------------------------
(* What the invariant says *)

LEMMA InvImpliesTypes == IInv => TypeOK
<1> SUFFICES ASSUME IInv PROVE TypeOK
  OBVIOUS
<1>1. UsageOK
  BY InvImpliesUsageOK DEF IInv
<1>2. ASSUME NEW n \in Asks, NEW i \in DOMAIN events[n] PROVE events[n][i] \in EventRecords
  BY AskFacts DEF IInv
<1>3. StreamOK
  BY <1>2 DEF IInv, StreamInv, StreamTyped, StreamOK, EventRecords
<1> QED
  BY <1>1, <1>3 DEF TypeOK

LEMMA InvImpliesTold == StreamInv => ShowsTheLastQuestion /\ ToldUnlessUnreadable
<1> SUFFICES ASSUME StreamInv PROVE ShowsTheLastQuestion /\ ToldUnlessUnreadable
  OBVIOUS
<1>1. ShowsTheLastQuestion
  BY DEF StreamInv, PageOK, ShowsTheLastQuestion
<1>2. ASSUME ~page.disabled, asked > 0
      PROVE  \/ page.readout = "lost"
             \/ page.readout = worker[asked].outcome
             \/ page.readout = "running" /\ worker[asked].outcome = "unreadable"
  <2>1. \/ page.readout = "lost"
        \/ /\ worker[asked].state = "ended"
           /\ page.readout = Readout(worker[asked].outcome, 0)
    BY <1>2 DEF StreamInv, PageOK
  <2>2. worker[asked].state = "ended" => worker[asked].outcome # "none"
    <3>1. asked \in Asks
      BY <1>2, AskStreamAssumption DEF StreamInv, StreamTyped, Asks
    <3> QED
      BY <3>1, AskFacts DEF WorkerOK
  <2> QED
    BY <2>1, <2>2 DEF Readout
<1> QED
  BY <1>1, <1>2 DEF ToldUnlessUnreadable

LEMMA InvImpliesNotInVain == StreamInv => NobodyWaitsInVain
<1> SUFFICES ASSUME StreamInv, NEW n \in Asks, stream[n] = "open", events[n] = <<>>
             PROVE  worker[n].state \in {"answering", "ending"}
  BY DEF NobodyWaitsInVain
<1>1. PICK unsent \in 0 .. worker[n].at, untold \in 0 .. 1 :
        QueueIs(events[n], worker[n], unsent, untold)
  BY AskFacts DEF OpenOK
<1>2. worker[n] \in Workers /\ worker[n].at \in Nat
  BY AskFacts, StagesCounted DEF Workers
<1>3. Len(events[n]) = 0
  OBVIOUS
<1>4. worker[n].state # "none" /\ worker[n].state # "ended"
  BY <1>1, <1>2, <1>3 DEF QueueIs
<1> QED
  BY <1>2, <1>4 DEF Workers

(* The types of the page, of every stream, worker and queue, and of the    *)
(* provider's usage record, calls and jobs (TypeOK).                       *)
THEOREM ServiceTypes == FairSpec => []TypeOK
BY ServiceInvariant, InvImpliesTypes, PTL

(* What the page shows is about the question asked last: start() replaces  *)
(* the EventSource before anything of the old one can be handled           *)
(* (ShowsTheLastQuestion).                                                 *)
THEOREM TheLastQuestionIsShown == FairSpec => []ShowsTheLastQuestion
<1>1. IInv => ShowsTheLastQuestion
  BY InvImpliesTold DEF IInv
<1> QED
  BY <1>1, ServiceInvariant, PTL

(* The button of the page comes free only with the worker's outcome to     *)
(* read, or that the connection was lost, or an outcome that the page      *)
(* cannot parse (ToldUnlessUnreadable).                                    *)
THEOREM OutcomesAreTold == FairSpec => []ToldUnlessUnreadable
<1>1. IInv => ToldUnlessUnreadable
  BY InvImpliesTold DEF IInv
<1> QED
  BY <1>1, ServiceInvariant, PTL

(* A generator of ask_stream that is blocked in events.get() has a worker  *)
(* that has not yet put its last event (NobodyWaitsInVain).                *)
THEOREM NoVainWait == FairSpec => []NobodyWaitsInVain
<1>1. IInv => NobodyWaitsInVain
  BY InvImpliesNotInVain DEF IInv
<1> QED
  BY <1>1, ServiceInvariant, PTL

(* The unlocked updates of Usage lose tokens and headers to one side only: *)
(* total_tokens is at most what was reported, and the requests said to be  *)
(* left fall short of those left by no more than the API has given back    *)
(* (AccountsErrOneWay).                                                    *)
THEOREM AccountsNeverExceed == FairSpec => []AccountsErrOneWay
<1>1. IInv => AccountsErrOneWay
  BY InvImpliesAccounts DEF IInv
<1> QED
  BY <1>1, ServiceInvariant, PTL

(* Until two completions overlap, or a response cannot be parsed, no token *)
(* is lost (ExactUntilOverlap).                                            *)
THEOREM ExactWithoutOverlap == FairSpec => []ExactUntilOverlap
<1>1. IInv => ExactUntilOverlap
  BY InvImpliesExact DEF IInv
<1> QED
  BY <1>1, ServiceInvariant, PTL

(* No completion of a pool's thread outlives the call of generate or judge *)
(* that submitted it (NoStrayCompletions).                                 *)
THEOREM CompletionsEndWithTheCall == FairSpec => []NoStrayCompletions
<1>1. IInv => NoStrayCompletions
  BY InvImpliesNoStray DEF IInv
<1> QED
  BY <1>1, ServiceInvariant, PTL

-----------------------------------------------------------------------------
(* The page keeps its promise, step by step *)

PromiseStep == [Promise!Next]_(Promise!vars)

LEMMA PageUnchanged ==
  ASSUME asked' = asked, page'.gates = page.gates, page'.readout = page.readout,
         page'.disabled = page.disabled
  PROVE  PromiseStep
BY DEF PromiseStep, Promise!vars

LEMMA LostIsPromised ==
  ASSUME StreamInv, NEW n \in Asks, Refuse(n) \/ Disconnect(n)
  PROVE  PromiseStep
<1>1. UNCHANGED <<asked, worker>> /\ page' = Lost(n)
      /\ \A m \in Asks \ {n} : stream'[m] = stream[m]
  BY TypedIs DEF Refuse, Disconnect, StreamInv
<1>2. /\ n \notin page.es => page' = page
      /\ n \in page.es => /\ page.disabled /\ ~page'.disabled
                          /\ page'.readout = "lost" /\ page'.gates = page.gates
  BY <1>1, LostPage
<1>3. CASE n \in page.es
  <2>1. Promise!Lose
    BY <1>1, <1>2, <1>3 DEF Promise!Lose
  <2> QED
    BY <2>1 DEF PromiseStep, Promise!Next
<1>4. CASE n \notin page.es
  BY <1>1, <1>2, <1>4, PageUnchanged
<1> QED
  BY <1>3, <1>4

LEMMA RelayIsPromised ==
  ASSUME StreamInv, NEW n \in Asks, Relay(n)
  PROVE  PromiseStep
<1>1. asked' = asked
  BY RelayChanges
<1>2. CASE n \notin page.es
  BY <1>1, <1>2, RelayChanges, PageUnchanged DEF Delivered
<1>3. CASE n \in page.es
  <2>1. /\ page'.disabled = page.disabled /\ page.disabled /\ page.readout = "running"
        /\ \/ /\ page'.readout = page.readout /\ Len(page.gates) < Len(Stages)
              /\ page'.gates = Append(page.gates, Len(page.gates) + 1)
           \/ page'.gates = page.gates /\ page'.readout \in {"running", "result", "error"}
    BY <1>3, RelayShown
  <2>2. CASE /\ page'.readout = page.readout /\ Len(page.gates) < Len(Stages)
             /\ page'.gates = Append(page.gates, Len(page.gates) + 1)
    <3>1. Promise!Resolve
      BY <1>1, <2>1, <2>2 DEF Promise!Resolve
    <3> QED
      BY <3>1 DEF PromiseStep, Promise!Next
  <2>3. CASE page'.gates = page.gates /\ page'.readout = "running"
    BY <1>1, <2>1, <2>3, PageUnchanged
  <2>4. CASE page'.gates = page.gates /\ page'.readout \in {"result", "error"}
    <3>1. Promise!Tell
      BY <1>1, <2>1, <2>4 DEF Promise!Tell
    <3> QED
      BY <3>1 DEF PromiseStep, Promise!Next
  <2> QED
    BY <2>1, <2>2, <2>3, <2>4
<1> QED
  BY <1>2, <1>3

LEMMA EndIsPromised ==
  ASSUME StreamInv, NEW n \in Asks, End(n)
  PROVE  PromiseStep
<1>1. asked' = asked
  BY DEF End
<1>2. CASE n \in page.es
  <2>1. Promise!End
    BY <1>1, <1>2, EndKeepsInv DEF Promise!End
  <2> QED
    BY <2>1 DEF PromiseStep, Promise!Next
<1>3. CASE n \notin page.es
  BY <1>1, <1>3, EndKeepsInv, PageUnchanged
<1> QED
  BY <1>2, <1>3

LEMMA StartIsPromised ==
  ASSUME StreamInv, Start
  PROVE  PromiseStep
<1>1. Promise!Ask
  BY DEF Start, AskedAnew, EmptyPage, Promise!Ask
<1> QED
  BY <1>1 DEF PromiseStep, Promise!Next

LEMMA NextIsPromised == IInv /\ [Next]_vars => PromiseStep
<1> SUFFICES ASSUME IInv, [Next]_vars PROVE PromiseStep
  OBVIOUS
<1>1. StreamInv
  BY DEF IInv
<1>2. ASSUME NEW n \in Asks, Serving(n) PROVE PromiseStep
  <2>1. CASE Open(n)
    <3>1. asked' = asked
      BY <2>1 DEF Open
    <3> QED
      BY <1>1, <2>1, <3>1, OpenKeepsInv, PageUnchanged
  <2>2. CASE NeverOpened(n)
    BY <2>2, PageUnchanged DEF NeverOpened
  <2> QED
    BY <1>1, <1>2, <2>1, <2>2, LostIsPromised, RelayIsPromised, EndIsPromised DEF Serving
<1>3. ASSUME NEW n \in Asks, Working(n) PROVE PromiseStep
  <2>1. asked' = asked /\ page' = page
    BY <1>3 DEF Working, StageResolved, CallGenerate, CallJudge, CallReturned, CallRaised,
       StageRaised, AnswerReturned, WorkerEnds, Report, PutResult, PutError, PutEnd, streamVars
  <2> QED
    BY <2>1, PageUnchanged
<1>4. CASE UNCHANGED streamVars
  BY <1>4, PageUnchanged DEF streamVars
<1> QED
  BY <1>1, <1>2, <1>3, <1>4, StartIsPromised, LostIsPromised DEF Next, Server, vars

(* The page, whatever its streams, workers and connections do, behaves as  *)
(* AskPromise says: the gates resolve in the order of PIPELINE_STAGES, one *)
(* outcome is told after the last of them (KeepsAskPromise).               *)
THEOREM ServiceKeepsAskPromise == FairSpec => KeepsAskPromise
<1>1. Init => Promise!Init
  BY DEF Init, StreamInit, EmptyPage, Promise!Init
<1>2. IInv /\ [Next]_vars => [Promise!Next]_(Promise!vars)
  BY NextIsPromised DEF PromiseStep
<1> QED
  BY <1>1, <1>2, ServiceInvariant, PTL DEF FairSpec, KeepsAskPromise, Promise!Spec
=============================================================================
