--------------------------- MODULE DeliveryProofs ---------------------------
(***************************************************************************)
(* Where the events of GitHub are on their way to the handlers of the      *)
(* scaler, and what a step of the system does to them.  This is what the   *)
(* inductive invariants of module LifecycleProofs are stated with.         *)
(***************************************************************************)
EXTENDS ScalerProofs

(* The message that MakeMessage would make. *)
Draft == [id |-> nextID, events |-> outbox, stats |-> NoStats]

(* What is on its way, in the order of the ids; a message that is being    *)
(* acknowledged is both undelivered and msg.                               *)
Line == Undelivered \cup {msg, Draft}

AssignedIn(line) == [j \in Jobs |-> {m.id : m \in {x \in line : j \in x.events.assigned}}]
StartedIn(line) ==
  [j \in Jobs |-> [n \in RunnerNames |->
     {m.id : m \in {x \in line : <<j, n>> \in x.events.started}}]]
CompletedIn(line) ==
  [j \in Jobs |-> [n \in RunnerNames \cup {NoRunner} |->
     {m.id : m \in {x \in line : <<j, n>> \in x.events.completed}}]]

(* The ids of the messages that hold an event. *)
AssignedAt == AssignedIn(Line)
StartedAt == StartedIn(Line)
CompletedAt == CompletedIn(Line)
events == <<AssignedAt, StartedAt, CompletedAt>>

ProvisionPC == {"jit", "create", "start", "discard", "inspect", "add"}

(* Where the scaler is outside of provisionRunner. *)
Caller == IF pc \in ProvisionPC THEN call.ret ELSE pc

LineInv ==
  /\ \A m \in inbox : m.id < nextID /\ m.id > 0
  /\ \A m1, m2 \in inbox : m1.id = m2.id => m1 = m2
  /\ lastMessageID < nextID
  /\ IF pc = "ack"
     THEN msg \in Undelivered /\ \A m \in Undelivered : msg.id <= m.id
     ELSE msg.id <= lastMessageID
  /\ Caller \in {"poll", "wait", "reconcile", "returned"} => msg = NoMessage

LEMMA LineInit == Init => LineInv
  BY DEF Init, GitHubInit, LineInv, NoMessage, Caller, ProvisionPC

(* Making a message gives it the next id, which no other has. *)
LEMMA LineEnvironment ==
  ASSUME TypeOK, LineInv, Environment
  PROVE  LineInv'
<1>1. UNCHANGED <<pc, call, msg, lastMessageID>>
  BY DEF Environment, scalerVars, loopVars
<1>2. CASE MakeMessage
  <2>0. PICK stats : inbox' = inbox \cup {[id |-> nextID, events |-> outbox, stats |-> stats]}
    BY <1>2 DEF MakeMessage
  <2> DEFINE m == [id |-> nextID, events |-> outbox, stats |-> stats]
  <2>1. /\ inbox' = inbox \cup {m} /\ m.id = nextID /\ nextID' = nextID + 1
    BY <1>2, <2>0 DEF MakeMessage
  <2> HIDE DEF m
  <2>2. nextID \in Nat \ {0} /\ msg.id \in Nat /\ lastMessageID \in Nat /\ inbox \subseteq Message
    BY DEF TypeOK, Message
  <2>3. \A x \in inbox : x.id \in Nat
    BY <2>2 DEF Message
  <2>4. pc = "ack" => msg.id < nextID
    BY DEF LineInv, Undelivered
  <2>5. /\ \A x \in inbox' : x.id < nextID' /\ x.id > 0
        /\ \A m1, m2 \in inbox' : m1.id = m2.id => m1 = m2
    BY <2>1, <2>2, <2>3 DEF LineInv
  <2>6. IF pc = "ack"
        THEN msg \in Undelivered' /\ \A x \in Undelivered' : msg.id <= x.id
        ELSE msg.id <= lastMessageID
    BY <1>1, <2>1, <2>2, <2>3, <2>4 DEF LineInv, Undelivered
  <2>7. Caller' = Caller
    BY <1>1 DEF Caller
  <2> QED
    BY <1>1, <2>1, <2>2, <2>5, <2>6, <2>7 DEF LineInv
<1>3. CASE ~MakeMessage
  <2>1. UNCHANGED <<inbox, nextID>>
    BY <1>3 DEF Environment, AssignJob, CancelJob, RunnerTakesJob, RunnerFinishesJob,
       RunnerKilled, JobEnds, GraceEnds, RunnerQuits, githubVars
  <2> QED BY <1>1, <2>1 DEF LineInv, Undelivered, Caller
<1> QED BY <1>2, <1>3

(* A message is taken in the order of the ids; then it is msg until the    *)
(* scaler is back at the poll.                                             *)
LEMMA LineScaler ==
  ASSUME TypeOK, LineInv, ScalerStep
  PROVE  LineInv'
<1>1. /\ nextID \in Nat \ {0} /\ msg.id \in Nat /\ lastMessageID \in Nat
      /\ \A m \in inbox : m.id \in Nat
      /\ call \in Call
  BY DEF TypeOK, Message
<1>2. ASSUME UNCHANGED <<inbox, nextID, lastMessageID>>, pc # "ack", pc' # "ack",
             msg'.id = msg.id, Caller' \in {"poll", "wait", "reconcile", "returned"} => msg' = NoMessage
      PROVE  LineInv'
  BY <1>2 DEF LineInv
<1>3. CASE RunReturns \/ Poll \/ GetMessageNothing
  BY <1>2, <1>3 DEF RunReturns, Poll, GetMessageNothing, githubVars, loopVars, LineInv, Caller, ProvisionPC
<1>4. CASE GetMessage
  <2>1. /\ msg' \in Undelivered /\ (\A m \in Undelivered : msg'.id <= m.id)
        /\ pc' = "ack" /\ UNCHANGED <<inbox, nextID, lastMessageID>>
    BY <1>4 DEF GetMessage, githubVars
  <2> QED BY <2>1 DEF LineInv, Undelivered, Caller, ProvisionPC
<1>5. CASE DeleteMessage
  <2>1. /\ inbox' \subseteq inbox /\ lastMessageID' = msg.id /\ pc = "ack" /\ pc' = "dispatch"
        /\ UNCHANGED <<msg, nextID>>
    BY <1>5 DEF DeleteMessage, loopVars
  <2>2. msg.id < nextID
    BY <2>1 DEF LineInv, Undelivered
  <2> QED BY <1>1, <2>1, <2>2 DEF LineInv, Caller, ProvisionPC
<1>6. CASE GenerateJitRunnerConfig \/ StartRunner \/ RunnerProvisioned
  <2>1. /\ pc \in ProvisionPC
        /\ (pc' \in ProvisionPC /\ call'.ret = call.ret) \/ pc' = call.ret
        /\ UNCHANGED <<inbox, nextID, lastMessageID, msg>>
    BY <1>1, <1>6 DEF GenerateJitRunnerConfig, StartRunner, RunnerProvisioned, ContainerCreate,
       ContainerCreateFails, ContainerStart, ContainerStartFails, ContainerDiscard,
       ContainerInspect, ContainerInspectFails, githubVars, loopVars, ProvisionPC, Call
  <2>2. Caller' = Caller
    BY <1>1, <2>1 DEF Caller, ProvisionPC, Call
  <2>3. pc # "ack" /\ pc' # "ack"
    BY <1>1, <2>1 DEF ProvisionPC, Call
  <2> QED BY <1>2, <2>1, <2>2, <2>3 DEF LineInv
<1>7. ASSUME NEW j \in Jobs,
             HandleJobAssigned(j) \/ (\E n \in RunnerNames : HandleJobStarted(j, n))
               \/ \E n \in RunnerNames \cup {NoRunner} : HandleJobCompleted(j, n)
      PROVE  LineInv'
  <2>1. /\ UNCHANGED <<inbox, nextID, lastMessageID>> /\ pc = "dispatch"
        /\ \/ pc' = "jit" /\ call'.ret = "dispatch"
           \/ pc' \in {"dispatch", "collectCPU", "stop"}
    BY <1>7 DEF HandleJobAssigned, HandleJobStarted, HandleJobCompleted, ProvisionRunner, NoCall,
       githubVars
  <2>2. msg'.id = msg.id
    BY <1>7 DEF HandleJobAssigned, HandleJobStarted, HandleJobCompleted, TypeOK, Message
  <2> QED BY <1>2, <2>1, <2>2 DEF Caller, ProvisionPC
<1>8. CASE Collect \/ Record \/ StopRunner \/ RunnerForgotten
  <2>1. /\ UNCHANGED <<inbox, nextID, lastMessageID, msg>> /\ pc # "ack"
        /\ pc' \in {"collectMem", "record", "stop", "remove", "forget", "dispatch"}
    BY <1>8 DEF Collect, Record, StopRunner, RunnerForgotten, ContainerStop, ContainerRemove,
       githubVars, loopVars
  <2> QED BY <1>2, <2>1 DEF Caller, ProvisionPC
<1>9. CASE Reconcile
  <2>1. /\ UNCHANGED <<inbox, nextID, lastMessageID>> /\ pc = "dispatch" /\ msg' = NoMessage
        /\ pc' \in {"reconcile", "poll"}
    BY <1>9 DEF Reconcile, githubVars
  <2> QED BY <1>1, <2>1 DEF LineInv, NoMessage
<1>10. CASE ReconcileRunner
  <2>1. /\ UNCHANGED <<inbox, nextID, lastMessageID, msg>> /\ pc = "reconcile" /\ pc' = "jit"
        /\ call'.ret = "reconcile"
    BY <1>10 DEF ReconcileRunner, ProvisionRunner, NoCall, githubVars
  <2> QED BY <1>2, <2>1 DEF LineInv, Caller, ProvisionPC
<1>11. CASE ReconcileDone
  BY <1>2, <1>11 DEF ReconcileDone, githubVars, LineInv, Caller, ProvisionPC
<1> QED
  BY <1>3, <1>4, <1>5, <1>6, <1>7, <1>8, <1>9, <1>10, <1>11 DEF ScalerStep
-----------------------------------------------------------------------------
(* Two lines with the same events under the same ids. *)
LEMMA SameEvents ==
  ASSUME NEW L1, NEW L2,
         \A m \in L1 : m.events = NoEvents \/ \E x \in L2 : x.id = m.id /\ x.events = m.events,
         \A m \in L2 : m.events = NoEvents \/ \E x \in L1 : x.id = m.id /\ x.events = m.events
  PROVE  /\ AssignedIn(L1) = AssignedIn(L2)
         /\ StartedIn(L1) = StartedIn(L2)
         /\ CompletedIn(L1) = CompletedIn(L2)
<1>1. ASSUME NEW j \in Jobs
      PROVE  {m.id : m \in {x \in L1 : j \in x.events.assigned}}
               = {m.id : m \in {x \in L2 : j \in x.events.assigned}}
  BY DEF NoEvents
<1>2. ASSUME NEW e
      PROVE  {m.id : m \in {x \in L1 : e \in x.events.started}}
               = {m.id : m \in {x \in L2 : e \in x.events.started}}
  BY DEF NoEvents
<1>3. ASSUME NEW e
      PROVE  {m.id : m \in {x \in L1 : e \in x.events.completed}}
               = {m.id : m \in {x \in L2 : e \in x.events.completed}}
  BY DEF NoEvents
<1>4. AssignedIn(L1) = AssignedIn(L2)
  BY <1>1 DEF AssignedIn
<1>5. StartedIn(L1) = StartedIn(L2)
  BY <1>2 DEF StartedIn
<1>6. CompletedIn(L1) = CompletedIn(L2)
  BY <1>3 DEF CompletedIn
<1> QED BY <1>4, <1>5, <1>6

(* The ids are those of messages, up to the next one. *)
LEMMA EventIDs ==
  ASSUME TypeOK, LineInv
  PROVE  /\ AssignedAt \in [Jobs -> SUBSET (0..nextID)]
         /\ StartedAt \in [Jobs -> [RunnerNames -> SUBSET (0..nextID)]]
         /\ CompletedAt \in [Jobs -> [RunnerNames \cup {NoRunner} -> SUBSET (0..nextID)]]
<1>1. \A m \in Line : m.id \in 0..nextID
  <2>1. \A m \in inbox : m.id \in 0..nextID
    BY DEF TypeOK, LineInv, Message
  <2>2. msg.id \in 0..nextID /\ nextID \in 0..nextID
    BY <2>1 DEF TypeOK, LineInv, Message, Undelivered
  <2> QED BY <2>1, <2>2 DEF Line, Draft, Undelivered
<1> QED BY <1>1 DEF AssignedAt, StartedAt, CompletedAt, AssignedIn, StartedIn, CompletedIn

(* The message that is being handled is the first in the line. *)
LEMMA FirstInLine ==
  ASSUME TypeOK, LineInv, pc # "ack"
  PROVE  /\ \A j \in Jobs :
              /\ j \in msg.events.assigned <=> msg.id \in AssignedAt[j]
              /\ \A i \in AssignedAt[j] : msg.id <= i
         /\ \A j \in Jobs, n \in RunnerNames :
              /\ <<j, n>> \in msg.events.started <=> msg.id \in StartedAt[j][n]
              /\ \A i \in StartedAt[j][n] : msg.id <= i
         /\ \A j \in Jobs, n \in RunnerNames \cup {NoRunner} :
              /\ <<j, n>> \in msg.events.completed <=> msg.id \in CompletedAt[j][n]
              /\ \A i \in CompletedAt[j][n] : msg.id <= i
<1>1. msg \in Line /\ \A m \in Line : m = msg \/ msg.id < m.id
  BY DEF Line, Draft, LineInv, Undelivered, TypeOK, Message
<1>2. \A m \in Line : m.id \in Nat
  BY DEF Line, Draft, Undelivered, TypeOK, Message
<1> HIDE DEF Line
<1>3. \A m \in Line : m.id = msg.id => m = msg
  BY <1>1, <1>2
<1>4. \A m \in Line : msg.id <= m.id
  BY <1>1, <1>2
<1>5. ASSUME NEW j \in Jobs
      PROVE  /\ j \in msg.events.assigned <=> msg.id \in AssignedAt[j]
             /\ \A i \in AssignedAt[j] : msg.id <= i
  BY <1>1, <1>3, <1>4 DEF AssignedAt, AssignedIn
<1>6. ASSUME NEW j \in Jobs, NEW n \in RunnerNames
      PROVE  /\ <<j, n>> \in msg.events.started <=> msg.id \in StartedAt[j][n]
             /\ \A i \in StartedAt[j][n] : msg.id <= i
  BY <1>1, <1>3, <1>4 DEF StartedAt, StartedIn
<1>7. ASSUME NEW j \in Jobs, NEW n \in RunnerNames \cup {NoRunner}
      PROVE  /\ <<j, n>> \in msg.events.completed <=> msg.id \in CompletedAt[j][n]
             /\ \A i \in CompletedAt[j][n] : msg.id <= i
  BY <1>1, <1>3, <1>4 DEF CompletedAt, CompletedIn
<1> QED BY <1>5, <1>6, <1>7

(* Making, receiving and acknowledging a message moves no event to another *)
(* id, and the end of its handling loses none.                             *)
LEMMA EventsKept ==
  ASSUME TypeOK, LineInv,
         \/ UNCHANGED <<inbox, outbox, nextID, msg, lastMessageID>>
         \/ MakeMessage /\ UNCHANGED <<msg, lastMessageID>>
         \/ GetMessage \/ DeleteMessage \/ Reconcile
  PROVE  UNCHANGED events
<1> DEFINE Covers(L1, L2) ==
      \A m \in L1 : m.events = NoEvents \/ \E x \in L2 : x.id = m.id /\ x.events = m.events
<1>1. ASSUME Covers(Line, Line'), Covers(Line', Line) PROVE UNCHANGED events
  BY <1>1, SameEvents DEF events, AssignedAt, StartedAt, CompletedAt
<1>2. ASSUME Line' = Line PROVE UNCHANGED events
  BY <1>2 DEF events, AssignedAt, StartedAt, CompletedAt
<1>3. CASE UNCHANGED <<inbox, outbox, nextID, msg, lastMessageID>>
  BY <1>2, <1>3 DEF Line, Draft, Undelivered
<1>4. CASE MakeMessage /\ UNCHANGED <<msg, lastMessageID>>
  <2>1. PICK stats : inbox' = inbox \cup {[id |-> nextID, events |-> outbox, stats |-> stats]}
    BY <1>4 DEF MakeMessage
  <2> DEFINE m == [id |-> nextID, events |-> outbox, stats |-> stats]
  <2>2. m.id = Draft.id /\ m.events = Draft.events /\ m.id > lastMessageID
    BY DEF Draft, LineInv
  <2>3. Draft'.events = NoEvents
    BY <1>4 DEF MakeMessage, Draft
  <2>4. inbox' = inbox \cup {m}
    BY <2>1
  <2> HIDE DEF m
  <2>5. Undelivered' = Undelivered \cup {m}
    BY <1>4, <2>2, <2>4 DEF Undelivered
  <2>6. Line' = Undelivered \cup {m, msg, Draft'} /\ Line = Undelivered \cup {msg, Draft}
    BY <1>4, <2>5 DEF Line
  <2>7. Covers(Line, Line') /\ Covers(Line', Line)
    BY <2>2, <2>3, <2>6
  <2> QED BY <1>1, <2>7
<1>5. CASE GetMessage
  <2>1. /\ msg' \in Undelivered /\ Undelivered' = Undelivered /\ Draft' = Draft
        /\ msg = NoMessage
    BY <1>5 DEF GetMessage, githubVars, Draft, Undelivered, LineInv, Caller, ProvisionPC
  <2>2. msg.events = NoEvents
    BY <2>1 DEF NoMessage
  <2>3. Line' = Undelivered \cup {Draft} /\ Line = Undelivered \cup {msg, Draft}
    BY <2>1 DEF Line
  <2>4. Covers(Line, Line') /\ Covers(Line', Line)
    BY <2>2, <2>3
  <2> QED BY <1>1, <2>4
<1>6. CASE DeleteMessage
  <2>1. /\ msg \in Undelivered /\ (\A m \in Undelivered : msg.id <= m.id)
        /\ UNCHANGED <<msg, outbox, nextID>> /\ lastMessageID' = msg.id
        /\ inbox' = {m \in inbox : m.id # msg.id} \/ inbox' = inbox
    BY <1>6 DEF DeleteMessage, LineInv, loopVars
  <2>2. \A m \in Undelivered : m = msg \/ m.id > msg.id
    BY <2>1 DEF LineInv, Undelivered, TypeOK, Message
  <2>3. \A m \in inbox : m.id \in Nat
    BY DEF TypeOK, Message
  <2>4. lastMessageID < msg.id /\ lastMessageID \in Nat /\ msg.id \in Nat
    BY <2>1 DEF Undelivered, TypeOK, Message
  <2>5. Undelivered' = Undelivered \ {msg}
    BY <2>1, <2>2, <2>3, <2>4 DEF Undelivered
  <2>6. Line' = Line
    BY <2>1, <2>5 DEF Line, Draft
  <2> QED BY <1>2, <2>6
<1>7. CASE Reconcile
  <2>1. /\ Undelivered' = Undelivered /\ Draft' = Draft
        /\ msg.events = NoEvents /\ msg' = NoMessage
    BY <1>7 DEF Reconcile, githubVars, Draft, Undelivered
  <2>2. msg'.events = NoEvents
    BY <2>1 DEF NoMessage
  <2>3. Line' = Undelivered \cup {msg', Draft} /\ Line = Undelivered \cup {msg, Draft}
    BY <2>1 DEF Line
  <2>4. Covers(Line, Line') /\ Covers(Line', Line)
    BY <2>1, <2>2, <2>3
  <2> QED BY <1>1, <2>4
<1> QED BY <1>3, <1>4, <1>5, <1>6, <1>7

(* One message of a line changes; its events of the three kinds change     *)
(* independently.                                                          *)
LEMMA OneChanges ==
  ASSUME NEW rest, NEW d, NEW d2, d2.id = d.id
  PROVE  /\ d2.events.assigned = d.events.assigned
              => AssignedIn(rest \cup {d2}) = AssignedIn(rest \cup {d})
         /\ d2.events.started = d.events.started
              => StartedIn(rest \cup {d2}) = StartedIn(rest \cup {d})
         /\ d2.events.completed = d.events.completed
              => CompletedIn(rest \cup {d2}) = CompletedIn(rest \cup {d})
<1>1. ASSUME d2.events.assigned = d.events.assigned, NEW j \in Jobs
      PROVE  {m.id : m \in {x \in rest \cup {d2} : j \in x.events.assigned}}
               = {m.id : m \in {x \in rest \cup {d} : j \in x.events.assigned}}
  BY <1>1
<1>2. ASSUME d2.events.started = d.events.started, NEW e
      PROVE  {m.id : m \in {x \in rest \cup {d2} : e \in x.events.started}}
               = {m.id : m \in {x \in rest \cup {d} : e \in x.events.started}}
  BY <1>2
<1>3. ASSUME d2.events.completed = d.events.completed, NEW e
      PROVE  {m.id : m \in {x \in rest \cup {d2} : e \in x.events.completed}}
               = {m.id : m \in {x \in rest \cup {d} : e \in x.events.completed}}
  BY <1>3
<1>4. d2.events.assigned = d.events.assigned
        => AssignedIn(rest \cup {d2}) = AssignedIn(rest \cup {d})
  BY <1>1 DEF AssignedIn
<1>5. d2.events.started = d.events.started
        => StartedIn(rest \cup {d2}) = StartedIn(rest \cup {d})
  BY <1>2 DEF StartedIn
<1>6. d2.events.completed = d.events.completed
        => CompletedIn(rest \cup {d2}) = CompletedIn(rest \cup {d})
  BY <1>3 DEF CompletedIn
<1> QED BY <1>4, <1>5, <1>6

(* How a set of events changes; a message whose id no other message has.   *)
Gains(new, old, e) == new = old \cup {e}

Loses(new, old, e) == new = old \ {e}

OnlyOne(rest, d) == \A m \in rest : m.id # d.id

(* How the ids of the messages that hold an event change.                  *)
JobGains(new, old, j, id) ==
  \A k \in Jobs : new[k] = IF k = j THEN old[k] \cup {id} ELSE old[k]

JobLoses(new, old, j, id) ==
  \A k \in Jobs : new[k] = IF k = j THEN old[k] \ {id} ELSE old[k]

RunGains(new, old, names, j, n, id) ==
  \A k \in Jobs, l \in names :
    new[k][l] = IF k = j /\ l = n THEN old[k][l] \cup {id} ELSE old[k][l]

RunLoses(new, old, names, j, n, id) ==
  \A k \in Jobs, l \in names :
    new[k][l] = IF k = j /\ l = n THEN old[k][l] \ {id} ELSE old[k][l]

(* A message of the line gets an event: so does its id in the functions. *)
LEMMA AssignedGains ==
  ASSUME NEW rest, NEW d, NEW d2, d2.id = d.id, NEW j \in Jobs,
         Gains(d2.events.assigned, d.events.assigned, j)
  PROVE  JobGains(AssignedIn(rest \cup {d2}), AssignedIn(rest \cup {d}), j, d.id)
<1> SUFFICES ASSUME NEW k \in Jobs
             PROVE  AssignedIn(rest \cup {d2})[k]
                      = IF k = j THEN AssignedIn(rest \cup {d})[k] \cup {d.id}
                        ELSE AssignedIn(rest \cup {d})[k]
  BY DEF JobGains
<1>1. {m.id : m \in {x \in rest \cup {d2} : k \in x.events.assigned}}
        = IF k = j
          THEN {m.id : m \in {x \in rest \cup {d} : k \in x.events.assigned}} \cup {d.id}
          ELSE {m.id : m \in {x \in rest \cup {d} : k \in x.events.assigned}}
  BY DEF Gains
<1> QED BY <1>1 DEF AssignedIn

LEMMA StartedGains ==
  ASSUME NEW rest, NEW d, NEW d2, d2.id = d.id, NEW j \in Jobs,
         NEW n \in RunnerNames,
         Gains(d2.events.started, d.events.started, <<j, n>>)
  PROVE  RunGains(StartedIn(rest \cup {d2}), StartedIn(rest \cup {d}), RunnerNames,
                  j, n, d.id)
<1> SUFFICES ASSUME NEW k \in Jobs, NEW l \in RunnerNames
             PROVE  StartedIn(rest \cup {d2})[k][l]
                      = IF k = j /\ l = n THEN StartedIn(rest \cup {d})[k][l] \cup {d.id}
                        ELSE StartedIn(rest \cup {d})[k][l]
  BY DEF RunGains
<1>1. {m.id : m \in {x \in rest \cup {d2} : <<k, l>> \in x.events.started}}
        = IF k = j /\ l = n
          THEN {m.id : m \in {x \in rest \cup {d} : <<k, l>> \in x.events.started}} \cup {d.id}
          ELSE {m.id : m \in {x \in rest \cup {d} : <<k, l>> \in x.events.started}}
  BY DEF Gains
<1> QED BY <1>1 DEF StartedIn

LEMMA CompletedGains ==
  ASSUME NEW rest, NEW d, NEW d2, d2.id = d.id, NEW j \in Jobs,
         NEW n \in RunnerNames \cup {NoRunner},
         Gains(d2.events.completed, d.events.completed, <<j, n>>)
  PROVE  RunGains(CompletedIn(rest \cup {d2}), CompletedIn(rest \cup {d}), RunnerNames \cup {NoRunner},
                  j, n, d.id)
<1> SUFFICES ASSUME NEW k \in Jobs, NEW l \in RunnerNames \cup {NoRunner}
             PROVE  CompletedIn(rest \cup {d2})[k][l]
                      = IF k = j /\ l = n THEN CompletedIn(rest \cup {d})[k][l] \cup {d.id}
                        ELSE CompletedIn(rest \cup {d})[k][l]
  BY DEF RunGains
<1>1. {m.id : m \in {x \in rest \cup {d2} : <<k, l>> \in x.events.completed}}
        = IF k = j /\ l = n
          THEN {m.id : m \in {x \in rest \cup {d} : <<k, l>> \in x.events.completed}} \cup {d.id}
          ELSE {m.id : m \in {x \in rest \cup {d} : <<k, l>> \in x.events.completed}}
  BY DEF Gains
<1> QED BY <1>1 DEF CompletedIn

(* An event is taken from it, and no other message has its id. *)
LEMMA AssignedLoses ==
  ASSUME NEW rest, NEW d, NEW d2, d2.id = d.id, OnlyOne(rest, d), NEW j \in Jobs,
         Loses(d2.events.assigned, d.events.assigned, j)
  PROVE  JobLoses(AssignedIn(rest \cup {d2}), AssignedIn(rest \cup {d}), j, d.id)
<1> SUFFICES ASSUME NEW k \in Jobs
             PROVE  AssignedIn(rest \cup {d2})[k]
                      = IF k = j THEN AssignedIn(rest \cup {d})[k] \ {d.id}
                        ELSE AssignedIn(rest \cup {d})[k]
  BY DEF JobLoses
<1>1. {m.id : m \in {x \in rest \cup {d2} : k \in x.events.assigned}}
        = IF k = j
          THEN {m.id : m \in {x \in rest \cup {d} : k \in x.events.assigned}} \ {d.id}
          ELSE {m.id : m \in {x \in rest \cup {d} : k \in x.events.assigned}}
  BY DEF Loses, OnlyOne
<1> QED BY <1>1 DEF AssignedIn

LEMMA StartedLoses ==
  ASSUME NEW rest, NEW d, NEW d2, d2.id = d.id, OnlyOne(rest, d), NEW j \in Jobs,
         NEW n \in RunnerNames,
         Loses(d2.events.started, d.events.started, <<j, n>>)
  PROVE  RunLoses(StartedIn(rest \cup {d2}), StartedIn(rest \cup {d}), RunnerNames,
                  j, n, d.id)
<1> SUFFICES ASSUME NEW k \in Jobs, NEW l \in RunnerNames
             PROVE  StartedIn(rest \cup {d2})[k][l]
                      = IF k = j /\ l = n THEN StartedIn(rest \cup {d})[k][l] \ {d.id}
                        ELSE StartedIn(rest \cup {d})[k][l]
  BY DEF RunLoses
<1>1. {m.id : m \in {x \in rest \cup {d2} : <<k, l>> \in x.events.started}}
        = IF k = j /\ l = n
          THEN {m.id : m \in {x \in rest \cup {d} : <<k, l>> \in x.events.started}} \ {d.id}
          ELSE {m.id : m \in {x \in rest \cup {d} : <<k, l>> \in x.events.started}}
  BY DEF Loses, OnlyOne
<1> QED BY <1>1 DEF StartedIn

LEMMA CompletedLoses ==
  ASSUME NEW rest, NEW d, NEW d2, d2.id = d.id, OnlyOne(rest, d), NEW j \in Jobs,
         NEW n \in RunnerNames \cup {NoRunner},
         Loses(d2.events.completed, d.events.completed, <<j, n>>)
  PROVE  RunLoses(CompletedIn(rest \cup {d2}), CompletedIn(rest \cup {d}), RunnerNames \cup {NoRunner},
                  j, n, d.id)
<1> SUFFICES ASSUME NEW k \in Jobs, NEW l \in RunnerNames \cup {NoRunner}
             PROVE  CompletedIn(rest \cup {d2})[k][l]
                      = IF k = j /\ l = n THEN CompletedIn(rest \cup {d})[k][l] \ {d.id}
                        ELSE CompletedIn(rest \cup {d})[k][l]
  BY DEF RunLoses
<1>1. {m.id : m \in {x \in rest \cup {d2} : <<k, l>> \in x.events.completed}}
        = IF k = j /\ l = n
          THEN {m.id : m \in {x \in rest \cup {d} : <<k, l>> \in x.events.completed}} \ {d.id}
          ELSE {m.id : m \in {x \in rest \cup {d} : <<k, l>> \in x.events.completed}}
  BY DEF Loses, OnlyOne
<1> QED BY <1>1 DEF CompletedIn

(* A new event gets the id of the next message. *)
LEMMA EventAdded ==
  ASSUME TypeOK, UNCHANGED <<inbox, nextID, msg, lastMessageID>>, NEW j \in Jobs
  PROVE  /\ outbox' = [outbox EXCEPT !.assigned = @ \cup {j}]
              => /\ JobGains(AssignedAt', AssignedAt, j, nextID)
                 /\ UNCHANGED <<StartedAt, CompletedAt>>
         /\ \A n \in RunnerNames :
              outbox' = [outbox EXCEPT !.started = @ \cup {<<j, n>>}]
                => /\ RunGains(StartedAt', StartedAt, RunnerNames, j, n, nextID)
                   /\ UNCHANGED <<AssignedAt, CompletedAt>>
         /\ \A n \in RunnerNames \cup {NoRunner} :
              outbox' = [outbox EXCEPT !.completed = @ \cup {<<j, n>>}]
                => /\ RunGains(CompletedAt', CompletedAt, RunnerNames \cup {NoRunner}, j, n, nextID)
                   /\ UNCHANGED <<AssignedAt, StartedAt>>
<1> DEFINE rest == Undelivered \cup {msg}
           d == Draft
           d2 == Draft'
<1>1. Line = rest \cup {d} /\ Line' = rest \cup {d2}
  BY DEF Line, Undelivered
<1>2. /\ d.id = nextID /\ d.events = outbox /\ d2.id = d.id /\ d2.events = outbox'
      /\ outbox \in Events
  BY DEF Draft, TypeOK
<1> HIDE DEF rest, d, d2
<1>3. ASSUME outbox' = [outbox EXCEPT !.assigned = @ \cup {j}]
      PROVE  /\ JobGains(AssignedAt', AssignedAt, j, nextID)
             /\ UNCHANGED <<StartedAt, CompletedAt>>
  <2>1. /\ Gains(d2.events.assigned, d.events.assigned, j)
        /\ d2.events.started = d.events.started /\ d2.events.completed = d.events.completed
    BY <1>2, <1>3 DEF Events, Gains
  <2>2. JobGains(AssignedIn(rest \cup {d2}), AssignedIn(rest \cup {d}), j, d.id)
    BY <1>2, <2>1, AssignedGains
  <2>3. /\ StartedIn(rest \cup {d2}) = StartedIn(rest \cup {d})
        /\ CompletedIn(rest \cup {d2}) = CompletedIn(rest \cup {d})
    BY <1>2, <2>1, OneChanges
  <2> QED BY <1>1, <1>2, <2>2, <2>3 DEF AssignedAt, StartedAt, CompletedAt
<1>4. ASSUME NEW n \in RunnerNames, outbox' = [outbox EXCEPT !.started = @ \cup {<<j, n>>}]
      PROVE  /\ RunGains(StartedAt', StartedAt, RunnerNames, j, n, nextID)
             /\ UNCHANGED <<AssignedAt, CompletedAt>>
  <2>1. /\ Gains(d2.events.started, d.events.started, <<j, n>>)
        /\ d2.events.assigned = d.events.assigned /\ d2.events.completed = d.events.completed
    BY <1>2, <1>4 DEF Events, Gains
  <2>2. RunGains(StartedIn(rest \cup {d2}), StartedIn(rest \cup {d}),
               RunnerNames, j, n, d.id)
    BY <1>2, <2>1, StartedGains
  <2>3. /\ AssignedIn(rest \cup {d2}) = AssignedIn(rest \cup {d})
        /\ CompletedIn(rest \cup {d2}) = CompletedIn(rest \cup {d})
    BY <1>2, <2>1, OneChanges
  <2> QED BY <1>1, <1>2, <2>2, <2>3 DEF AssignedAt, StartedAt, CompletedAt
<1>5. ASSUME NEW n \in RunnerNames \cup {NoRunner},
             outbox' = [outbox EXCEPT !.completed = @ \cup {<<j, n>>}]
      PROVE  /\ RunGains(CompletedAt', CompletedAt, RunnerNames \cup {NoRunner}, j, n, nextID)
             /\ UNCHANGED <<AssignedAt, StartedAt>>
  <2>1. /\ Gains(d2.events.completed, d.events.completed, <<j, n>>)
        /\ d2.events.assigned = d.events.assigned /\ d2.events.started = d.events.started
    BY <1>2, <1>5 DEF Events, Gains
  <2>2. RunGains(CompletedIn(rest \cup {d2}), CompletedIn(rest \cup {d}),
               RunnerNames \cup {NoRunner}, j, n, d.id)
    BY <1>2, <2>1, CompletedGains
  <2>3. /\ AssignedIn(rest \cup {d2}) = AssignedIn(rest \cup {d})
        /\ StartedIn(rest \cup {d2}) = StartedIn(rest \cup {d})
    BY <1>2, <2>1, OneChanges
  <2> QED BY <1>1, <1>2, <2>2, <2>3 DEF AssignedAt, StartedAt, CompletedAt
<1> QED BY <1>3, <1>4, <1>5

(* An event that is handled leaves the message. *)
LEMMA EventHandled ==
  ASSUME TypeOK, LineInv, pc # "ack", UNCHANGED <<inbox, outbox, nextID, lastMessageID>>,
         NEW j \in Jobs
  PROVE  /\ msg' = [msg EXCEPT !.events.assigned = @ \ {j}]
              => /\ JobLoses(AssignedAt', AssignedAt, j, msg.id)
                 /\ UNCHANGED <<StartedAt, CompletedAt>>
         /\ \A n \in RunnerNames :
              msg' = [msg EXCEPT !.events.started = @ \ {<<j, n>>}]
                => /\ RunLoses(StartedAt', StartedAt, RunnerNames, j, n, msg.id)
                   /\ UNCHANGED <<AssignedAt, CompletedAt>>
         /\ \A n \in RunnerNames \cup {NoRunner} :
              msg' = [msg EXCEPT !.events.completed = @ \ {<<j, n>>}]
                => /\ RunLoses(CompletedAt', CompletedAt, RunnerNames \cup {NoRunner}, j, n, msg.id)
                   /\ UNCHANGED <<AssignedAt, StartedAt>>
<1> DEFINE rest == Undelivered \cup {Draft}
           d == msg
           d2 == msg'
<1>1. Line = rest \cup {d} /\ Line' = rest \cup {d2}
  BY DEF Line, Undelivered, Draft
<1>2. /\ OnlyOne(rest, d)
      /\ d = msg /\ d2 = msg' /\ d \in Message /\ d.events \in Events
  BY DEF Draft, LineInv, Undelivered, TypeOK, Message, OnlyOne
<1> HIDE DEF rest, d, d2
<1>3. ASSUME msg' = [msg EXCEPT !.events.assigned = @ \ {j}]
      PROVE  /\ JobLoses(AssignedAt', AssignedAt, j, msg.id)
             /\ UNCHANGED <<StartedAt, CompletedAt>>
  <2>1. /\ Loses(d2.events.assigned, d.events.assigned, j) /\ d2.id = d.id
        /\ d2.events.started = d.events.started /\ d2.events.completed = d.events.completed
    BY <1>2, <1>3 DEF Events, Message, Loses
  <2>2. JobLoses(AssignedIn(rest \cup {d2}), AssignedIn(rest \cup {d}), j, d.id)
    BY <1>2, <2>1, AssignedLoses
  <2>3. /\ StartedIn(rest \cup {d2}) = StartedIn(rest \cup {d})
        /\ CompletedIn(rest \cup {d2}) = CompletedIn(rest \cup {d})
    BY <1>2, <2>1, OneChanges
  <2> QED BY <1>1, <1>2, <2>2, <2>3 DEF AssignedAt, StartedAt, CompletedAt
<1>4. ASSUME NEW n \in RunnerNames, msg' = [msg EXCEPT !.events.started = @ \ {<<j, n>>}]
      PROVE  /\ RunLoses(StartedAt', StartedAt, RunnerNames, j, n, msg.id)
             /\ UNCHANGED <<AssignedAt, CompletedAt>>
  <2>1. /\ Loses(d2.events.started, d.events.started, <<j, n>>) /\ d2.id = d.id
        /\ d2.events.assigned = d.events.assigned /\ d2.events.completed = d.events.completed
    BY <1>2, <1>4 DEF Events, Message, Loses
  <2>2. RunLoses(StartedIn(rest \cup {d2}), StartedIn(rest \cup {d}),
               RunnerNames, j, n, d.id)
    BY <1>2, <2>1, StartedLoses
  <2>3. /\ AssignedIn(rest \cup {d2}) = AssignedIn(rest \cup {d})
        /\ CompletedIn(rest \cup {d2}) = CompletedIn(rest \cup {d})
    BY <1>2, <2>1, OneChanges
  <2> QED BY <1>1, <1>2, <2>2, <2>3 DEF AssignedAt, StartedAt, CompletedAt
<1>5. ASSUME NEW n \in RunnerNames \cup {NoRunner},
             msg' = [msg EXCEPT !.events.completed = @ \ {<<j, n>>}]
      PROVE  /\ RunLoses(CompletedAt', CompletedAt, RunnerNames \cup {NoRunner}, j, n, msg.id)
             /\ UNCHANGED <<AssignedAt, StartedAt>>
  <2>1. /\ Loses(d2.events.completed, d.events.completed, <<j, n>>) /\ d2.id = d.id
        /\ d2.events.assigned = d.events.assigned /\ d2.events.started = d.events.started
    BY <1>2, <1>5 DEF Events, Message, Loses
  <2>2. RunLoses(CompletedIn(rest \cup {d2}), CompletedIn(rest \cup {d}),
               RunnerNames \cup {NoRunner}, j, n, d.id)
    BY <1>2, <2>1, CompletedLoses
  <2>3. /\ AssignedIn(rest \cup {d2}) = AssignedIn(rest \cup {d})
        /\ StartedIn(rest \cup {d2}) = StartedIn(rest \cup {d})
    BY <1>2, <2>1, OneChanges
  <2> QED BY <1>1, <1>2, <2>2, <2>3 DEF AssignedAt, StartedAt, CompletedAt
<1> QED BY <1>3, <1>4, <1>5
=============================================================================
