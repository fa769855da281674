-------------------------- MODULE SupervisorProofs --------------------------
(***************************************************************************)
(* Proofs about Supervisor, for any number of workers, ports, clients,     *)
(* lines and failures.                                                     *)
(***************************************************************************)
EXTENDS Supervisor, TLAPS

-----------------------------------------------------------------------------
(* The inductive invariant *)

\* Until the parent has been told to stop its loop is that of server::clear_cache.
SendingInv == sending # <<>> /\ signal # "SIGUSR1" => phase \notin {"starting", "running"}

\* The signals that end a worker.
Ending == {"SIGTERM", "SIGINT"}

\* A worker has one of them before it only once the parent stops or is dead.
PendingInv ==
    \A w \in Workers, s \in Ending :
        undelivered[w][s] > 0 => phase \notin {"starting", "running"}

IInv == TypeOK /\ SendingInv /\ PendingInv

-----------------------------------------------------------------------------
(* What the steps share *)

\* Clients that lose their backlog keep their type.
LEMMA DropType ==
    ASSUME client \in [Clients -> ClientType], NEW D, Drop(D)
    PROVE  client' \in [Clients -> ClientType]
<1> SUFFICES ASSUME NEW c \in Clients
             PROVE  [client[c] EXCEPT !.state = "refused"] \in ClientType
  BY DEF Drop
<1> QED BY DEF ClientType

\* A signal makes a worker die or is queued for it; only the signal that is
\* delivered is queued.
LEMMA DeliverStep ==
    ASSUME TypeOK, NEW s \in Signals, NEW W, Deliver(s, W)
    PROVE  /\ life' \in [Workers -> Lives]
           /\ undelivered' \in [Workers -> [Signals -> Nat]]
           /\ waiting' \subseteq Workers /\ stale' \subseteq Workers
           /\ accepting' \in [Workers -> SUBSET Ports]
           /\ client' \in [Clients -> ClientType]
           /\ \A w \in Workers, t \in Signals \ {s} :
                 undelivered'[w][t] = undelivered[w][t]
<1>1. client' \in [Clients -> ClientType]
  BY DropType DEF Deliver, CloseIfUnused, TypeOK
<1>2. life' \in [Workers -> Lives]
  BY DEF Deliver, TypeOK, Lives
<1>3. \A w \in Workers : [undelivered[w] EXCEPT ![s] = @ + 1] \in [Signals -> Nat]
  BY DEF TypeOK
<1>4. undelivered' \in [Workers -> [Signals -> Nat]]
  BY <1>3 DEF Deliver, TypeOK
<1>5. ASSUME NEW w \in Workers, NEW t \in Signals \ {s}
      PROVE  undelivered'[w][t] = undelivered[w][t]
  BY DEF Deliver, TypeOK
<1> QED BY <1>1, <1>2, <1>4, <1>5 DEF Deliver, TypeOK

\* A worker that ends takes its queue of signals with it.
LEMMA EndsStep ==
    ASSUME IInv, NEW w \in Workers, NEW how \in Lives, NEW D, Ends(w, how, D),
           faults' \in 0..MaxFaults
    PROVE  IInv'
<1>1. client' \in [Clients -> ClientType]
  BY DropType DEF Ends, IInv, TypeOK
<1>2. UNCHANGED <<phase, listed, signal, sending, bound, enters>>
  BY DEF Ends, parent_vars
<1>3. undelivered' \in [Workers -> [Signals -> Nat]]
  BY DEF Ends, IInv, TypeOK
<1>4. TypeOK'
  BY <1>1, <1>2, <1>3 DEF Ends, IInv, TypeOK
<1>5. PendingInv'
  BY <1>2 DEF Ends, IInv, TypeOK, PendingInv, Signals, Ending
<1> QED BY <1>2, <1>4, <1>5 DEF IInv, SendingInv

-----------------------------------------------------------------------------
(* The steps *)

\* Ports are bound, processes forked, and the parent runs: it sends nothing.
LEMMA StartStep ==
    ASSUME IInv, Start
    PROVE  IInv'
<1>1. CASE \E p \in Ports : Bind(p)
  BY <1>1 DEF Bind, worker_vars, IInv, TypeOK, SendingInv, PendingInv
<1>2. ASSUME NEW w \in Workers, Fork(w) PROVE IInv'
  <2>1. listed' \in Seq(Workers) /\ life' \in [Workers -> Lives]
    BY <1>2 DEF Fork, IInv, TypeOK, Lives
  <2> QED BY <1>2, <2>1 DEF Fork, IInv, TypeOK, SendingInv, PendingInv
<1>3. CASE Started
  <2>1. client' \in [Clients -> ClientType]
    BY <1>3, DropType DEF Started, CloseIfUnused, IInv, TypeOK
  <2> QED BY <1>3, <2>1 DEF Started, Parent, worker_vars, IInv, TypeOK, SendingInv,
                            PendingInv, Phases
<1>4. CASE StartFails
  <2>1. client' \in [Clients -> ClientType]
    BY <1>4, DropType DEF StartFails, CloseIfUnused, IInv, TypeOK
  <2>2. faults' \in 0..MaxFaults
    BY <1>4, SupervisorAssumption DEF StartFails, Fault, IInv, TypeOK
  <2>3. listed' \in Seq(Workers)
    BY <1>4 DEF StartFails, Stop
  <2> QED BY <1>4, <2>1, <2>2, <2>3 DEF StartFails, Stop, worker_vars, IInv, TypeOK, SendingInv,
                                   PendingInv, Phases, Signals
<1> QED BY <1>1, <1>2, <1>3, <1>4 DEF Start

\* A line makes the parent send SIGUSR1, the end of the input SIGTERM.
LEMMA InputStep ==
    ASSUME IInv, Enter \/ EndOfInput
    PROVE  IInv'
<1>1. CASE Enter
  <2>1. enters' \in 0..MaxEnters
    BY <1>1, SupervisorAssumption DEF Enter, IInv, TypeOK
  <2> QED BY <1>1, <2>1 DEF Enter, Parent, clear_cache, IInv, TypeOK, SendingInv, PendingInv,
                            Signals
<1>2. CASE EndOfInput
  <2>1. listed' \in Seq(Workers)
    BY <1>2 DEF EndOfInput, Stop
  <2> QED BY <1>2, <2>1 DEF EndOfInput, Stop, worker_vars, IInv, TypeOK, SendingInv,
                            PendingInv, Phases, Signals
<1> QED BY <1>1, <1>2

\* The parent's loop: SIGTERM goes out only when the parent stops.
LEMMA SendNextStep ==
    ASSUME IInv, SendNext
    PROVE  IInv'
<1>1. /\ sending # <<>> /\ sending' = Tail(sending) /\ signal \in Signals
      /\ UNCHANGED <<phase, listed, signal, bound, enters, faults>>
      /\ Deliver(signal, {Head(sending)})
  BY DEF SendNext, IInv, TypeOK
<1>2. sending' \in Seq(Workers)
  BY <1>1 DEF IInv, TypeOK
<1>3. TypeOK'
  BY <1>1, <1>2, DeliverStep DEF IInv, TypeOK
<1>4. signal = "SIGUSR1" => \A w \in Workers, s \in Ending :
         undelivered'[w][s] = undelivered[w][s]
  BY <1>1, DeliverStep DEF IInv, Ending, Signals
<1>5. PendingInv'
  BY <1>1, <1>4 DEF IInv, PendingInv, SendingInv
<1>6. SendingInv'
  BY <1>1 DEF IInv, SendingInv
<1> QED BY <1>3, <1>5, <1>6 DEF IInv

\* A signal of the terminal ends the parent.
LEMMA TerminalStep ==
    ASSUME IInv, NEW s \in Terminal, TerminalSignal(s)
    PROVE  IInv'
<1>1. /\ phase' = s /\ sending' = <<>> /\ s \in Signals
      /\ UNCHANGED <<listed, signal, bound, enters>> /\ Deliver(s, Workers)
  BY DEF TerminalSignal, Terminal, Signals
<1>2. faults' \in 0..MaxFaults
  BY SupervisorAssumption DEF TerminalSignal, Fault, IInv, TypeOK
<1>3. TypeOK'
  BY <1>1, <1>2, DeliverStep DEF IInv, TypeOK, Phases
<1> QED BY <1>1, <1>3 DEF IInv, PendingInv, SendingInv, Terminal

\* A worker takes signals from its queue and puts none there: not its own, and
\* not that of another, even when its construction fails.
LEMMA WorkerStepInv ==
    ASSUME IInv, NEW w \in Workers, WorkerStep(w)
    PROVE  IInv'
<1>0. {"exited", "aborted", "serving"} \subseteq Lives /\ faults \in 0..MaxFaults
      /\ (Fault => faults' \in 0..MaxFaults)
  BY SupervisorAssumption DEF Lives, Fault, IInv, TypeOK
<1>1. CASE Build(w)
  <2>1. life' \in [Workers -> Lives] /\ accepting' \in [Workers -> SUBSET Ports]
    BY <1>0, <1>1 DEF Build, start_accepting, IInv, TypeOK
  <2> QED BY <1>1, <2>1 DEF Build, parent_vars, IInv, TypeOK, SendingInv, PendingInv
<1>2. CASE BuildFails(w)
  BY <1>0, <1>2, EndsStep DEF BuildFails
<1>3. CASE RunFails(w)
  BY <1>0, <1>3, EndsStep DEF RunFails
<1>4. ASSUME NEW s \in Signals, signal_handler(w, s) PROVE IInv'
  <2>1. CASE exit(w)
    BY <1>0, <1>4, <2>1, EndsStep DEF signal_handler, exit
  <2>2. CASE ~exit(w)
    <3>1. /\ undelivered' = [undelivered EXCEPT ![w][s] = @ - 1] /\ undelivered[w][s] > 0
          /\ UNCHANGED <<parent_vars, life, waiting, accepting, client, faults>>
          /\ stale' \subseteq Workers
      BY <1>4, <2>2 DEF signal_handler, clear_cache_handler, IInv, TypeOK
    <3>2. /\ undelivered' \in [Workers -> [Signals -> Nat]]
          /\ \A v \in Workers, t \in Ending : undelivered'[v][t] <= undelivered[v][t]
      <4>1. undelivered[w] \in [Signals -> Nat] /\ undelivered[w][s] - 1 \in Nat
        BY <3>1 DEF IInv, TypeOK
      <4>2. [undelivered[w] EXCEPT ![s] = @ - 1] \in [Signals -> Nat]
        BY <4>1
      <4>3. Ending \subseteq Signals
        BY DEF Ending, Signals
      <4> QED BY <3>1, <4>1, <4>2, <4>3 DEF IInv, TypeOK
    <3>3. PendingInv'
      <4> SUFFICES ASSUME NEW v \in Workers, NEW t \in Ending, undelivered'[v][t] > 0
                   PROVE  phase' \notin {"starting", "running"}
        BY DEF PendingInv
      <4>1. undelivered[v][t] \in Nat /\ undelivered'[v][t] \in Nat
        BY <3>2 DEF IInv, TypeOK, Ending, Signals
      <4> QED BY <3>1, <3>2, <4>1 DEF parent_vars, IInv, PendingInv
    <3> QED BY <3>1, <3>2, <3>3 DEF parent_vars, IInv, TypeOK, SendingInv
  <2> QED BY <2>1, <2>2
<1>5. ASSUME NEW p \in Ports, Accept(w, p) PROVE IInv'
  <2>1. ASSUME NEW c \in Clients, accept_handler(w, p, c) PROVE IInv'
    <3>1. client' \in [Clients -> ClientType]
      BY <2>1 DEF accept_handler, IInv, TypeOK, ClientType
    <3> QED BY <2>1, <3>1 DEF accept_handler, parent_vars, worker_vars, IInv, TypeOK,
                              SendingInv, PendingInv
  <2>2. ASSUME NEW c \in Clients, add_client_terminates(w, p, c) PROVE IInv'
    BY <1>0, <2>2, EndsStep DEF add_client_terminates
  <2> QED BY <1>5, <2>1, <2>2 DEF Accept
<1>6. ASSUME NEW p \in Ports, AcceptFails(w, p) PROVE IInv'
  <2>1. accepting' \in [Workers -> SUBSET Ports]
    BY <1>6 DEF AcceptFails, IInv, TypeOK
  <2> QED BY <1>0, <1>6, <2>1 DEF AcceptFails, parent_vars, IInv, TypeOK, SendingInv,
                                  PendingInv
<1> QED BY <1>1, <1>2, <1>3, <1>4, <1>5, <1>6 DEF WorkerStep, HandleSignal

\* Clients come and go.
LEMMA ClientStep ==
    ASSUME IInv, NEW c \in Clients, GiveUp(c) \/ \E p \in Ports : Connect(c, p)
    PROVE  IInv'
<1>1. client' \in [Clients -> ClientType]
  <2>1. CASE GiveUp(c)
    BY <2>1 DEF GiveUp, IInv, TypeOK, ClientType
  <2>2. ASSUME NEW p \in Ports, Connect(c, p) PROVE client' \in [Clients -> ClientType]
    <3>1. PICK state \in {"waiting", "refused"} :
              client' = [client EXCEPT ![c] = [state |-> state, port |-> p]]
      <4>1. CASE p \in Open
        BY <2>2, <4>1 DEF Connect
      <4>2. CASE p \notin Open
        BY <2>2, <4>2 DEF Connect
      <4> QED BY <4>1, <4>2
    <3>2. [state |-> state, port |-> p] \in ClientType
      BY DEF ClientType
    <3> QED BY <3>1, <3>2 DEF IInv, TypeOK
  <2> QED BY <2>1, <2>2
<1>2. UNCHANGED <<parent_vars, worker_vars, faults>>
  BY DEF GiveUp, Connect
<1> QED BY <1>1, <1>2 DEF parent_vars, worker_vars, IInv, TypeOK, SendingInv, PendingInv

-----------------------------------------------------------------------------
(* The theorems *)

\* Initially no signal is on its way.
LEMMA InitInv == Init => IInv
<1> SUFFICES ASSUME Init PROVE IInv
  OBVIOUS
<1>1. client \in [Clients -> ClientType]
  <2>1. [state |-> "away", port |-> NoPort] \in ClientType
    BY DEF ClientType
  <2> QED BY <2>1 DEF Init
<1>2. /\ 0 \in 0..MaxEnters /\ 0 \in 0..MaxFaults
      /\ "absent" \in Lives /\ "SIGTERM" \in Signals /\ "starting" \in Phases
  BY SupervisorAssumption DEF Lives, Signals, Phases
<1>3. <<>> \in Seq(Workers)
  OBVIOUS
<1>4. TypeOK
  BY <1>1, <1>2, <1>3 DEF Init, TypeOK
<1>5. Ending \subseteq Signals
  BY DEF Ending, Signals
<1> QED BY <1>4, <1>5 DEF Init, IInv, SendingInv, PendingInv

\* Every step of the parent, the workers and their environment preserves the
\* invariant.
LEMMA StepInv == IInv /\ [Next]_vars => IInv'
<1> SUFFICES ASSUME IInv, [Next]_vars PROVE IInv'
  OBVIOUS
<1>1. CASE ParentStep
  BY <1>1, StartStep, InputStep, SendNextStep DEF ParentStep
<1>2. ASSUME NEW w \in Workers, WorkerStep(w) PROVE IInv'
  BY <1>2, WorkerStepInv
<1>3. CASE Environment
  BY <1>3, TerminalStep, ClientStep DEF Environment
<1>4. CASE UNCHANGED vars
  BY <1>4 DEF vars, parent_vars, worker_vars, IInv, TypeOK, SendingInv, PendingInv
<1> QED BY <1>1, <1>2, <1>3, <1>4 DEF Next

\* Every variable holds what the code and the kernel keep in it.
THEOREM TypeCorrect == Spec => []TypeOK
BY InitInv, StepInv, PTL DEF Spec, IInv

\* A worker that ends itself takes no other one down.
LEMMA EndsAlone ==
    ASSUME TypeOK, NEW w \in Workers, NEW how, NEW D, Ends(w, how, D)
    PROVE  \A v \in Workers \ {w} : life'[v] = life[v]
BY DEF Ends, TypeOK

\* While the parent goes on only failures, and SIGUSR1 for a worker without
\* handlers, end a worker, and one at a time.
LEMMA StopsStep ==
    ASSUME IInv, IInv', [Next]_vars, phase' \in {"starting", "running"},
           NEW w \in Workers
    PROVE  /\ undelivered'[w]["SIGTERM"] = 0
           /\ Alive(w) /\ ~Alive(w)' =>
                 /\ OwnFailure \/ HitByClear(w)
                 /\ \A v \in Workers \ {w} : life'[v] = life[v]
<1>1. undelivered'[w]["SIGTERM"] = 0
  <2>1. undelivered'[w]["SIGTERM"] \in Nat /\ "SIGTERM" \in Ending
    BY DEF IInv, TypeOK, Signals, Ending
  <2> QED BY <2>1 DEF IInv, PendingInv
<1> SUFFICES ASSUME Alive(w), ~Alive(w)'
             PROVE  /\ OwnFailure \/ HitByClear(w)
                    /\ \A v \in Workers \ {w} : life'[v] = life[v]
  BY <1>1
<1>2. life'[w] # life[w]
  BY DEF Alive
<1>3. CASE ParentStep
  <2>1. CASE SendNext
    <3>1. /\ phase \in {"starting", "running"} /\ sending # <<>>
          /\ Deliver(signal, {Head(sending)})
      BY <2>1 DEF SendNext
    <3>2. life[w] = "building" /\ w = Head(sending)
          /\ \A v \in Workers \ {w} : life'[v] = life[v]
      BY <1>2, <3>1 DEF Deliver, IInv, TypeOK
    <3>3. signal = "SIGUSR1"
      BY <3>1 DEF IInv, SendingInv
    <3> QED BY <3>1, <3>2, <3>3 DEF HitByClear
  <2>2. ASSUME NEW v \in Workers, Fork(v) PROVE FALSE
    BY <1>2, <2>2 DEF Fork, Alive, IInv, TypeOK
  <2>3. CASE life' = life
    BY <1>2, <2>3
  <2> QED BY <1>3, <2>1, <2>2, <2>3
          DEF ParentStep, Start, Bind, Started, StartFails, Enter, EndOfInput, worker_vars
<1>4. ASSUME NEW v \in Workers, WorkerStep(v)
      PROVE  /\ OwnFailure \/ HitByClear(w)
             /\ \A u \in Workers \ {w} : life'[u] = life[u]
  <2>1. CASE Build(v)
    BY <1>2, <2>1 DEF Build, Alive, IInv, TypeOK
  <2>2. CASE BuildFails(v) \/ RunFails(v)
    <3>1. faults' = faults + 1 /\ \A u \in Workers \ {v} : life'[u] = life[u]
      BY <2>2, EndsAlone DEF BuildFails, RunFails, Fault, IInv
    <3> QED BY <1>2, <3>1 DEF OwnFailure
  <2>3. ASSUME NEW s \in Signals, signal_handler(v, s) PROVE FALSE
    <3>1. phase' = phase /\ undelivered[v][s] > 0 /\ (life' = life \/ Reaction[s] = "exit")
      BY <2>3 DEF signal_handler, exit, Ends, parent_vars
    <3>2. s \in Ending
      BY <1>2, <3>1 DEF Reaction, Signals, Ending
    <3> QED BY <3>1, <3>2 DEF IInv, PendingInv
  <2>4. ASSUME NEW p \in Ports, NEW c \in Clients, add_client_terminates(v, p, c)
        PROVE  OwnFailure /\ \A u \in Workers \ {v} : life'[u] = life[u]
    <3>1. client[c].state = "gone" /\ Drop({c})
      BY <2>4 DEF add_client_terminates, Ends
    <3>2. client'[c] = [client[c] EXCEPT !.state = "refused"] /\ client[c] \in ClientType
      BY <3>1 DEF Drop, IInv, TypeOK
    <3>3. client'[c].state = "refused"
      BY <3>2 DEF ClientType
    <3> QED BY <2>4, <3>1, <3>3, EndsAlone DEF add_client_terminates, OwnFailure, IInv
  <2>5. CASE life' = life
    BY <1>2, <2>5
  <2> QED BY <1>2, <1>4, <2>1, <2>2, <2>3, <2>4, <2>5
          DEF WorkerStep, HandleSignal, Accept, accept_handler, AcceptFails, worker_vars
<1>5. CASE Environment
  BY <1>2, <1>5 DEF Environment, TerminalSignal, Terminal, GiveUp, Connect, worker_vars
<1>6. CASE UNCHANGED vars
  BY <1>2, <1>6 DEF vars, worker_vars
<1> QED BY <1>3, <1>4, <1>5, <1>6 DEF Next

\* With any number of workers, no worker stops before the parent does but by its
\* own failure or by a SIGUSR1 that comes before its handlers, and the failure of
\* one never takes another one down.
THEOREM StopsSafe == Spec => OnlyParentStops
<1>1. IInv /\ IInv' /\ [Next]_vars => [phase' \in {"starting", "running"} =>
         \A w \in Workers :
            /\ undelivered'[w]["SIGTERM"] = 0
            /\ Alive(w) /\ ~Alive(w)' =>
                  /\ OwnFailure \/ HitByClear(w)
                  /\ \A v \in Workers \ {w} : life'[v] = life[v]]_vars
  BY StopsStep
<1> QED BY <1>1, InitInv, StepInv, PTL DEF Spec, OnlyParentStops
=============================================================================
