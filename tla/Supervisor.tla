----------------------------- MODULE Supervisor -----------------------------
(***************************************************************************)
(* The processes of the server: the parent (application, server::server)   *)
(* binds the ports, forks the workers, passes Enter and the end of its     *)
(* input on as signals, and never waits for a worker; each worker          *)
(* (server::worker, server::acceptor) builds its hosts, installs its       *)
(* signal handlers and accepts clients on the sockets it inherited.        *)
(*                                                                         *)
(* The kernel is external.  A signal that comes before signal_set_.add     *)
(* takes its default action and ends the process, a later one is queued    *)
(* for asio.  A dead worker stays a zombie (nobody calls waitpid), so its  *)
(* pid names no other process and kill() of it succeeds.                   *)
(***************************************************************************)
EXTENDS Naturals, Sequences

CONSTANTS
    WorkerCount,  \* "workers" of the configuration
    Ports,        \* "ports"
    Clients,      \* client connections
    MaxEnters,    \* bound: lines typed into the parent
    MaxFaults     \* bound: what fails, and signals from the terminal

ASSUME SupervisorAssumption ==
    /\ WorkerCount \in Nat \ {0}
    /\ {MaxEnters, MaxFaults} \subseteq Nat

VARIABLES
    phase,       \* the life of the parent
    listed,      \* worker_processes_: workers in the order of their forks
    signal,      \* the signal the parent is sending, and ...
    sending,     \* ... the workers its loop has still to send it to
    bound,       \* the ports bound so far
    life,        \* per worker
    undelivered, \* per worker and signal: how often asio has to deliver it
    waiting,     \* the workers with an async_wait for signals outstanding
    accepting,   \* per worker: the ports with an async_accept outstanding
    client,      \* per client connection: its state and port
    stale,       \* history: workers that have to clear their caches
    enters,      \* lines typed so far
    faults       \* failures so far

parent_vars == <<phase, listed, signal, sending, bound, enters>>
worker_vars == <<life, undelivered, waiting, accepting, stale>>
vars        == <<parent_vars, worker_vars, client, faults>>

Workers  == 1..WorkerCount
Signals  == {"SIGHUP", "SIGINT", "SIGTERM", "SIGUSR1"}
Terminal == {"SIGHUP", "SIGINT"}
Phases   == {"starting", "running", "failed", "stopping"} \cup Terminal
\* exited: run() returned.  aborted: an uncaught exception.  killed: the
\* default action of a signal.
Lives    == {"absent", "building", "serving", "exited", "aborted", "killed"}
Alive(w) == life[w] \in {"building", "serving"}
NoPort   == "none"
ClientType == [state : {"away", "waiting", "gone", "accepted", "refused"},
               port  : Ports \cup {NoPort}]

\* The parent has nothing to send and is in this phase.
Parent(p)  == phase = p /\ sending = <<>>
NotStarted == bound # Ports \/ \E w \in Workers : life[w] = "absent"
Fault      == faults < MaxFaults /\ faults' = faults + 1

\* The parent closes its listening sockets when the constructor of the server
\* is left; the last process that closes one resets the clients in its backlog.
Open == IF phase = "starting" \/ \E w \in Workers : Alive(w) THEN bound ELSE {}
Drop(D) == client' = [c \in Clients |->
    IF c \in D \/ (client[c].state = "waiting" /\ client[c].port \notin Open')
    THEN [client[c] EXCEPT !.state = "refused"] ELSE client[c]]
CloseIfUnused == Drop({})

-----------------------------------------------------------------------------
(* The parent *)

\* The acceptors of server::server, before the first fork.
Bind(p) ==
    /\ Parent("starting")
    /\ p \notin bound
    /\ bound' = bound \cup {p}
    /\ UNCHANGED <<phase, listed, signal, sending, enters, worker_vars, client, faults>>

\* Mutant of Fork: the id that is kept is fork's 0.
Fork_keeps_zero(w) ==
    /\ Parent("starting") /\ bound = Ports
    /\ w = Len(listed) + 1
    /\ listed' = Append(listed, 0)
    /\ life' = [life EXCEPT ![w] = "building"]
    /\ UNCHANGED <<phase, signal, sending, bound, enters, undelivered, waiting,
                   accepting, stale, client, faults>>

\* system_::process: the parent keeps the child's id.
Fork(w) ==
    /\ Parent("starting") /\ bound = Ports
    /\ w = Len(listed) + 1
    /\ listed' = Append(listed, w)
    /\ life' = [life EXCEPT ![w] = "building"]
    /\ UNCHANGED <<phase, signal, sending, bound, enters, undelivered, waiting,
                   accepting, stale, client, faults>>

Started ==
    /\ Parent("starting") /\ ~NotStarted
    /\ phase' = "running"
    /\ UNCHANGED <<listed, signal, sending, bound, enters, worker_vars, faults>>
    /\ CloseIfUnused

\* Mutant of Stop: the workers are detached first.
Stop_detached(p) ==
    /\ phase' = p /\ signal' = "SIGTERM"
    /\ sending' = <<>> /\ listed' = <<>>

\* server::stop: SIGTERM for every worker, then the list is cleared.
Stop(p) ==
    /\ phase' = p /\ signal' = "SIGTERM"
    /\ sending' = listed /\ listed' = <<>>

\* A port cannot be bound or a process cannot be forked: the constructor stops
\* the workers it has, and throws.
StartFails ==
    /\ Parent("starting") /\ NotStarted /\ Fault
    /\ Stop("failed")
    /\ UNCHANGED <<bound, enters, worker_vars>>
    /\ CloseIfUnused

\* server::clear_cache.
clear_cache == signal' = "SIGUSR1" /\ sending' = listed

\* application::run_interactive: a line.
Enter ==
    /\ Parent("running") /\ enters < MaxEnters
    /\ enters' = enters + 1
    /\ clear_cache
    /\ stale' = {w \in Workers : Alive(w)}
    /\ UNCHANGED <<phase, listed, bound, life, undelivered, waiting, accepting,
                   client, faults>>

\* application::run_interactive: the end of the input.  application::stop.
EndOfInput ==
    /\ Parent("running")
    /\ Stop("stopping")
    /\ UNCHANGED <<bound, enters, worker_vars, client, faults>>

\* Signal s reaches the workers W.  Those that have their handlers queue it,
\* those that have not die; a zombie is left alone.
Deliver(s, W) ==
    LET hit == {w \in W : life[w] = "building"} IN
    /\ life' = [w \in Workers |-> IF w \in hit THEN "killed" ELSE life[w]]
    /\ undelivered' = [w \in Workers |->
           IF w \in W /\ life[w] = "serving"
           THEN [undelivered[w] EXCEPT ![s] = @ + 1] ELSE undelivered[w]]
    /\ stale' = stale \ hit
    /\ UNCHANGED <<waiting, accepting>>
    /\ CloseIfUnused

\* process::kill, once round the loop of server::stop or server::clear_cache.
SendNext ==
    /\ phase \notin Terminal /\ sending # <<>>
    /\ sending' = Tail(sending)
    /\ UNCHANGED <<phase, listed, signal, bound, enters, faults>>
    /\ Deliver(signal, {Head(sending)})

\* The terminal signals the parent and the workers; the parent has no handler.
TerminalSignal(s) ==
    /\ phase \notin Terminal /\ Fault
    /\ phase' = s /\ sending' = <<>>
    /\ UNCHANGED <<listed, signal, bound, enters>>
    /\ Deliver(s, Workers)

-----------------------------------------------------------------------------
(* The workers *)

Serving(w) == life[w] = "serving"

Ends(w, how, dropped) ==
    /\ life' = [life EXCEPT ![w] = how]
    /\ undelivered' = [undelivered EXCEPT ![w] = [s \in Signals |-> 0]]
    /\ waiting' = waiting \ {w}
    /\ accepting' = [accepting EXCEPT ![w] = {}]
    /\ stale' = stale \ {w}
    /\ UNCHANGED parent_vars
    /\ Drop(dropped)

exit(w) == Ends(w, "exited", {})

start_accepting(w) == accepting' = [accepting EXCEPT ![w] = Ports]

\* worker::worker: hosts, signal handlers, acceptors; then worker::run.
Build(w) ==
    /\ life[w] = "building"
    /\ life' = [life EXCEPT ![w] = "serving"]
    /\ waiting' = waiting \cup {w}
    /\ start_accepting(w)
    /\ UNCHANGED <<parent_vars, undelivered, stale, client, faults>>

\* Mutant of BuildFails: the exception leaves system_::process, and the child
\* runs the catch clause of server::server on its copy of worker_processes_.
BuildFails_unwinds(w) ==
    /\ life[w] = "building" /\ Fault
    /\ life' = [v \in Workers |-> IF v = w THEN "exited"
                                  ELSE IF v < w /\ life[v] = "building" THEN "killed"
                                  ELSE life[v]]
    /\ undelivered' = [v \in Workers |->
           IF v < w /\ life[v] = "serving"
           THEN [undelivered[v] EXCEPT !["SIGTERM"] = @ + 1] ELSE undelivered[v]]
    /\ stale' = {v \in stale : life'[v] = life[v]}
    /\ UNCHANGED <<parent_vars, waiting, accepting>>
    /\ CloseIfUnused

\* The host manager cannot be built: system_::process aborts the child.
BuildFails(w) ==
    /\ life[w] = "building" /\ Fault
    /\ Ends(w, "aborted", {})

\* worker::signal_handlers_.
Reaction == [s \in Signals |-> IF s = "SIGHUP" THEN "ignore"
                               ELSE IF s = "SIGUSR1" THEN "clear_cache_handler" ELSE "exit"]
clear_cache_handler(w) == stale' = stale \ {w}

\* Mutant of signal_handler: add_signal_handler is forgotten.
signal_handler_once(w, s) ==
    /\ Serving(w) /\ w \in waiting /\ undelivered[w][s] > 0
    /\ waiting' = waiting \ {w}
    /\ undelivered' = [undelivered EXCEPT ![w][s] = @ - 1]
    /\ stale' = IF Reaction[s] = "clear_cache_handler" THEN stale \ {w} ELSE stale
    /\ life' = IF Reaction[s] = "exit" THEN [life EXCEPT ![w] = "exited"] ELSE life
    /\ UNCHANGED <<parent_vars, accepting, client, faults>>

\* worker::signal_handler: wait for the next signal, and react.
signal_handler(w, s) ==
    /\ Serving(w) /\ w \in waiting /\ undelivered[w][s] > 0
    /\ \/ /\ Reaction[s] # "exit"
          /\ undelivered' = [undelivered EXCEPT ![w][s] = @ - 1]
          /\ IF Reaction[s] = "ignore" THEN UNCHANGED stale ELSE clear_cache_handler(w)
          /\ UNCHANGED <<parent_vars, life, waiting, accepting, client>>
       \/ Reaction[s] = "exit" /\ exit(w)
    /\ UNCHANGED faults

\* A handler throws: worker::run returns 1.
RunFails(w) ==
    /\ Serving(w) /\ Fault
    /\ Ends(w, "exited", {})

\* Mutant of accept_handler: it forgets to go on.
accept_handler_once(w, p, c) ==
    /\ Serving(w) /\ p \in accepting[w]
    /\ client[c].port = p /\ client[c].state = "waiting"
    /\ client' = [client EXCEPT ![c].state = "accepted"]
    /\ accepting' = [accepting EXCEPT ![w] = @ \ {p}]
    /\ UNCHANGED <<parent_vars, life, undelivered, waiting, stale, faults>>

\* acceptor::accept_handler, worker::add_client, and the next async_accept.
accept_handler(w, p, c) ==
    /\ Serving(w) /\ p \in accepting[w]
    /\ client[c].port = p /\ client[c].state = "waiting"
    /\ client' = [client EXCEPT ![c].state = "accepted"]
    /\ UNCHANGED <<parent_vars, worker_vars, faults>>

\* add_client is noexcept, and remote_endpoint throws for a client that left.
add_client_terminates(w, p, c) ==
    /\ Serving(w) /\ p \in accepting[w]
    /\ client[c].port = p /\ client[c].state = "gone"
    /\ Ends(w, "aborted", {c})
    /\ UNCHANGED faults

\* accept_handler with an error: nothing accepts on this port any more.
AcceptFails(w, p) ==
    /\ Serving(w) /\ p \in accepting[w] /\ Fault
    /\ accepting' = [accepting EXCEPT ![w] = @ \ {p}]
    /\ UNCHANGED <<parent_vars, life, undelivered, waiting, stale, client>>

-----------------------------------------------------------------------------
(* The clients *)

Connect(c, p) ==
    /\ client[c].state = "away"
    /\ client' = [client EXCEPT ![c] =
           [state |-> IF p \in Open THEN "waiting" ELSE "refused", port |-> p]]
    /\ UNCHANGED <<parent_vars, worker_vars, faults>>

GiveUp(c) ==
    /\ client[c].state = "waiting"
    /\ client' = [client EXCEPT ![c].state = "gone"]
    /\ UNCHANGED <<parent_vars, worker_vars, faults>>

-----------------------------------------------------------------------------
Init ==
    /\ phase = "starting" /\ listed = <<>> /\ signal = "SIGTERM" /\ sending = <<>>
    /\ bound = {} /\ enters = 0 /\ faults = 0
    /\ life = [w \in Workers |-> "absent"]
    /\ undelivered = [w \in Workers |-> [s \in Signals |-> 0]]
    /\ waiting = {} /\ stale = {}
    /\ accepting = [w \in Workers |-> {}]
    /\ client = [c \in Clients |-> [state |-> "away", port |-> NoPort]]

Start == \/ \E p \in Ports : Bind(p)
         \/ \E w \in Workers : Fork(w)
         \/ Started \/ StartFails
ParentStep == Start \/ Enter \/ EndOfInput \/ SendNext

HandleSignal(w) == \E s \in Signals : signal_handler(w, s)
Accept(w, p)    == \E c \in Clients : accept_handler(w, p, c) \/ add_client_terminates(w, p, c)
WorkerStep(w) == \/ Build(w) \/ BuildFails(w) \/ HandleSignal(w) \/ RunFails(w)
                 \/ \E p \in Ports : Accept(w, p) \/ AcceptFails(w, p)

Environment == \/ \E s \in Terminal : TerminalSignal(s)
               \/ \E c \in Clients : GiveUp(c) \/ \E p \in Ports : Connect(c, p)

Next == ParentStep \/ (\E w \in Workers : WorkerStep(w)) \/ Environment

\* The parent goes through its loops; a worker builds its hosts, takes its
\* signals and accepts.  No fairness for the terminal, the clients and faults.
Fairness ==
    /\ WF_vars(Start) /\ WF_vars(SendNext)
    /\ \A w \in Workers :
          /\ WF_vars(Build(w) \/ BuildFails(w))
          /\ WF_vars(HandleSignal(w))
          /\ \A p \in Ports : WF_vars(Accept(w, p))

Spec == Init /\ [][Next]_vars
FairSpec == Spec /\ Fairness

-----------------------------------------------------------------------------
(* Properties *)

\* Every variable holds what the code and the kernel keep in it.
TypeOK ==
    /\ phase \in Phases /\ signal \in Signals
    /\ listed \in Seq(Workers) /\ sending \in Seq(Workers)
    /\ bound \subseteq Ports
    /\ life \in [Workers -> Lives]
    /\ undelivered \in [Workers -> [Signals -> Nat]]
    /\ waiting \subseteq Workers /\ stale \subseteq Workers
    /\ accepting \in [Workers -> SUBSET Ports]
    /\ client \in [Clients -> ClientType]
    /\ enters \in 0..MaxEnters /\ faults \in 0..MaxFaults

\* The worker that ends in this step is one that something failed in: its
\* construction, its run, or the accept of a client that had left.
OwnFailure == \/ faults' = faults + 1
              \/ \E c \in Clients : client[c].state = "gone" /\ client'[c].state = "refused"

\* The parent's SIGUSR1 finds the worker without handlers.
HitByClear(w) == /\ signal = "SIGUSR1" /\ sending # <<>> /\ w = Head(sending)
                 /\ life[w] = "building"

\* As long as the parent neither stops nor dies, no worker has a SIGTERM before
\* it, and a worker that ends, serving or still building its hosts, ends alone:
\* by its own failure, or by the parent's SIGUSR1 before it has its handlers (the
\* case of ClearKillsNone).  A child whose construction fails thus never runs the
\* clean-up of the constructor it was forked in, which would stop its elder
\* siblings.
OnlyParentStops ==
    [][phase' \in {"starting", "running"} =>
         \A w \in Workers :
            /\ undelivered'[w]["SIGTERM"] = 0
            /\ Alive(w) /\ ~Alive(w)' =>
                  /\ OwnFailure \/ HitByClear(w)
                  /\ \A v \in Workers \ {w} : life'[v] = life[v]]_vars

\* After a failed start, the end of the input or Ctrl+C no worker lives on,
\* whatever it was doing.  A hangup may cut the parent's loop short, and
\* workers ignore it.
StopReachesAll ==
    phase \in {"failed", "stopping", "SIGINT"} ~>
        (phase = "SIGHUP" \/ \A w \in Workers : ~Alive(w))

\* Enter is typed: every worker alive then clears its caches afterwards, or ends,
\* however many signals come in one after the other.  (A parent that dies in its
\* loop has not told all.)
ClearReachesAll ==
    \A w \in Workers : w \in stale ~> (w \notin stale \/ phase \in Terminal)

\* A client in a backlog is accepted, refused or gone in the end, unless every
\* worker that serves stopped accepting on its port, and that only after a failure.
ClientsAccepted ==
    \A c \in Clients :
        client[c].state = "waiting" ~>
            \/ client[c].state # "waiting"
            \/ \A w \in Workers : /\ client[c].port \notin accepting[w]
                                  /\ Serving(w) => faults > 0

\* Violated.  server/server.h:50 says of clear_cache: "Tells all workers to clear
\* cached data."; the worker that still builds its hosts is killed by it.
ClearKillsNone ==
    (\E w \in Workers : life[w] = "killed") => phase \in {"failed", "stopping"} \cup Terminal
=============================================================================
