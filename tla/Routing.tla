------------------------------- MODULE Routing -------------------------------
(***************************************************************************)
(* The hosts of a worker: how the host manager is built from the           *)
(* configuration; how a complete request finds the host that answers it,   *)
(* through the loop of session::process_request, the host manager, the     *)
(* hierarchy host and the logic hosts, which may hand the request back     *)
(* ("soft redirect") to be dispatched again with the path they left in it; *)
(* and the cache reset that SIGUSR1 asks of the same tree of hosts.        *)
(*                                                                         *)
(* A path is the sequence of its sections: "/" is <<"">>, "/a/b" is        *)
(* <<"a", "b">>, and <<>> is a path that does not start with '/'.          *)
(* process_request is one handler of the io_service: its steps are those   *)
(* of one computation, and signals are handled only between requests.      *)
(***************************************************************************)
EXTENDS Integers, FiniteSets, SequencesExt

CONSTANTS
    Nodes,        \* the hosts of the configuration, nested ones too
    Kind,         \* the "type" of each
    Own,          \* its "name" and "ports"
    Valid,        \* the hosts whose other parameters their constructors take
    Content,      \* the sections of a hierarchy, each with its host
    Default,      \* the default host of a hierarchy, or NoHost
    HostConfigs,  \* what "hosts" may hold: sequences of hosts
    NoHost, NoName,
    HexSections,  \* sections made of hexadecimal digits only
    Requests      \* the requests, with the port they arrived on

\* "" is the section of the path "/", and the name before any request.
Sections == {""} \cup UNION {Range(r.path) : r \in Requests}
Names    == {""} \cup {r.host : r \in Requests}

Kinds == {"hierarchy", "files", "user", "users", "login", "logout",
          "registration", "add_friend", "remove_friend", "phony"}

RequestType == [host : Names, port : Nat, server_port : Nat, path : Seq(Sections),
                post : BOOLEAN, json : BOOLEAN]

\* Mutant of Children: hierarchy::clear_cache leaves its default host out.
Children_no_default(n) == IF Kind[n] # "hierarchy" THEN {} ELSE Range(Content[n])

\* The hosts below a host, and all that are reached from some: with a host, the
\* hosts below it, and none but those.
Children(n) == IF Kind[n] # "hierarchy" THEN {}
               ELSE Range(Content[n]) \cup ({Default[n]} \ {NoHost})
Closed(S) == \A n \in S : Children(n) \subseteq S
Nested    == UNION {Children(n) : n \in Nodes}
Below(N)  == LET closed == {S \in {N \cup M : M \in SUBSET Nested} : Closed(S)}
             IN  {n \in N \cup Nested : \A S \in closed : n \in S}

\* Hosts are objects of a JSON document, each of them in one place.
ASSUME RoutingAssumption ==
    /\ NoHost \notin Nodes
    /\ \A n \in Nodes : /\ \A s \in DOMAIN Content[n] : Content[n][s] \in Nodes
                        /\ Default[n] \in Nodes \cup {NoHost}
    /\ HostConfigs \subseteq Seq(Nodes)
    /\ \A m, n \in Nodes : m # n => Children(m) \cap Children(n) = {}
    /\ \A e \in HostConfigs : \A n \in Nodes : Children(n) \cap Range(e) = {}
    /\ Nodes \cap {"building", "failed", "idle", "loop", "done"} = {}
    /\ "" \in HexSections
    /\ Requests \subseteq RequestType

VARIABLES
    entries,    \* "hosts" of the configuration
    added,      \* how many of them have been built and added
    hosts,      \* manager::hosts_: name -> host
    built,      \* the host objects, with their name_ and ports_
    request,    \* the current request: host methods rewrite its path
    at,         \* building, idle, the loop of process_request, or the host at work
    asked,      \* the path the client sent
    looped,     \* the path with which the current pass of the loop began
    answer,     \* how the request was answered, and by which host
    cached,     \* the file hosts that keep files mapped
    crashed     \* the worker process died

manager == <<entries, added, hosts, built>>
vars    == <<manager, request, at, asked, looped, answer, cached, crashed>>

NoRequest == [host |-> "", port |-> 0, server_port |-> 0, path |-> <<>>,
              post |-> FALSE, json |-> FALSE]
NoAnswer  == [status |-> "none", node |-> NoHost, path |-> <<>>]

\* split_first_section and the code after it that keeps a leading '/'.
First(path) == Head(path)
Strip(path) == IF Len(path) = 1 THEN <<"">> ELSE Tail(path)

Answer(status, node, path) ==
    /\ at' = "done"
    /\ answer' = [status |-> status, node |-> node, path |-> path]

-----------------------------------------------------------------------------
(* The constructor of the worker: host::manager_generator *)

\* Mutant of Given: a nested host keeps what its own configuration says.
Given_own(top, n) == IF Own[n].name = NoName THEN Own[top] ELSE Own[n]

\* hierarchy::hierarchy: the hosts below get its name and its ports.
Given(top, n) == Own[top]

\* generate_host, and all it constructs below: no type is unknown, nothing is
\* missing.
Constructible(n) ==
    /\ Own[n].name # NoName
    /\ \A m \in Below({n}) : Kind[m] \in Kinds /\ m \in Valid

\* Mutant of add_host: of two hosts of one name the later one stays.
add_host_replaces(n) ==
    hosts' = [h \in DOMAIN hosts \cup {Own[n].name} |-> IF h = Own[n].name THEN n ELSE hosts[h]]

\* manager::add_host throws for a name that is there.
add_host(n) ==
    /\ Own[n].name \notin DOMAIN hosts
    /\ hosts' = [h \in DOMAIN hosts \cup {Own[n].name} |-> IF h = Own[n].name THEN n ELSE hosts[h]]

\* Once round the loop of manager_generator: a host is built and added ...
AddHost ==
    /\ at = "building" /\ added < Len(entries)
    /\ LET n == entries[added + 1] IN
       /\ Constructible(n)
       /\ add_host(n)
       /\ built' = [m \in DOMAIN built \cup Below({n}) |->
                       IF m \in Below({n}) THEN Given(n, m) ELSE built[m]]
    /\ added' = added + 1
    /\ UNCHANGED <<entries, request, at, asked, looped, answer, cached, crashed>>

\* ... or cannot be: the worker is aborted (Supervisor, BuildFails).
AddHostFails ==
    /\ at = "building" /\ added < Len(entries)
    /\ LET n == entries[added + 1] IN ~Constructible(n) \/ Own[n].name \in DOMAIN hosts
    /\ at' = "failed"
    /\ UNCHANGED <<manager, request, asked, looped, answer, cached, crashed>>

\* The manager is there, and the worker runs.
Serve ==
    /\ at = "building" /\ added = Len(entries)
    /\ at' = "idle"
    /\ UNCHANGED <<manager, request, asked, looped, answer, cached, crashed>>

-----------------------------------------------------------------------------
(* session::process_request and manager::host.  From here on the manager    *)
(* does not change.                                                         *)

\* A complete request is there.
Accept ==
    /\ at = "idle" /\ ~crashed
    /\ at' = "loop"
    /\ \E r \in Requests : request' = r /\ asked' = r.path
    /\ UNCHANGED <<manager, looped, answer, cached, crashed>>

\* Mutant of Dispatch: manager::host does not ask the host for its ports.
Dispatch_any_port ==
    /\ at = "loop"
    /\ looped' = request.path
    /\ \/ /\ request.port # request.server_port
          /\ Answer("bad_request", NoHost, <<>>)
       \/ /\ request.port = request.server_port
          /\ request.host \notin DOMAIN hosts
          /\ Answer("not_found", NoHost, <<>>)
       \/ /\ request.port = request.server_port
          /\ request.host \in DOMAIN hosts
          /\ at' = hosts[request.host]
          /\ UNCHANGED answer
    /\ UNCHANGED <<request, asked, cached, crashed>>

\* One pass of the loop: the port, then manager::host.
Dispatch ==
    /\ at = "loop"
    /\ looped' = request.path
    /\ \/ /\ request.port # request.server_port
          /\ Answer("bad_request", NoHost, <<>>)
       \/ /\ request.port = request.server_port
          /\ \/ request.host \notin DOMAIN hosts
             \/ /\ request.host \in DOMAIN hosts
                /\ request.port \notin built[hosts[request.host]].ports
          /\ Answer("not_found", NoHost, <<>>)
       \/ /\ request.port = request.server_port
          /\ request.host \in DOMAIN hosts
          /\ request.port \in built[hosts[request.host]].ports
          /\ at' = hosts[request.host]
          /\ UNCHANGED answer
    /\ UNCHANGED <<request, asked, cached, crashed>>

-----------------------------------------------------------------------------
(* The response methods of the hosts *)

At(kind) == at \in Nodes /\ Kind[at] = kind

\* Mutant of Descend: the host of the section gets the whole path.
Descend_whole_path ==
    /\ At("hierarchy") /\ request.path # <<>>
    /\ First(request.path) \in DOMAIN Content[at]
    /\ at' = Content[at][First(request.path)]
    /\ UNCHANGED <<request, asked, looped, answer, cached, crashed>>

\* hierarchy::response: the host of the first section gets the rest.
Descend ==
    /\ At("hierarchy") /\ request.path # <<>>
    /\ First(request.path) \in DOMAIN Content[at]
    /\ request' = [request EXCEPT !.path = Strip(@)]
    /\ at' = Content[at][First(request.path)]
    /\ UNCHANGED <<asked, looped, answer, cached, crashed>>

\* hierarchy::response: no such section; the default host gets the whole path.
DescendToDefault ==
    /\ At("hierarchy") /\ request.path # <<>>
    /\ First(request.path) \notin DOMAIN Content[at]
    /\ IF Default[at] # NoHost THEN at' = Default[at] /\ UNCHANGED answer
                               ELSE Answer("not_found", at, request.path)
    /\ UNCHANGED <<request, asked, looped, cached, crashed>>

BadPath ==
    /\ At("hierarchy") /\ request.path = <<>>
    /\ Answer("bad_request", at, <<>>)
    /\ UNCHANGED <<request, asked, looped, cached, crashed>>

\* Mutant of Retry: hands back the path the client asked for.
Retry_as_asked(path) ==
    /\ at' = "loop"
    /\ request' = [request EXCEPT !.path = asked]
    /\ UNCHANGED answer

\* nullptr from a host: the loop starts again with the request as it is now.
Retry(path) ==
    /\ at' = "loop"
    /\ request' = [request EXCEPT !.path = path]
    /\ UNCHANGED answer

\* A logic host answers, whatever the answer.
Respond == Answer("response", at, request.path) /\ UNCHANGED request

\* user::response: a user reference and a section are taken off the path before
\* the host decides whether to answer.
UserPath(path) == IF First(path) \in HexSections THEN Strip(Strip(path)) ELSE path

UserResponse ==
    /\ At("user")
    /\ \/ request.path = <<>> /\ Respond
       \/ request.path # <<>> /\ ~request.json /\ Retry(UserPath(request.path))
       \/ /\ request.path # <<>> /\ request.json
          /\ request' = [request EXCEPT !.path = UserPath(@)]
          /\ Answer("response", at, UserPath(request.path))
    /\ UNCHANGED <<asked, looped, cached, crashed>>

UsersResponse ==
    /\ At("users")
    /\ IF request.json THEN Respond ELSE Retry(request.path)
    /\ UNCHANGED <<asked, looped, cached, crashed>>

LoginResponse ==
    /\ At("login")
    /\ IF request.post THEN Respond ELSE Retry(request.path)
    /\ UNCHANGED <<asked, looped, cached, crashed>>

LogoutResponse ==
    /\ At("logout")
    /\ IF request.post THEN Respond ELSE Retry(request.path)
    /\ UNCHANGED <<asked, looped, cached, crashed>>

RegistrationResponse ==
    At("registration") /\ Respond /\ UNCHANGED <<asked, looped, cached, crashed>>

\* The default response of every host: 404.
PhonyResponse ==
    At("phony") /\ Respond /\ UNCHANGED <<asked, looped, cached, crashed>>

AddFriendResponse ==
    At("add_friend") /\ Respond /\ UNCHANGED <<asked, looped, cached, crashed>>

RemoveFriendResponse ==
    At("remove_friend") /\ Respond /\ UNCHANGED <<asked, looped, cached, crashed>>

\* process_request ends, and with it the handler.
Finish ==
    /\ at = "done"
    /\ at' = "idle"
    /\ request' = NoRequest /\ asked' = <<>> /\ looped' = <<>> /\ answer' = NoAnswer
    /\ UNCHANGED <<cached, crashed>>

\* Mutant of FileResponse: answers for every host and keeps a file for it.
FileResponse_any_host ==
    /\ at \in Nodes
    /\ Answer("response", at, request.path)
    /\ cached' = cached \cup {at}
    /\ UNCHANGED <<request, asked, looped, crashed>>

\* A file host answers whatever the path, and may map a file and keep it.
FileResponse ==
    /\ At("files")
    /\ Answer("response", at, request.path)
    /\ cached' \in {cached, cached \cup {at}}
    /\ UNCHANGED <<request, asked, looped, crashed>>

-----------------------------------------------------------------------------
(* SIGUSR1: manager::clear_cache *)

\* All hosts the manager reaches.
Reached == Below(Range(hosts))

\* hierarchy::clear_cache calls its default host without looking whether there
\* is one: the process dies on the null pointer.
ClearCache ==
    /\ at = "idle" /\ ~crashed
    /\ IF \E n \in Reached : Kind[n] = "hierarchy" /\ Default[n] = NoHost
       THEN crashed' = TRUE /\ UNCHANGED cached
       ELSE cached' = cached \ Reached /\ UNCHANGED crashed
    /\ UNCHANGED <<manager, request, at, asked, looped, answer>>

Init ==
    /\ entries \in HostConfigs /\ added = 0 /\ hosts = <<>> /\ built = <<>>
    /\ request = NoRequest /\ at = "building" /\ asked = <<>> /\ looped = <<>>
    /\ answer = NoAnswer /\ cached = {} /\ crashed = FALSE

\* One step of the computation that process_request is.
Route == /\ UNCHANGED manager
         /\ \/ Dispatch \/ Descend \/ DescendToDefault \/ BadPath
            \/ UserResponse \/ UsersResponse \/ LoginResponse \/ LogoutResponse
            \/ RegistrationResponse \/ AddFriendResponse \/ RemoveFriendResponse
            \/ PhonyResponse \/ FileResponse \/ Finish

Next == \/ AddHost \/ AddHostFails \/ Serve
        \/ Accept
        \/ Route
        \/ ClearCache

\* The handler runs until it returns.
Spec == Init /\ [][Next]_vars /\ WF_vars(Route)

-----------------------------------------------------------------------------
(* Properties *)

\* Every variable holds what the code stores in it; hosts only take sections
\* off the path, and keep the rest of the request.
TypeOK ==
    /\ [request EXCEPT !.path = asked] \in Requests \cup {NoRequest}
    /\ {request.path, looped, answer.path} \subseteq Seq(Sections)
    /\ at \in Nodes \cup {"building", "failed", "idle", "loop", "done"}
    /\ entries \in HostConfigs /\ added \in 0..Len(entries)
    /\ Range(hosts) \subseteq DOMAIN built /\ DOMAIN built \subseteq Nodes
    /\ answer.status \in {"none", "response", "bad_request", "not_found"}
    /\ cached \subseteq {n \in Nodes : Kind[n] = "files"}
    /\ crashed \in BOOLEAN

\* process_request ends: no request makes its worker loop for ever, which
\* would stop every other connection of the worker too.
Routed == at \in Nodes \cup {"loop", "done"} ~> at = "idle"

\* How often the loop can come round from a path on: handing the path "/" back
\* would end nothing, and any other path has its sections to lose.
Passes(path) == IF path = <<"">> THEN 1 ELSE Len(path) + 1

\* session.cpp: a null response means "request was rewrote => process it
\* again".  A host that hands the request back, or the hosts before it, have taken
\* sections off its path since this pass of the loop began, so that the loop comes
\* round at most once more than the path the client sent has sections.
RewrittenOnRetry ==
    [][(at \in Nodes) /\ at' = "loop" => Passes(request'.path) < Passes(looped)]_vars

\* The code does not see to it, the configuration does: where the hosts that may
\* hand a request back are in sections, each with a name, they have taken at
\* least their own section off the path.
RetryKinds == {"user", "users", "login", "logout"}
RetryUnderSections ==
    \A n \in Nodes :
        /\ "" \notin DOMAIN Content[n]
        /\ Kind[n] \in RetryKinds => /\ \A m \in Nodes : Default[m] # n
                                     /\ \A e \in HostConfigs : n \notin Range(e)

IsTail(p, q) == \E k \in 0..Len(q) : p = SubSeq(q, k + 1, Len(q))

\* The path a host answers for is an end of the path the client asked for (or
\* "/"), however many hosts took sections off it and however often the request
\* was handed back; and no host of another name or port answers, nested ones
\* included.
ServedAsAsked ==
    at = "done" /\ answer.status = "response" =>
        /\ answer.path = <<"">> \/ IsTail(answer.path, asked)
        /\ request.host = built[answer.node].name
        /\ request.port = request.server_port
        /\ request.port \in built[answer.node].ports

\* A worker that serves has every host of its configuration under its name: none
\* was hidden by another one of the same name, or left out.
HostsAsConfigured ==
    at \notin {"building", "failed"} =>
        /\ DOMAIN hosts = {Own[n].name : n \in Range(entries)}
        /\ \A i \in DOMAIN entries :
              /\ hosts[Own[entries[i]].name] = entries[i]
              /\ \A k \in DOMAIN entries : k # i => Own[entries[k]].name # Own[entries[i]].name

\* After SIGUSR1 no file host of the worker, however deep in the tree, still
\* answers from what it had mapped before.
ClearReachesAll == [][UNCHANGED at /\ cached' # cached => cached' = {}]_vars

\* hierarchy.h: the default host is "Optional", so a worker without one
\* survives the cache reset it is sent.
SurvivesClear == ~crashed
=============================================================================
