# UniTrack: a TLA+ model

UniTrack is a multi-process HTTP server with a small social network on top:
workers forked by one parent, each with a single-threaded boost::asio event
loop, hosts chosen by name and path, and users and sessions in MongoDB. This
directory holds TLA+ modules translated from its source, TLC configurations
that check them on small instances, and TLAPS proofs. Source paths below are
relative to `src/modules` of the repository unless they start with `config/`
or `mongo/`.

## 1. Inventory

| Component | State | Operations | Who calls it | Module |
|---|---|---|---|---|
| application (`../targets/unitrack/application.cpp`) | server, status | a line on stdin clears caches, the end of input stops | the user | Supervisor |
| server (`server/server.*`), process (`system_/process.*`) | worker processes, listening sockets | bind, fork, `stop` (SIGTERM to each), `clear_cache` (SIGUSR1 to each) | application | Supervisor |
| worker (`server/worker.*`), acceptor (`server/acceptor.cpp`) | io_service, host manager, signal set, pending accepts | construction, `run`, `add_client`, signal handlers | forked by server | Supervisor |
| connection (`server/session.*`) | stream buffer, current request, response queue, `sending_` | read, process, queue, write | worker; asio handlers | Connection, Pipeline |
| HTTP request (`server/protocol/http/request.*`, `utils.*`, `http.cpp`) | the request object of a connection | `reset`, `process_stream`, `process_stream_again`, `decode_uri_args` | connection, logic hosts | RequestParser; framing in Connection |
| host manager (`server/host/manager.cpp`, `host/generator.cpp`) | hosts by name | construction, `add_host`, `host`, `clear_cache` | worker, connection | Routing |
| hierarchy host (`host/modules/hierarchy.cpp`, `host/path_utils.cpp`) | hosts by section, optional default host | construction, `response`, `clear_cache` | manager | Routing |
| logic hosts (`host/modules/logic/*`) | none | `response`: answer, or null to be dispatched again | hierarchy | Routing, Friends, UserSessions |
| file host, file cache (`server/host/file*`, `base/file_cache.hpp`, `base/mapped_file.cpp`) | mapped files and pages | validators, `response`, `clear_cache` | hierarchy | Responses |
| responses (`server/protocol/http/response.hpp`, `server/host/base.*`, `base/strings_cache.hpp`) | buffers and the owners of their bytes | built by hosts, read by `async_write` | hosts, connection | Responses |
| templatizer (`templatizer/`) | parsed pages | `load`, `generate` | file host | Templates |
| user sessions (`logic/base.cpp`) | collection `sessions`, the `sessions` array of a user | start, continue, restart, finish | logic hosts | UserSessions |
| registration (`logic/registration.cpp`) | collection `users` | draw a ref, insert a user, start a session | logic host | Friends |
| friends (`logic/add_friend.cpp`, `remove_friend.cpp`, `user.cpp`, `users.cpp`) | three arrays of a user | add, remove, a user's page, the list of users | logic hosts | Friends |
| logger, JSON, time, messages (`logger/`, `base/`, `logic/message.cpp`) | none that another part reads | formatting | everyone | not modelled |

Inside a worker nothing is concurrent but the order of completions: a handler
of the io_service runs to its end. Between workers everything is concurrent;
they share MongoDB, the listening sockets and the files, not memory.

What is hard here, and what makes each part correct:

- **supervision**: signals come before a worker has its handlers, while it
  handles others, or after it died; nobody waits for a dead worker. Correct
  means: stop reaches everyone, a cache reset reaches every cache, no worker
  takes another one down, a client in a backlog is taken care of.
- **connection**: a response is queued while another is being written; reading
  and writing overlap when requests are pipelined; handlers keep the object
  alive; every error path must still answer. Correct means: replies in the
  order of requests, one each, none after the last; never two writes; no
  response forgotten; the socket is closed in the end.
- **request**: one object serves all requests of a connection; the order in
  which text is split and decoded matters. Correct means: what a request says
  is in its own lines, it is refused for a cause, and a form arrives as sent.
- **routing**: a null response makes the worker dispatch the same request again
  inside one handler. Correct means: that ends; the path is the client's less
  the sections taken; host and port are checked each time; no configured host
  is hidden; SIGUSR1 reaches every cache and kills nobody.
- **responses**: buffers point into mappings, caches and temporaries, and are
  read later; the disk changes between two tests of one request, and below a
  mapping. Correct means: bytes live until they are written, Content-Length is
  true, one mapping is shown until a clear and nothing stale after it, and an
  error status tells the truth.
- **user sessions**: a method is a sequence of database operations; other
  workers, the clock and the death of the process come between any two.
  Correct means: an id has one holder; logged out is out; the user's list and
  the session documents agree; nothing lengthens a session; all is answered.
- **registration and friends**: unique indexes decide races, and a friendship is
  kept in two documents. Correct means: who is told "ok" owns the account; the
  halves of a friendship agree but for operations under way; only POST changes
  accounts and friendships, while every request with a session writes the time of
  the visit, and may restart the session.

`PROJECT.json` lists every hazard with its line and its properties.

## 2. Modules

How they fit together: `Supervisor` has the processes; a worker that is
"serving" there is the context of all other modules, and its `BuildFails` is
`AddHostFails` of `Routing`. A client that is "accepted" gets a `Connection`,
whose requests carry, as data, what `RequestParser` makes of their lines and
what `Routing` makes of their path; `Routing`'s answers are made by `Responses`
(over `Templates`) and, for logic hosts, after the database steps of
`UserSessions` and `Friends`. `Pipeline` is the abstract specification of
`Connection`, shown to be implemented by it. The state of each module is kept to
what its properties tell apart; the parts meet at the values above, not in one
large product.

Next to modelled definitions stand variants with a plausible bug, named after
the original (`reset_keeps_body`, `Earlier_set`) and marked as mutants: for each
property of each passing run, TLC finds it violated with one of them in place.

### Supervisor, MCSupervisor, SupervisorProofs

| Action | Code |
|---|---|
| `Bind`, `Fork`, `Started`, `StartFails` | the constructor of `server::server`: acceptors, forks, the catch clause that stops what was forked |
| `Enter`, `EndOfInput` | `application::run_interactive`, `server::clear_cache`, `server::stop` |
| `SendNext` | one `process::kill` of the two loops over `worker_processes_` |
| `Build`, `BuildFails` | the constructor of `worker` in the child; `system_::process` aborts a child that throws |
| `signal_handler` | `worker::signal_handler` with the map of reactions; the wait is armed again before the reaction |
| `accept_handler`, `AcceptFails`, `add_client_terminates` | `acceptor::accept_handler`; `remote_endpoint()` throws in a `noexcept` function for a client that has left |
| `RunFails` | an exception leaves `io_service::run` |
| `TerminalSignal`, `Connect`, `GiveUp` | the terminal and the clients (external) |

The kernel is external: a signal for a worker without handlers takes its default
action, a later one is queued; a dead worker stays a zombie, since nobody calls
`waitpid`, so `kill` of it succeeds. `MaxFaults` bounds failures and signals of
the terminal together.

### Connection, Pipeline, MCConnection, ConnectionProofs, ConnectionPipelineProofs

`Connection` is `server::session` with the framing part of `http::request`. A
step is one asio handler, or one thing the kernel or the client does between
handlers. Variables keep the names of the members (`stream_buffer_`, `request_`,
`processing_new_request_`, `responses_queue_`, `sending_`); `reads` and `writes`
are the pending asynchronous operations, whose handlers hold the `shared_ptr`s,
so `alive` is "the destructor has not run". `delivered` is what was put on the
wire, the only history variable.

| Action | Code |
|---|---|
| `request_handler` | 214-223: a read that is done; the buffer is parsed (`Parsed`), with one of four outcomes |
| `ContinueReading`, `RejectRequest`, `AnswerRequest`, `RefuseRequest` | the outcomes of `process_request` (90-192): body incomplete; reading throws; the host answers; the port check or the host throws |
| `ReadFails` | `request_handler` with an error (225-233) |
| `response_handler` | 255-271; `add_response_handler` and `send_response` are operators |
| `Receive`, `KernelWrite` | steps of asio's composed operations (external) |
| `ClientSend`, `ClientClose`, `ClientReset` | the client (external) |

The stream is a sequence of units: a header block, or a piece of a body.
`Receive` takes any number of units, so a block of the next request may sit in
the buffer while a body is read. A header block is never split: the code does
not look at a part of one, `async_read_until` waits for the separator.

`Pipeline` says: requests are answered in order, exactly once, up to the first
that ends the conversation. `AnswersInOrder` is `P!Safety` and `AnswersCome` is
`P!Liveness`, with `delivered` for the replies; the reply owed to a request is
stated from the meaning of HTTP (`Owed`), apart from the catch clauses.

### RequestParser, MCRequestParser, RequestParserProofs

The lines of two requests and the one request object they share. A line is what
the regular expressions tell of it (`StartType`, `HeaderType`); the URI and the
form, which are taken apart and decoded, are sequences of tokens: characters
that stand for themselves, and escapes.

| Action | Code |
|---|---|
| `process_stream` | the start of `request::process_stream`: `reset` |
| `process_start_string`, `process_header_string`, `ProcessUri` | the methods of that name and the end of `process_stream`; a line of the loop is a step |
| `ReadForm` | `login.cpp` and `registration.cpp` of the hosts: `decode_uri_args` over the body |

`Runs`, `Arg` and `decode_str` are `http/utils.*`, `FieldsOf` is what the hosts
read from a body that holds a form; `Encode` is the browser (external), from
which `FormRoundTrip` is stated. The key of an argument is greedy, as in
`args_regex`, so `a=b=c` has the key `a=b`. The recursive definitions are
functions, of the places of a sequence, so that they can be proved about.
A port that is given (`with_port`) is told from none, also if it is 0. `BodyLimit`
is the largest body that `body.resize` (request.cpp:150) has room for: above it the
error is `std_exception`, which `Connection` answers as session.cpp:185 does;
`Content-Length: -1` is one of those, as `lexical_cast` makes 2^64 - 1 of it.

### Routing, MCRouting, RoutingProofs

The construction of the hosts, the loop of `process_request` (session.cpp
125-160), `manager::host`, `hierarchy::response`, the `response` of each logic
host up to what it answers, and the walk of `clear_cache`. A path is a sequence
of sections, which is what `split_first_section` sees.

| Action | Code |
|---|---|
| `AddHost`, `AddHostFails`, `Serve` | `manager_generator`, `generate_host`, `manager::add_host`; `Given` is what a hierarchy hands down to nested hosts |
| `Accept`, `Dispatch`, `Finish` | the loop and the lookup with its port check |
| `Descend`, `DescendToDefault`, `BadPath` | `hierarchy::response` |
| `UserResponse` ... `PhonyResponse`, `FileResponse` | the hosts: answer, or hand back (`Retry`) |
| `ClearCache` | SIGUSR1: `manager::clear_cache`, between handlers |

`looped` is the path with which the current pass of the loop began; `asked` the
path of the client. `Default[n] = NoHost` is a hierarchy without "default".
`Below` of a host is what its hierarchy leads to.

### Responses, Templates, MCResponses, ResponsesProofs

One worker's responses with every buffer and the owner of its bytes: the string
of headers (which moves when it grows), a mapping, the model of a page, the
strings cache of the response, static data, or a temporary.

| Action | Code |
|---|---|
| `Request`, `Resolve`, `Test` | `file::response`: the validators and `canonical`; `is_directory` |
| `ResolveIndex`, `TestIndex` | the same of the index file |
| `Handle`, `TestFile`, `Measure`, `Map` | `file_cache::at` with `exists`, `is_directory` and `is_empty` of `mapped_file`; then its opening and mapping, `load`, and the response of `files_only` or `template_pages_only` |
| `LogicAnswer` | `base::response_with_body`, `redirect_response`, a response that resets a cookie |
| `Sent` | the write is done and the response dropped |
| `clear_cache` | `file::clear_cache`: both handlers |
| `Write`, `Overwrite` | the disk (external): removed, replaced, a directory, another mode, no longer to be reached; written to in place |

The disk may change between any two of these steps: each test of a path is one, and
so is the opening and mapping of a file (`open`, `fstat` and `mmap` of
boost::interprocess on one descriptor). A path leads to one of the `Kinds`, which
are those the code tells apart by their errors: `FilesystemError` is the clause
of `filesystem_error` in file.hpp:69-75, with 404 for ENOENT, 403 for EACCES and 500
for all others (a part of the path that is no directory, a loop, a name that is too
long), whichever step it comes from. `canonical` has ENOENT also for what the others
call ENOTDIR, since it asks whether the path exists first. `seen` is what a path
was while its request was handled. Paths that are denied are never looked at, so
nothing is written to them (`LookedAt`).

A mapping is shared, so `Overwrite`, which keeps the inode, changes the bytes of
responses that are queued: `changed` remembers where, and `BodyTrue` then says
nothing of what the body shows, but still that its length is the Content-Length. A
file cut shorter below a mapping is not modelled: it raises SIGBUS or shows zeros,
by how much of a page is left.

`Templates` holds `page::load` as its loop, item by item of a template, and
`generate` as the buffers of the chunks in their order; `Rendered` reads what a
page should show off the template itself. A template is what the regular
expression makes of a file (`IsTemplate`): text lies between matches, so no two
texts are next to each other and none is empty, and a match in the full form names
a command. Of a page model only the lengths of its values count.

### UserSessions, MCUserSessions, UserSessionsProofs

`logic::base` run by several workers on one database. Each database operation
and each reading of the clock is an action; a worker's program counter `pc`
says which comes next.

| Action | Code (logic/base.cpp) |
|---|---|
| `Login`, `RefuseLogin` | `start_session_for_email`, password check (20-44, 137-146) |
| `Continue`, `FindSession`, `CheckSession` | `continue_session` (50-89), then `restart_session` (238-254) |
| `Logout`, `FinishTime`, `FinishSession`, `Unregister` | `finish_session`: the clock (104), `$min` (106-121), `$pull` (124-130) |
| `GenerateId`, `InsertSession`, `Register` | `start_session_for_obj_without_password_check`: id loop (159-176), `insert` (217-221), `$push` (223-229) |
| `Respond` | the logic host's answer and cookie |
| `Tick`, `Crash` | the clock; a worker dies |

MongoDB is external: one operation on one document is atomic, the unique index
on `session_id` of `mongo/prepare.sh` exists. `last_visit_at` and `forget_at`
are left out: no code reads them for a decision. Users are never removed, so
the `findOne` of the user in `restart_session` always finds one. `issued`,
`loggedOut` and `finished` are history variables; a request is `late` if its
client already knew the session was finished when it asked.

### Friends, MCFriends, FriendsProofs

The `users` collection and the hosts that work on it. What each host refuses
before its logic runs are the `..._refuses` operators, checks in the order of
the code; then one action per database operation.

| Action | Code |
|---|---|
| `Register`, `DrawRef`, `Insert` | `logic::registration`: the loop over refs (26-54), the insert that unique indexes decide |
| `Login`, `StartSession` | `start_session_for_email`: account and password |
| `VisitUser`, `FinishSession`, `RegisterSession` | what `logic::base` writes to a user: the time of a visit (74-78), `$pull` and `$push` of his sessions (124-130, 223-229), of a login, a logout or a restart |
| `Logout` | `logic::logout`: `finish_session` |
| `AddFriend`, `RemoveFriend`, `UpdateFriend`, `UpdateSelf` | the two updates of `add_friend.cpp` and `remove_friend.cpp`, `$push` or `$pop` |
| `UserPage`, `ReadUser`, `DrawIndexes`, `LookFriend` | `logic::user`: a user, a sample of unique random friends, one query each |
| `ListUsers`, `ReadUsers` | `logic::users` |
| `Crash` | a worker dies between two operations |

A cookie stands for what `continue_session` finds: a session that goes on
(`Valid`), one that has to be restarted (`Due`), none that is valid (`NotFound`), or
no cookie. The session documents are those of UserSessions; here are the fields of
the user documents they entail, `sessions` (whether there is any) and
`last_visit_at` (whether it was set since the registration). After a restart the
hosts get a ref, of which `mongo::OID` makes no id (finding 1); `users` alone does
not look at it and goes on. `popped` is a history variable.

## 3. Runs

| Run | Distinct states | Shows |
|---|---|---|
| `connection` | 278,038 | 3 pipelined requests out of all kinds (every exception class, bodies too large, bodies with GET, a last request), cut, closed or reset at any point: types (so every exception has a status), one write and on the front of the queue, nothing stranded, one read at a time and none after a final answer; the connection implements `Pipeline`, safety and liveness, and ends |
| `sessions_safety` | 3,078,339 (with symmetry) | 2 workers, 2 users, 2 ids, clock to 3, sessions that last 2 and restart after 1, one crash |
| `sessions_progress` | 303,699 | one user, the same workers and crash: every request is answered |
| `routing` | 168,277 | `config/server.json` with a second host on another port; all paths of up to 3 sections out of all logic sections, "", a user reference and an unknown one, and those of 4 out of five of them; wrong names and ports; with and without `?json`, POST and not; configurations that cannot be built (a name twice, no name, an unknown type, a missing parameter) |
| `supervisor` | 89,370 | 2 workers, a port, 2 clients, 2 lines, 2 failures or terminal signals, at any point |
| `friends` | 298,443 (with symmetry) | 2 workers, 2 users, e-mails and refs, 2 attempts, 2 additions or removals, 1 crash; any method; sessions that go on and sessions that are restarted |
| `responses` | 2,395,268 | a plain file, a template and a denied path; 2 changes of the disk between any two tests, one clear, three contents (a template of every command, one that cannot be parsed, nothing), two models |
| `parser` | 1,780,833 | 2 requests, 7 start lines, 14 kinds of header lines, up to 4 of them, with a length there is no room for and a port 0; forms of one and two pairs |
| `sessions_restart_ref`, `routing_no_default`, `friends_remove`, `supervisor_early_enter` | up to the counterexample | disagreements between code and comments; section 5 |

**Bounds.** Connection: `MaxRequests` = 3: one request being answered, one read
and one still in the kernel; ordering mistakes need two. Bodies of 2 units: one
split is enough to come back through `process_stream_again`. `BodyLimit` = 2 with
a body of 3 stands for a `std::string::resize` that throws. Sessions: two ids and
two workers make ids collide and run out; with `Lifetime` 2, `RestartAfter` 1 and
`MaxTime` 3 a session is fresh, due for a restart and expired, and a restarted one
ages again. `Attempts` = 2 is the least with a retry. In `sessions_progress` the
clock stops at 1: sessions are restarted, not expired; an expired one takes the
shortest path of all. Supervisor: two workers are an elder and a younger sibling;
two lines make a signal come while one is queued; two faults let a failed accept
and a death, or a failed start and a terminal signal, come together. Friends: two
changes make crossed additions, duplicates, and an addition with a removal;
`MaxFriends` = 1 below a list of two makes a true sample (that its indexes are
unique is shown by the theorem); one crash is enough to separate the halves.
Responses: one response under way, since two share nothing but the caches, and a
clear may come while it waits; a first state and two changes of the disk let a
file vanish, come back or turn into a directory within one request, or be written
to in place below a mapping; one template has every kind of chunk in it, and
`PageTrue` is proved of all templates. Parser: two requests make leftovers, four
header lines make a header of one name repeated around others. The bounds are
CONSTANTS in guards: `MaxTime`, `MaxCrashes`, `MaxEnters`, `MaxFaults`,
`MaxChanges`, `MaxQueue`, `MaxWrites`, `MaxClears`, `MaxHeaders`, `MaxRequests`.

**Symmetry** is used in `sessions_safety`, `friends` and `friends_remove` only: no
definition there tells workers, users, ids, e-mails or refs apart, and every
property is an invariant or a step property. It is off wherever liveness is
checked.

**Deadlock** is checked in `connection` (a session that ended stutters in
`Destroyed`), the session runs and `responses`. It is off where the system really
stops: in `routing` a worker whose hosts cannot be built ends, in `supervisor`
all processes may end, in `friends` all workers may be dead, in `parser` a
request that failed ends the connection.

**Fairness.** `Connection`: weak fairness of the pending read and of the pending
write, each as a whole: the io_service runs ready handlers, and bytes move while
the client takes them. Nothing obliges the client to send, so a body may stay
incomplete for ever and the session with it: the code has no timeout, and
`SessionEnds` is claimed only once the client has left or the final response is
queued. `UserSessions`: a worker that lives goes on, MongoDB answers. `Routing`:
a handler runs until it returns. `Supervisor`: the parent goes on in its
constructor and its loops, a worker gets through its constructor, handles signals
and accepts on each port; none for the terminal, the clients or failures.
`Friends`, `RequestParser` and `Responses` claim no liveness and state none.

## 4. Proofs

For every value of the constants that the named assumptions allow:

| Module | Theorems (`Spec => ...`) |
|---|---|
| `ConnectionProofs` | `Invariant` ([]IInv), `TypeCorrect`, `FrontSafe` ([]FrontIsBeingSent), `NoneStranded`, `ReaderSafe` ([]ReaderInv), `ReadsSafe` ([]ReadsUntilFinal) |
| `ConnectionPipelineProofs` | `PipelineSafe` ([]PipelineInv), `AnswersOrdered` (the refinement AnswersInOrder) |
| `UserSessionsProofs` | `Invariant`, `TypeCorrect`, `OneHolderSafe`, `LoggedOutSafe`, `RegistrySafe`, `NeverLonger` (the step property NeverLengthened), `WorkEnds` (the step property BoundedWork) |
| `SupervisorProofs` | `TypeCorrect`, `StopsSafe` (the step property OnlyParentStops) |
| `FriendsProofs` | `Invariant`, `TypeCorrect`, `RegistrationSafe`, `HalvesSafe`, `DrawsSafe`, `OnlyPost` (the step property OnlyPostWrites) |
| `RequestParserProofs` | `Invariant`, `TypeCorrect`, `RefusalSafe` ([]RefusedForCause), `OwnSafe` ([]ParsedIsOwn), `ArgsSafe` ([]ArgsComplete), `FormSafe` ([]FormRoundTrip) |
| `RoutingProofs` | `Invariant`, `ManagerSafe` ([]HostsAsConfigured), `TreeSafe` ([]TreeInv), `TypeCorrect`, `ServedSafe` ([]ServedAsAsked), `ClearSafe` and `RewrittenSafe` (the step properties ClearReachesAll and, under RetryUnderSections, RewrittenOnRetry) |
| `ResponsesProofs` | `PageTrue` (a theorem about `Load`, `GeneratePage` and `Rendered`, of no behaviour), `Invariant`, `TypeCorrect`, `FreshSafe` ([]FreshAfterClear), `OwnedSafe` ([]BuffersOwned), `BodySafe` ([]BodyTrue), `StatusSafe` ([]StatusTrue), `SameSafe` ([]SameUntilClear) |

Each proof has one lemma per action (or per group of actions that change the
same things), over lemmas about the operators they share.

- **Connection.** `ConnectionAssumption`: requests are of `BlockType`, bounds are
  naturals. `IInv` is `TypeOK`, `ReaderInv` and `WriterInv`. `FrontIsBeingSent`
  is not inductive alone: `KernelWrite` appends to `delivered` the response of
  the write, and a failed write stops the pump, so `NothingStranded` needs that
  a write fails only on a broken connection. Types need `ReaderInv`: the parser
  runs `process_stream` only with a header block in the buffer and
  `process_stream_again` only with a current request. `ReadsSafe` relates the
  pending reads to every response of the past, which leaves the queue; `RInv`
  adds `ReplyInv`: a response whose write is over was delivered, and responses
  answer requests already sent.
  `AnswersOrdered`, the refinement, follows the bytes. As long as the connection
  works, `PipelineInv` says: what is in `stream_buffer_` and `wire` together are
  whole requests, one behind the other (`Whole`), and begin right behind the
  request answered last, or behind the part of the body that `request_` already
  has (`ListenInv`); the responses queued are those owed to the requests that
  follow the delivered ones, and only the last may end the conversation
  (`OwedInv`); only a client that gave up leaves a request incomplete
  (`SentInv`). A parse then takes the next header block, which is first in the
  buffer, so `Min(Heads(..))` is 1 and nothing before it spoils the start line.
  The lemmas about slices (`Dropped`, `DropConcat`, `Portion`) say how buffer and
  kernel share one stream; the others go step by step. `KernelWrite` is
  `P!Answer`, `ClientSend` `P!Ask`, `ClientReset` `P!Cut`; every other step
  stutters.
- **UserSessions.** `UserSessionsAssumption`: the unknown id is no session id,
  bounds are naturals, at least one attempt. `HolderInv` says who holds an id
  before the client has it (the worker between `insert` and its answer), and
  that no two workers hold one. `RegistryInv` adds to `RegistryAgrees` that a
  worker between two operations has the right user. `OutInv` says that a
  finished session has ended by the clock, and that a late request meets it so
  in each of its steps; without it a document read earlier could be good.
  `WorkEnds` is the half of `Answered` that needs no fairness: `StepsLeft` counts
  what a worker has before it, and every step of the system takes a request, leaves
  a worker alone or brings it nearer to its answer, by `AttemptsInv` also while it
  draws ids. A request is over after at most `Attempts` + 8 steps of its worker, and
  all ids taken ends in an answer.
- **Supervisor.** A signal that ends a worker comes from `SendNext` or from a terminal,
  so what is needed beyond types is that the loop runs with that signal only after a
  stop (`SendingInv`), and that a worker has one before it only once the parent stops
  or is dead, as the terminal hits both (`PendingInv`). `OnlyParentStops` is of
  steps: by `StopsStep` each step in which a worker ends, while the parent starts or
  runs, is a failure of that worker or the parent's SIGUSR1 that meets it without
  handlers, and by `EndsAlone` no other worker changes with it.
- **Friends.** `FriendsAssumption`: finitely many workers, pages of at least one
  friend. `JobFacts` says what each step may rely on (an inserted user is still
  there, with the e-mail and the ref that were asked for), `WorkersInv` that no
  two workers register one id and where a dead one stands, `UsersInv` that an
  e-mail has one user and that friends are registered. The
  sessions touch none of that (`SameAccounts`: e-mail, ref and friends are as
  they were), so what `logic::base` writes needs one lemma for all (`AccountsStep`). The
  counting in `HalvesAgree` uses cardinalities: appending adds one occurrence,
  and reaching or leaving the second half adds or takes one worker.
  `DrawsEnd` follows from indexes that are unique and fewer than the sample.
  `OnlyPost` goes by the document a step writes: a job with another method than POST
  is at none of the steps of registration and friends, by `JobFacts`, and those of a
  session write two fields of its own user.
- **RequestParser.** `RequestParserAssumption`: lines are of their types;
  `FormsAssumption`: a form is a sequence of named fields, of characters (an escape
  is no character). `LinesInv`: only the last header may be bad or blank;
  `CauseInv`: why a request failed, also if there was no room for its body, and that
  a length comes from a header of this request. `OwnInv` says `ParsedIsOwn` after
  every line, not only at the end (`OwnFields`), and that a request that starts is
  `Fresh`, which is what `reset` is for. One lemma says of each field what one more
  line makes of the last header of its name (`LastNamed`, `LastPort`); the cookies
  need two: `Emplaced`, that `emplace` one by one adds the pairs that are first
  under their keys, and `MoreCookies`, that those are the first ones of all lines,
  for which every key sent so far must have its cookie (`Kept`). `ArgsComplete` and
  `FormRoundTrip` are about data. One more token ends the runs of a text, lengthens
  the last one or begins one (`RunsAppend`); by `AllSeqs`, as in Responses, the runs
  of any text put together are its tokens but the separators (`RunsOf`). Every run
  is shown in full by the argument that `args_regex` makes of it, however many "="
  it has (`ArgOf`); with what `process_uri` cuts off at the first "?" this is
  `UriTaken`. A form goes the other way: no character is encoded as a separator or
  "=", so that each field is one run with one "=", of which come the name and the
  value (`EncodedFieldOf`), the whole form has the runs of its fields (`FormOf`, by
  appending a field), and decoding is the inverse of encoding, character by
  character (`EncodeOf`), because step 2, which makes a "+" of "%2B", comes after
  step 1, which makes a space of every "+".
- **Routing.** `RoutingAssumption`: hosts refer to hosts and each is in one place,
  under one host or among the entries, as they are objects of a JSON document;
  requests are of `RequestType`. `Below`, the least set that holds a host and the
  children of its members, needs no induction: `BelowLeast` cites any closed set.
  `ManagerInv`: hosts added so far are the first entries, each under its
  name. `PathInv`: the path is what is left of the client's; `Strip` keeps that.
  `TreeInv` adds the tree: what was built has its entry's name and ports
  (`BuiltInv`; entries share nothing, by `EntriesApart`, so that a later one
  overwrites nothing), a request stays below a host it may have (`ServedInv`), and
  only what is reached from the manager keeps files mapped (`CacheInv`), so that
  `ClearCache` leaves none. `RewrittenOnRetry` does not follow from the code: a
  user host as a top-level host would get back the request it hands back, for ever. It
  follows from `RetryUnderSections`, that such hosts are in sections with a name,
  which TLC evaluates in `MCRouting`: in `RetryInv` the path of a request at such a
  host has lost a section in this pass of the loop, so that the path it hands back
  has fewer `Passes` before it (`Shorter`, and `StripShorter` for each further
  section that is cut off). The loop of one request therefore comes round at most
  once more than its path has sections, which is the half of `Routed` that needs no
  fairness.
- **Responses.** `ResponsesAssumption`: contents are templates (above), a page
  model gives its names lengths, and `MaxWrites` is at least 1, as what is on the
  disk at first counts as a write. The data comes first. Lengths, flattening and
  what shows of a sequence (`Length`, `FlattenSeq`, `Visible`, `Bare`) are lemmas
  about appending one element, and `AllSeqs`, which says that a set that holds the
  empty sequence and with each sequence its extensions holds all, carries them to
  every sequence. With it `LoadedTrue` goes along the template: after any items
  the chunks loaded show all of it but the text since the last match (`Behind`),
  and that is what `LoadTail` adds; `PageTrue` follows. `PageOwned` goes along the
  chunks in the same way. Second, the responses: `Draft` says what a response under
  construction keeps, tells and has for buffers, each step of the hosts'
  constructions has a lemma, and what comes out is `Made`: its buffers are owned
  (`Owned`) and its body is true (`TrueBody`). Last, the worker. `DiskInv`: inodes grow
  with the writes. `CacheInv`: what is cached is not older than the last clear
  allows and is cut into the chunks of its own content (`Kept`). `RequestInv`: what
  the path is now is among what it was seen to be (`PutStep` keeps that for each
  change of the disk), the validators have passed, an empty file that was found is
  not too old, and while a file is opened (`Opening`) nothing is cached for its path;
  without it no status could be explained (`ErrorStep`, `CanonicalStep`). `QueueInv`:
  every response queued is `Good` by itself, which needs no cache: it holds what it
  was made of, so clears and writes cannot spoil it, and what a change in place may
  spoil is left out by `BodyTrue`. `SameInv` is of the queue and the caches together:
  `Keep` puts an object only where nothing was, which is what `Opening` is for, so
  every response mapped since the last clear goes on agreeing with the cache.

**Only model-checked.** Liveness (`SessionEnds`, `AnswersCome`, `Answered`, `Routed`,
`StopReachesAll`, `ClearReachesAll` and `ClientsAccepted` of Supervisor), which
the prover does not reach; what bounds the work of `Answered` and of `Routed` is
proved (`WorkEnds`, `RewrittenSafe`). Every invariant and every step property that a passing
run checks is a theorem, and so is the safety half of the refinement.

## 5. Findings

1. `logic/base.cpp:83` (`sessions_restart_ref`): continuing a session in the
   second half of its life returns the user's ref where `base.h:36` promises the
   id; the callers throw while making an OID of it, after the old session was
   finished, and the new cookie is lost.
2. `host/modules/hierarchy.cpp:119` (`routing_no_default`): the optional default
   host is dereferenced unchecked: SIGUSR1 kills the worker.
3. `logic/remove_friend.cpp:31` (`friends_remove`): `$pop` takes the last entry off
   the other's `friend_of` and `incoming_friends`, whoever made it; the one who made
   it still has the friend in his own `friends`.
4. `server/server.cpp:50` (`supervisor_early_enter`): SIGUSR1 for a worker that
   still builds its hosts kills it, and nobody starts another one.

Met while reading, and not among the runs:

- `logic/base.cpp:154` says "this method should be atomic!": it is an `insert`
  and a `$push`. `RegistryAgrees` names the workers in between.
- `logic/base.cpp:117` tests `valid_until < time_now`: two workers that took the
  time in one tick both finish the session, and both start a new one.
- `host/modules/logic/users.cpp:47` hands a request back unchanged. Below a
  hierarchy, which took a section off, that ends (`RewrittenOnRetry`); as a host
  of its own it would loop for ever.
- `logic/registration.cpp:26` bounds the refs by `session_id_create_attempts`;
  `user_ref_create_attempts` is read from the configuration and used nowhere.
- `templatizer/modules/debug_chunk.cpp:40` hands out buffers of temporaries, the
  exception `BuffersOwned` names.
- `system_/process.cpp:14` looks for errno values in the result of `kill()`.
- `host/modules/logic/user.cpp:121` has the key `"type:"` for `"type"`; names of
  headers are compared with case; `system_/utils.cpp` does not close
  its pipe when it reads nothing from it.

## 6. Not modelled

- Logger, JSON helpers, time formatting, `logic/message.cpp` (used by nobody) and
  the accessors of `global_instance`: no state that another part reads.
- The regular expressions of the parser, of the validators and of the templatizer:
  what they match is data of a line, a path or a template.
- How a path is made canonical, the external utility that tells mime types, and
  the parsing of the file host's configuration: data of Responses.
- The texts of pages, the fields of JSON answers, password hashes, the random
  choice of a server name: no decision depends on them.
- The order in which two connections of one browser deliver their cookies: outside
  the server.
- A limit of `responses_queue_` and timeouts of reads and writes: the code has
  none, so there is nothing to check.

## 7. Running

    tlc -workers 2 -config MCConnection.cfg MCConnection
    tlc -workers 2 -config MCUserSessions.cfg MCUserSessions
    tlc -workers 2 -config MCUserSessionsProgress.cfg MCUserSessions
    tlc -workers 2 -config MCUserSessionsRestart.cfg MCUserSessions    # violated
    tlc -workers 2 -config MCRouting.cfg MCRouting
    tlc -workers 2 -config MCRoutingNoDefault.cfg MCRouting            # violated
    tlc -workers 2 -config MCSupervisor.cfg MCSupervisor
    tlc -workers 2 -config MCSupervisorEarlyEnter.cfg MCSupervisor     # violated
    tlc -workers 2 -config MCFriends.cfg MCFriends
    tlc -workers 2 -config MCFriendsRemove.cfg MCFriends               # violated
    tlc -workers 2 -config MCResponses.cfg MCResponses
    tlc -workers 2 -config MCRequestParser.cfg MCRequestParser

and `tlapm` on each of ConnectionProofs, ConnectionPipelineProofs,
UserSessionsProofs, SupervisorProofs, FriendsProofs, RequestParserProofs,
RoutingProofs and ResponsesProofs.
