----------------------------- MODULE Responses -----------------------------
(***************************************************************************)
(* The responses of one worker and the bytes they are made of.  A file     *)
(* host (server::host::file with files_and_template_pages) resolves a path, *)
(* maps the file once, keeps it in a file_cache until clear_cache, and     *)
(* answers with buffers into the mapping; the logic hosts answer with      *)
(* static or cached strings.  A response waits in the session's queue      *)
(* while clear_cache may come, and the disk may change at any time, also   *)
(* between the tests of one request: canonical(), exists(), is_directory(), *)
(* is_empty() and the opening and mapping of a file are a step each.       *)
(*                                                                         *)
(* The file system and the generator of page models are external.          *)
(***************************************************************************)
EXTENDS Templates, FiniteSets

CONSTANTS
    Paths,           \* paths below the root that are requested
    NoPath,
    IndexFile,       \* "default_index_file": what it names, or NoPath
    Deny,            \* "deny_regexes": the paths each matches
    Allow,           \* "allow_regexes"
    AllowMode,       \* "allow_match_mode"
    DefaultBehavior, \* "default_behavior"
    ChangeBehavior,  \* "change_behavior_regex": the paths it matches
    Contents,        \* what a file may hold: sequences of template items
    Models,          \* page models: functions from names to lengths
    ServerName,      \* whether the worker has a name
    MaxQueue,        \* bound: responses under way
    MaxWrites,       \* bound: what is on the disk at first, and its changes
    MaxClears        \* bound: signals to clear the caches

ASSUME ResponsesAssumption ==
    /\ NoPath \notin Paths /\ IndexFile \in Paths \cup {NoPath}
    /\ AllowMode \in {"any", "all"} /\ DefaultBehavior \in {"files", "template_pages"}
    /\ {MaxQueue, MaxClears} \subseteq Nat /\ MaxWrites \in Nat \ {0}
    /\ \A src \in Contents : IsTemplate(src)
    /\ \A model \in Models : \A name \in DOMAIN model : model[name] \in Nat
    /\ ServerName \in BOOLEAN

VARIABLES
    disk,    \* per path: what is there
    cache,   \* per handler and path: the object it keeps, or NoObject
    queue,   \* the responses under way
    request, \* the request being handled
    pc,      \* how far
    writes,  \* changes of the disk so far; a new file has a new inode
    clears,  \* clear_cache calls so far
    changed, \* history: which files were changed in place, by path and inode
    floor    \* history: per path, the oldest inode a new response may show

vars == <<disk, cache, queue, request, pc, writes, clears, changed, floor>>

Methods  == {"GET", "HEAD", "POST"}
Handlers == {"files_only", "template_pages_only"}
\* What a path leads to: nothing, as an entry or a directory before it is missing;
\* nothing, as a part before the last is no directory; a part that may not be
\* searched; too many links or too long a name; a directory; a file that may not be
\* read; a file.
Kinds    == {"absent", "no_parent", "denied", "broken", "directory", "unreadable", "file"}
Missing  == {"absent", "no_parent"}
Failing  == {"denied", "broken"}
Statuses == {"ok", "see_other", "forbidden", "not_found", "internal_server_error"}
NoContent == <<>>

Entry(kind, inode, content) == [kind |-> kind, inode |-> inode, content |-> content]
\* A mapped file or page with its mime type.  One path is mapped at most once
\* between two clears, so the pair is its identity.
NoObject == [inode |-> 0, epoch |-> 0, mime |-> FALSE, content |-> NoContent, chunks |-> <<>>]
Object(inode, mime, content, chunks) ==
    [inode |-> inode, epoch |-> clears, mime |-> mime, content |-> content, chunks |-> chunks]
NoModel == [x \in {} |-> 0]
\* found: the inode of what is_empty() is true of.  seen: what the path has been meanwhile.
NoRequest == [method |-> "GET", path |-> NoPath, asked |-> NoPath, seen |-> {}, found |-> 0]
Seen(entry) == IF entry.kind = "file" /\ entry.content = NoContent THEN "empty" ELSE entry.kind

-----------------------------------------------------------------------------
(* protocol::http::response *)

\* The buffer of the headers shows which version of the string it was made of.
HeadersBuffer(v) == Buffer("headers", <<"headers", NoText, v>>, 1)

\* The constructor: one buffer, for the headers.
Response(status, method, path) ==
    [status |-> status, method |-> method, path |-> path, headers |-> 1, length |-> 0,
     buffers |-> <<HeadersBuffer(1)>>, holds |-> NoObject, model |-> NoModel,
     \* history: what the body shows, which object it was made of, and ...
     what |-> "nothing", of |-> NoObject,
     \* ... what the host was asked for and found.
     asked |-> path, floor |-> 0, seen |-> {}]

\* The string grows and may move: the buffer is made again.
add_header(r) == [r EXCEPT !.headers = @ + 1, !.buffers[1] = HeadersBuffer(r.headers + 1)]

add_body(r, buffer) == [r EXCEPT !.buffers = Append(@, buffer)]
content_length(r, n) == [add_header(r) EXCEPT !.length = n]
reset_cookie(r)      == add_header(r)
add_server_name(r)   == IF ServerName THEN add_header(r) ELSE r
Typed(r, typed)      == IF typed THEN add_header(r) ELSE r

-----------------------------------------------------------------------------
(* host::base *)

BodyBuffer(owner, len) == Buffer(owner, <<"body", NoText, 0>>, len)
BodyLength == 3

\* need_cache: the string is copied into the response, or else it is static.
response_with_body(status, method, path, need_cache) ==
    LET r == content_length(Typed(add_server_name(Response(status, method, path)), TRUE),
                            BodyLength)
        s == [r EXCEPT !.what = "body"]
    IN  IF method = "HEAD" THEN s
        ELSE add_body(s, BodyBuffer(IF need_cache THEN "strings" ELSE "static", BodyLength))

phony_response(status, method, path) == response_with_body(status, method, path, TRUE)
handle_error(status, method, path)   == phony_response(status, method, path)

redirect_response(method, path) ==
    content_length(add_header(add_server_name(Response("see_other", method, path))), 0)

-----------------------------------------------------------------------------
(* The responses of the file handlers *)

\* Mutant of Hold: only the cache owns the object.
Hold_nothing(r, object) == r

\* The shared_ptr the response keeps.
Hold(r, object) == [r EXCEPT !.holds = object]

files_only_response(method, path, object) ==
    LET size == Length(object.content)
        r == content_length(Typed(add_server_name(Hold(Response("ok", method, path), object)),
                                  object.mime), size)
        s == [r EXCEPT !.what = "file", !.of = object]
    IN  IF method = "HEAD" THEN s
        ELSE add_body(s, Buffer("object", <<"raw", NoText, 0>>, size))

\* Mutant of WithoutBody: the body of a page stays for HEAD.
WithoutBody_kept(r) == r

\* HEAD: all buffers but the first are removed again.
WithoutBody(r) == IF r.method = "HEAD" THEN [r EXCEPT !.buffers = SubSeq(@, 1, 1)] ELSE r

template_page_response(method, path, object, model) ==
    LET r == add_server_name(Hold(Response("ok", method, path), object))
        body == GeneratePage(object.chunks, model)
        s == content_length(Typed([r EXCEPT !.buffers = @ \o body], object.mime), Length(body))
    IN  WithoutBody([s EXCEPT !.what = "page", !.of = object, !.model = model])

-----------------------------------------------------------------------------
(* The file host *)

IsTemplatePage(path) == (DefaultBehavior = "template_pages") # (path \in ChangeBehavior)
\* Mutant of HandlerOf: dispatched by the default alone.
HandlerOf_default(path) ==
    IF DefaultBehavior = "template_pages" THEN "template_pages_only" ELSE "files_only"

HandlerOf(path) == IF IsTemplatePage(path) THEN "template_pages_only" ELSE "files_only"

validate_method(method) == method \in {"GET", "HEAD"}

\* No deny regex matches, and any, or all, of the allow regexes do.
validate_path(path) ==
    /\ \A regex \in Deny : path \notin regex
    /\ Allow # {}
    /\ IF AllowMode = "any" THEN \E regex \in Allow : path \in regex
                            ELSE \A regex \in Allow : path \in regex

\* A response joins the queue; the handler of the request is done.
Answer(r) ==
    /\ queue' = Append(queue, [r EXCEPT !.floor = IF r.path = NoPath THEN 0 ELSE floor[r.path], !.seen = request.seen,
                                     !.asked = request.asked])
    /\ request' = NoRequest /\ pc' = "idle"
    /\ UNCHANGED <<disk, writes, clears, changed, floor>>
Refuse(status) == Answer(handle_error(status, request.method, request.path)) /\ UNCHANGED cache
GoOn(next) == pc' = next /\ UNCHANGED <<disk, cache, queue, request, writes, clears, changed, floor>>

\* Mutant of FilesystemError: every error of the file system is an unknown one.
FilesystemError_unknown(kind) == Refuse("internal_server_error")

\* The catch clause of filesystem_error, by the error of a path of that kind: ENOENT,
\* EACCES, or ENOTDIR, ELOOP and ENAMETOOLONG.
FilesystemError(kind) ==
    Refuse(CASE kind = "absent" -> "not_found"
             [] kind = "denied" -> "forbidden"
             [] kind \in {"no_parent", "broken"} -> "internal_server_error")

Request(method, path) ==
    /\ pc = "idle" /\ Len(queue) < MaxQueue
    /\ request' = [NoRequest EXCEPT !.method = method, !.path = path,
                                    !.asked = path, !.seen = {Seen(disk[path])}]
    /\ pc' = "resolve"
    /\ UNCHANGED <<disk, cache, queue, writes, clears, changed, floor>>

\* canonical() has one error for all that does not exist.
Canonical(next) ==
    LET kind == disk[request.path].kind IN
    \/ kind \in Missing /\ FilesystemError("absent")
    \/ kind \in Failing /\ FilesystemError(kind)
    \/ kind \notin Missing \cup Failing /\ GoOn(next)

\* The validators, and canonical() of the path asked for.
Resolve ==
    /\ pc = "resolve"
    /\ \/ /\ ~validate_method(request.method) \/ ~validate_path(request.path)
          /\ Refuse("forbidden")
       \/ /\ validate_method(request.method) /\ validate_path(request.path)
          /\ Canonical("test")

\* is_directory(): false of what is missing.
Test ==
    /\ pc = "test"
    /\ LET kind == disk[request.path].kind IN
       \/ kind \in Failing /\ FilesystemError(kind)
       \/ kind = "directory" /\ IndexFile = NoPath /\ Refuse("forbidden")
       \/ /\ kind = "directory" /\ IndexFile # NoPath
          /\ request' = [request EXCEPT !.path = IndexFile, !.seen = @ \cup {Seen(disk[IndexFile])}]
          /\ pc' = "index"
          /\ UNCHANGED <<disk, cache, queue, writes, clears, changed, floor>>
       \/ kind \notin Failing \cup {"directory"} /\ GoOn("handle")

\* canonical() of the index file.
ResolveIndex == pc = "index" /\ Canonical("test_index")

\* is_directory() of the index file.
TestIndex ==
    /\ pc = "test_index"
    /\ LET kind == disk[request.path].kind IN
       \/ kind \in Failing /\ FilesystemError(kind)
       \/ kind = "directory" /\ Refuse("forbidden")
       \/ kind \notin Failing \cup {"directory"} /\ GoOn("handle")

Cached == cache[HandlerOf(request.path)][request.path]

\* A plain file is answered with; a page is generated from what model the logic
\* gives, and fails when it lacks a variable.
AnswerWith(object) ==
    \/ /\ ~IsTemplatePage(request.path)
       /\ Answer(files_only_response(request.method, request.path, object))
    \/ /\ IsTemplatePage(request.path)
       /\ \E model \in Models :
             Answer(IF \A i \in DOMAIN object.chunks : Generates(object.chunks[i], model)
                    THEN template_page_response(request.method, request.path, object, model)
                    ELSE phony_response("internal_server_error", request.method, request.path))

\* Mutant of Fails: whatever happened, the file has gone.
Fails_not_found(cause) == Refuse("not_found")

\* The statuses of a failed mapping.  The handler of pages takes the exceptions
\* of mapped_file, which no class of its own derives from, for unknown ones.
Fails(cause) ==
    Refuse(CASE IsTemplatePage(request.path) -> "internal_server_error"
             [] ~IsTemplatePage(request.path) /\ cause = "gone" -> "not_found"
             [] ~IsTemplatePage(request.path) /\ cause = "is_directory" -> "internal_server_error"
             [] ~IsTemplatePage(request.path) /\ cause = "interprocess" -> "forbidden")

\* file_cache::at: an object that is cached, or exists() of mapped_file.
Handle ==
    /\ pc = "handle"
    /\ LET kind == disk[request.path].kind IN
       \/ Cached # NoObject /\ AnswerWith(Cached) /\ UNCHANGED cache
       \/ Cached = NoObject /\ kind \in Missing /\ Fails("gone")
       \/ Cached = NoObject /\ kind \in Failing /\ FilesystemError(kind)
       \/ Cached = NoObject /\ kind \notin Missing \cup Failing /\ GoOn("test_file")

\* is_directory() of mapped_file.
TestFile ==
    /\ pc = "test_file"
    /\ LET kind == disk[request.path].kind IN
       \/ kind \in Failing /\ FilesystemError(kind)
       \/ kind = "directory" /\ Fails("is_directory")
       \/ kind \notin Failing \cup {"directory"} /\ GoOn("measure")

\* is_empty() of mapped_file, which also knows empty directories.
Measure ==
    /\ pc = "measure"
    /\ LET entry == disk[request.path] IN
       \/ entry.kind \in Missing \cup Failing /\ FilesystemError(entry.kind)
       \/ /\ entry.kind \in {"directory", "unreadable", "file"} /\ entry.content = NoContent
          /\ request' = [request EXCEPT !.found = entry.inode]
          /\ pc' = "map"
          /\ UNCHANGED <<disk, cache, queue, writes, clears, changed, floor>>
       \/ /\ entry.kind = "directory" \/ (entry.kind \in {"unreadable", "file"} /\ entry.content # NoContent)
          /\ GoOn("map")

\* The mime type may be unknown.
load_file(inode, mime, content) == Object(inode, mime, content, <<>>)
load_page(inode, mime, content) == Object(inode, mime, content, Load(content).chunks)

\* Mutant of Keep: an index file is not kept, as it was not asked for.
Keep_asked(object) ==
    cache' = [cache EXCEPT ![HandlerOf(request.path)][request.path] =
                 IF request.asked = request.path THEN object ELSE @]

\* The cache keeps an object under the path it was mapped by.
Keep(object) == cache' = [cache EXCEPT ![HandlerOf(request.path)][request.path] = object]

\* The rest of mapped_file, open and mmap, and for a page, load().  What was empty is
\* not opened.  What fails is not cached.
Map ==
    /\ pc = "map"
    /\ LET entry == disk[request.path]
           empty == request.found > 0
           content == IF empty THEN NoContent ELSE entry.content
       IN
       \/ ~empty /\ entry.kind = "absent" /\ Fails("gone")
       \/ /\ ~empty /\ entry.kind # "absent"
          /\ entry.kind # "file" \/ entry.content = NoContent
          /\ Fails("interprocess")
       \/ /\ empty \/ (entry.kind = "file" /\ entry.content # NoContent)
          /\ IF IsTemplatePage(request.path) /\ Load(content).state # "ok"
             THEN Refuse("internal_server_error")
             ELSE \E mime \in BOOLEAN :
                     LET inode  == IF empty THEN request.found ELSE entry.inode
                         object == IF IsTemplatePage(request.path)
                                   THEN load_page(inode, mime, content)
                                   ELSE load_file(inode, mime, content)
                     IN  Keep(object) /\ AnswerWith(object)

-----------------------------------------------------------------------------
\* A logic host answers: with JSON, or redirects.  login.cpp, user.cpp, ...
LogicAnswer(method) ==
    /\ pc = "idle" /\ Len(queue) < MaxQueue
    /\ \/ \E need_cache \in BOOLEAN : Answer(response_with_body("ok", method, NoPath, need_cache))
       \/ Answer(redirect_response(method, NoPath))
       \/ Answer(reset_cookie(response_with_body("ok", method, NoPath, TRUE)))
    /\ UNCHANGED cache

\* async_write is done with the response.
Sent ==
    /\ pc = "idle" /\ queue # <<>>
    /\ queue' = Tail(queue)
    /\ UNCHANGED <<disk, cache, request, pc, writes, clears, changed, floor>>

\* Mutant of ClearHandlers: files_and_template_pages clears one of its bases.
ClearHandlers_files_only ==
    cache' = [cache EXCEPT !["files_only"] = [p \in Paths |-> NoObject]]

ClearHandlers == cache' = [h \in Handlers |-> [p \in Paths |-> NoObject]]

\* file::clear_cache.
clear_cache ==
    /\ pc = "idle" /\ clears < MaxClears
    /\ ClearHandlers
    /\ clears' = clears + 1
    /\ floor' = [p \in Paths |-> IF disk[p].kind = "absent" THEN writes ELSE disk[p].inode]
    /\ UNCHANGED <<disk, queue, request, pc, writes, changed>>

\* A denied path is never looked at: what becomes of it makes no difference.
LookedAt == {p \in Paths : validate_path(p) \/ p = IndexFile}

\* The disk has a new entry; a request that is under way may meet it.
Put(path, entry) ==
    /\ writes < MaxWrites /\ writes' = writes + 1
    /\ disk' = [disk EXCEPT ![path] = entry]
    /\ request' = IF path = request.path
                  THEN [request EXCEPT !.seen = @ \cup {Seen(entry)}] ELSE request
    /\ UNCHANGED <<cache, queue, pc, clears, floor>>

\* A path is removed, or gets a new file, a directory, another mode, ...
Write(path) ==
    /\ \E kind \in Kinds, content \in Contents :
          /\ kind \notin {"unreadable", "file"} => content = NoContent
          /\ kind # "file" => kind # disk[path].kind
          /\ Put(path, Entry(kind, writes + 1, content))
    /\ UNCHANGED changed

\* A file is written to, below the mappings there may be: they are MAP_SHARED.  It
\* is not cut shorter (which would take the pages of a mapping away).
Overwrite(path) ==
    /\ disk[path].kind = "file"
    /\ \E content \in Contents :
          /\ Length(content) >= Length(disk[path].content) /\ content # disk[path].content
          /\ Put(path, Entry("file", disk[path].inode, content))
    /\ changed' = changed \cup {<<path, disk[path].inode>>}

Init ==
    /\ \E c \in Contents : disk = [p \in Paths |-> Entry("file", 1, c)]
    /\ cache = [h \in Handlers |-> [p \in Paths |-> NoObject]]
    /\ queue = <<>> /\ request = NoRequest /\ pc = "idle"
    /\ writes = 1 /\ clears = 0 /\ changed = {}
    /\ floor = [p \in Paths |-> 1]

Next ==
    \/ \E m \in Methods : LogicAnswer(m) \/ \E p \in Paths : Request(m, p)
    \/ Resolve \/ Test \/ ResolveIndex \/ TestIndex
    \/ Handle \/ TestFile \/ Measure \/ Map
    \/ Sent \/ clear_cache
    \/ \E p \in LookedAt : Write(p) \/ Overwrite(p)

Spec == Init /\ [][Next]_vars

-----------------------------------------------------------------------------
(* Properties *)

Responding == {queue[i] : i \in DOMAIN queue}
Live(object) == \/ \E h \in Handlers, p \in Paths : cache[h][p] = object
                \/ \E r \in Responding : r.holds = object

\* Types; the files_only cache has no pages, and the other one no plain files.
TypeOK ==
    /\ disk \in [Paths -> [kind : Kinds, inode : 1..MaxWrites, content : Contents]]
    /\ \A h \in Handlers, p \in Paths :
          cache[h][p] # NoObject => /\ (h = "template_pages_only") = IsTemplatePage(p)
                                    /\ cache[h][p].inode \in 1..writes
    /\ Len(queue) <= MaxQueue
    /\ \A r \in Responding : r.status \in Statuses /\ r.method \in Methods
    /\ pc \in {"idle", "resolve", "test", "index", "test_index", "handle", "test_file", "measure", "map"}
    /\ request.path \in Paths \cup {NoPath} /\ (pc = "idle") = (request = NoRequest)
    /\ writes \in 1..MaxWrites /\ clears \in 0..MaxClears

\* Every buffer that waits to be written points at bytes that live: the headers'
\* as they are now, a mapping somebody still holds although the caches may have
\* been cleared, or what the response keeps.  The debug command is the exception:
\* three of its five buffers point at strings that died in generate().
BuffersOwned ==
    \A r \in Responding : \A k \in DOMAIN r.buffers : LET b == r.buffers[k] IN
        /\ b.owner = "headers" => k = 1 /\ b.shows[3] = r.headers
        /\ b.owner = "object" => Live(r.of)
        /\ b.owner = "model" => b.shows[2] \in DOMAIN r.model
        /\ b.owner = "temporary" => b.shows[1] = "debug"

\* Content-Length is the number of bytes of the body, the body is the file, the
\* page as its template asks, or the string; HEAD has the same length and no body.
\* What the body shows is said of files nobody writes to in place: of others the
\* mapping shows the new bytes in the length of the old, and a page, which was cut
\* up before, new text between its old commands.
ExpectedBody(r) ==
    CASE r.what = "nothing" -> <<>>
      [] r.what = "body" -> <<[shows |-> <<"body", NoText, 0>>, len |-> BodyLength]>>
      [] r.what = "file" -> Visible(<<[shows |-> <<"raw", NoText, 0>>, len |-> Length(r.of.content)]>>)
      [] r.what = "page" -> Rendered(r.of.content, r.model)
BodyTrue ==
    \A r \in Responding : LET body == Visible(Tail(r.buffers)) IN
        /\ r.length = Length(ExpectedBody(r))
        /\ r.method = "HEAD" => Len(r.buffers) = 1
        /\ r.method # "HEAD" => Length(body) = r.length
        /\ r.method # "HEAD" /\ <<r.path, r.of.inode>> \notin changed => Bare(body) = ExpectedBody(r)

\* A response that is made after the caches were cleared shows no file older than
\* what was on the disk when they were.
FreshAfterClear ==
    \A r \in Responding : r.of # NoObject => r.of.inode >= r.floor

\* Until a clear, all requests for a path show the same mapping, however often the
\* file is replaced or removed: what a response shows that was mapped since the last
\* clear is what the cache of its path still keeps, also for an index file.
SameUntilClear ==
    \A r \in Responding :
        r.of # NoObject /\ r.of.epoch = clears => cache[HandlerOf(r.path)][r.path] = r.of

\* An error tells the truth, however the disk changed while the host was at it: 404
\* only for what was not there at some moment; 403 only for what is denied, for a
\* directory, or for what could not be opened or mapped as a file; and a plain file
\* is an internal error only if its path was too long or ran in circles, led through
\* a file, or through a directory that took its place.  (A page may always be: its
\* handler does not tell the causes apart.)
StatusTrue ==
    \A r \in Responding :
        /\ r.status = "not_found" => r.seen \cap Missing # {}
        /\ r.status = "forbidden" =>
              \/ ~validate_method(r.method) \/ ~validate_path(r.asked)
              \/ r.seen \cap {"denied", "directory", "unreadable", "empty", "no_parent", "broken"} # {}
        /\ r.status = "internal_server_error" =>
              IsTemplatePage(r.path) \/ r.seen \cap {"directory", "no_parent", "broken"} # {}
=============================================================================
