------------------------------- MODULE Friends -------------------------------
(***************************************************************************)
(* The users collection and the hosts that work on it: registration,       *)
(* login, logout, add_friend, remove_friend, user and users (logic/ below  *)
(* host/modules/logic/), run by several worker processes on one MongoDB.   *)
(* A worker is sequential; every database operation is a step of its own,  *)
(* and a worker may die between two of them.                               *)
(*                                                                         *)
(* MongoDB is external: an operation on one document is atomic, both $push *)
(* (or $pop) of an update are applied, and $pop of a value that is no      *)
(* number removes the last element (in servers of the driver's time; later *)
(* ones refuse it).  The session documents are those of UserSessions: here *)
(* are what logic::base writes to the users, and what a cookie leads to.   *)
(***************************************************************************)
EXTENDS Integers, Sequences, FiniteSets

CONSTANTS
    Workers,         \* worker processes
    Users,           \* ids of user documents: what OID::gen may return
    Emails, Refs,    \* e-mail addresses, and what generate_user_ref may return
    Attempts,        \* session_id_create_attempts, which bounds the refs too
    MaxFriends,      \* max_friends of a user page
    MaxChanges,      \* bound: accepted requests for add_friend and remove_friend
    MaxCrashes       \* bound: workers that die

ASSUME FriendsAssumption ==
    /\ {Attempts, MaxChanges, MaxCrashes} \subseteq Nat
    /\ MaxFriends \in Nat \ {0}
    /\ IsFiniteSet(Workers)

VARIABLES
    users,   \* the users collection, by _id
    pc,      \* per worker: what it does next
    job,     \* per worker: its request, with the local variables
    dead,    \* the workers that crashed: nothing restarts them
    popped,  \* history: some $pop was executed
    changes  \* accepted requests for add_friend and remove_friend so far

vars == <<users, pc, job, dead, popped, changes>>

Nobody == "nobody"
NoRef  == "no_ref"   \* an empty ref, or one of no user
NoDoc  == [ref |-> NoRef]
\* sessions: whether there is any.  last_visit_at: whether it was set since the
\* user was registered.
DocType == [email : Emails, ref : Refs, friends : Seq(Users),
            friend_of : Seq(Users), incoming_friends : Seq(Users),
            sessions : BOOLEAN, last_visit_at : BOOLEAN]
Registered  == {u \in Users : users[u] # NoDoc}
WithRef(r)   == {u \in Registered : users[u].ref = r}
WithEmail(e) == {u \in Registered : users[u].email = e}

\* The cookie "sid", by what continue_session finds: a session that goes on, one
\* that has to be restarted, or none that is valid.
Valid    == "valid"
Due      == "due"
NotFound == "session_not_found"
NoCookie == "no_cookie"
Cookies  == {Valid, Due, NotFound, NoCookie}
\* Whose session it may be.
Holders(s) == IF s \in {Valid, Due} THEN {u \in Registered : users[u].sessions} ELSE {Nobody}
Methods  == {"GET", "POST"}  \* the hosts take HEAD for GET
Paths    == {"ok", "malformed", "other"}
\* The section a path begins with.
RefsIn(p) == IF p = "ok" THEN Refs \cup {NoRef} ELSE {NoRef}
Forms    == {"ok", "wrong_password", "incomplete"}

Ops     == {"register", "login", "logout", "add", "remove", "user", "users"}
Replies == {"none", "soft_redirect", "redirect", "bad_request", "not_logged_in",
            "already_logged_in", "ok", "unknown_error", "duplicate_user_found",
            "incorrect_logpass"}
Steps   == {"idle", "ref", "insert", "start", "session", "visit", "finish", "friend",
            "own", "read", "draw", "look", "list", "reply"}

\* user: the current user, or the one to be registered.  found: the account or
\* friend the database returned.  left: attempts.  list, sample: the friends of
\* a page and the indexes drawn.
NoJob == [op |-> "login", method |-> "POST", user |-> Nobody, email |-> Nobody,
          form |-> "ok", ref |-> NoRef, left |-> 0, found |-> Nobody,
          list |-> <<>>, sample |-> <<>>, reply |-> "none"]
JobType == [op : Ops, method : Methods, user : Users \cup {Nobody},
            email : Emails \cup {Nobody}, form : Forms, ref : Refs \cup {NoRef},
            left : Int, found : Users \cup {Nobody}, list : Seq(Users),
            sample : Seq(Nat \ {0}), reply : Replies]

At(w, step)   == w \notin dead /\ pc[w] = step
Goto(w, step) == pc' = [pc EXCEPT ![w] = step]
\* Only a registration's locals matter once the answer is made.
Answer(w, j, reply) ==
    /\ Goto(w, "reply")
    /\ job' = [job EXCEPT ![w] =
           IF j.op = "register" /\ reply = "ok"
           THEN [j EXCEPT !.left = 0, !.reply = reply]
           ELSE [NoJob EXCEPT !.reply = reply]]

-----------------------------------------------------------------------------
(* The hosts: what each refuses before its logic runs.  decode_uri_args     *)
(* never refuses a form (RequestParser).                                    *)

\* The first check that strikes decides.
FirstOf(checks) ==
    LET hits == {i \in DOMAIN checks : checks[i][1]}
    IN  IF hits = {} THEN "none"
        ELSE checks[CHOOSE i \in hits : \A k \in hits : i <= k][2]

login_refuses(method, sid, form) == FirstOf(
    <<<<method # "POST", "soft_redirect">>, <<sid # NoCookie, "already_logged_in">>,
      <<form = "incomplete", "unknown_error">>>>)

registration_refuses(method, sid) ==
    IF method # "POST" \/ sid # NoCookie THEN "redirect" ELSE "none"

\* Mutant of add_friend_refuses: any method will do.
add_friend_refuses_any_method(method, sid, path) == FirstOf(
    <<<<sid = NoCookie, "not_logged_in">>, <<path # "ok", "bad_request">>,
      <<sid = NotFound, "unknown_error">>>>)

add_friend_refuses(method, sid, path) == FirstOf(
    <<<<method # "POST", "bad_request">>, <<sid = NoCookie, "not_logged_in">>,
      <<path # "ok", "bad_request">>, <<sid = NotFound, "unknown_error">>>>)

remove_friend_refuses(method, sid, path) == FirstOf(
    <<<<method # "POST", "bad_request">>, <<sid = NoCookie, "not_logged_in">>,
      <<path # "ok", "bad_request">>, <<sid = NotFound, "unknown_error">>>>)

user_refuses(method, sid, path, json) == FirstOf(
    <<<<path = "malformed", IF json THEN "bad_request" ELSE "redirect">>,
      <<~json, "soft_redirect">>, <<method = "POST", "bad_request">>,
      <<sid = NoCookie, "not_logged_in">>, <<path = "other", "redirect">>,
      <<sid = NotFound, "redirect">>>>)

users_refuses(method, sid, json) == FirstOf(
    <<<<~json, "soft_redirect">>, <<method = "POST", "bad_request">>,
      <<sid = NoCookie, "not_logged_in">>, <<sid = NotFound, "unknown_error">>>>)

logout_refuses(method, sid) == FirstOf(
    <<<<method # "POST", "soft_redirect">>, <<sid = NoCookie, "not_logged_in">>,
      <<sid = NotFound, "unknown_error">>>>)

\* The first update of logic::base for a session.
Continue(s) == IF s = Due THEN "finish" ELSE "visit"

\* The request of a user who has a session.
SessionJob(op, m, u, r) == [NoJob EXCEPT !.op = op, !.method = m, !.user = u, !.ref = r]

\* A worker takes request j: it is refused, or goes on with its first step.
Take(w, j, refusal, step) ==
    /\ At(w, "idle")
    /\ IF refusal # "none" THEN Answer(w, [NoJob EXCEPT !.op = j.op], refusal)
       ELSE Goto(w, step) /\ job' = [job EXCEPT ![w] = j]
    /\ UNCHANGED <<users, dead, popped>>

\* The id of a user to be registered is new.
Fresh(u) == u \notin Registered /\ \A w \in Workers :
               pc[w] \in {"ref", "insert"} /\ w \notin dead => job[w].user # u

Register(w) == \E m \in Methods, s \in Cookies, f \in Forms, e \in Emails, u \in Users :
    /\ Fresh(u) /\ f # "wrong_password"
    /\ Take(w, [NoJob EXCEPT !.op = "register", !.method = m, !.user = u, !.email = e,
                             !.form = f, !.left = Attempts],
            registration_refuses(m, s), "ref")
    /\ UNCHANGED changes

Login(w) == \E m \in Methods, s \in Cookies, f \in Forms, e \in Emails :
    /\ Take(w, [NoJob EXCEPT !.method = m, !.email = e, !.form = f],
            login_refuses(m, s, f), "start")
    /\ UNCHANGED changes

Logout(w) == \E m \in Methods, s \in Cookies : \E u \in Holders(s) :
    /\ Take(w, SessionJob("logout", m, u, NoRef),
            logout_refuses(m, s), "finish")
    /\ UNCHANGED changes

AddFriend(w) == \E m \in Methods, s \in Cookies, p \in Paths :
    /\ changes < MaxChanges
    /\ \E u \in Holders(s), r \in RefsIn(p) :
          Take(w, SessionJob("add", m, u, r),
               add_friend_refuses(m, s, p), Continue(s))
    /\ changes' = changes + (IF pc'[w] = "visit" THEN 1 ELSE 0)

RemoveFriend(w) == \E m \in Methods, s \in Cookies, p \in Paths :
    /\ changes < MaxChanges
    /\ \E u \in Holders(s), r \in RefsIn(p) :
          Take(w, SessionJob("remove", m, u, r),
               remove_friend_refuses(m, s, p), Continue(s))
    /\ changes' = changes + (IF pc'[w] = "visit" THEN 1 ELSE 0)

\* NoRef: the page of the current user.
UserPage(w) == \E m \in Methods, s \in Cookies, p \in Paths, json \in BOOLEAN :
    /\ \E u \in Holders(s), r \in RefsIn(p) :
          Take(w, SessionJob("user", m, u, r),
               user_refuses(m, s, p, json), Continue(s))
    /\ UNCHANGED changes

ListUsers(w) == \E m \in Methods, s \in Cookies, json \in BOOLEAN :
    /\ \E u \in Holders(s) :
          Take(w, SessionJob("users", m, u, NoRef),
               users_refuses(m, s, json), Continue(s))
    /\ UNCHANGED changes

-----------------------------------------------------------------------------
(* logic::base: what it writes to the users *)

\* continue_session, the session is valid: the time of the visit.  The logic of the
\* host goes on.
VisitUser(w) ==
    /\ At(w, "visit")
    /\ users' = [users EXCEPT ![job[w].user].last_visit_at = TRUE]
    /\ Goto(w, [add |-> "friend", remove |-> "friend", user |-> "read", users |-> "list"]
                   [job[w].op])
    /\ UNCHANGED <<job, dead, popped, changes>>

\* finish_session, of a logout or of a restart, unless another worker finished the
\* session since it was found: $pull and the time of the visit.
FinishSession(w) ==
    /\ At(w, "finish")
    /\ \/ /\ Answer(w, job[w], IF job[w].op = "user" THEN "redirect" ELSE "unknown_error")
          /\ UNCHANGED users
       \/ \E left \in {users[job[w].user].sessions, FALSE} :
             /\ users' = [users EXCEPT ![job[w].user].sessions = left,
                                       ![job[w].user].last_visit_at = TRUE]
             /\ IF job[w].op = "logout" THEN Answer(w, job[w], "ok")
                ELSE Goto(w, "session")
                     /\ job' = [job EXCEPT ![w].found = job[w].user, ![w].ref = NoRef]
    /\ UNCHANGED <<dead, popped, changes>>

\* start_session_for_obj_without_password_check: $push and the time of the visit,
\* unless the ids run out.  After a restart the hosts get a ref, of which mongo::OID
\* makes no id; only users does not look at it.
RegisterSession(w) ==
    /\ At(w, "session")
    /\ \/ Answer(w, job[w], "unknown_error") /\ UNCHANGED users
       \/ /\ users' = [users EXCEPT ![job[w].found].sessions = TRUE,
                                    ![job[w].found].last_visit_at = TRUE]
          /\ IF job[w].op = "users" THEN Goto(w, "list") /\ UNCHANGED job
             ELSE Answer(w, job[w], IF job[w].op \in {"register", "login"} THEN "ok"
                                                                        ELSE "unknown_error")
    /\ UNCHANGED <<dead, popped, changes>>

-----------------------------------------------------------------------------
(* logic::registration and logic::login *)

\* Mutant of DrawRef: whether the loop found a free ref is not looked at.
DrawRef_unchecked(w) ==
    /\ At(w, "ref")
    /\ \E r \in Refs :
          LET left == job[w].left - 1 IN
          \/ /\ WithRef(r) = {}
             /\ job' = [job EXCEPT ![w].ref = r, ![w].left = left]
             /\ Goto(w, "insert")
          \/ /\ WithRef(r) # {}
             /\ job' = [job EXCEPT ![w].left = left]
             /\ Goto(w, IF left > 0 THEN "ref" ELSE "insert")
    /\ UNCHANGED <<users, dead, popped, changes>>

\* The loop: draw a ref and look for a user who has it.
DrawRef(w) ==
    /\ At(w, "ref")
    /\ \E r \in Refs :
          LET left == job[w].left - 1 IN
          \/ /\ WithRef(r) = {}
             /\ job' = [job EXCEPT ![w].ref = r, ![w].left = left]
             /\ Goto(w, "insert")
          \/ /\ WithRef(r) # {} /\ left > 0
             /\ job' = [job EXCEPT ![w].left = left]
             /\ Goto(w, "ref")
          \/ /\ WithRef(r) # {} /\ left <= 0
             /\ Answer(w, job[w], "unknown_error")
    /\ UNCHANGED <<users, dead, popped, changes>>

Document(j) == [email |-> j.email, ref |-> j.ref, friends |-> <<>>, friend_of |-> <<>>,
                incoming_friends |-> <<>>, sessions |-> FALSE, last_visit_at |-> FALSE]
\* The unique indexes of users.
Insertable(j) == WithEmail(j.email) = {} /\ WithRef(j.ref) = {}

\* Mutant of Insert: the exception is only logged.
Insert_logs(w) ==
    /\ At(w, "insert")
    /\ \/ /\ job[w].form = "incomplete"
          /\ Answer(w, job[w], "unknown_error") /\ UNCHANGED users
       \/ /\ job[w].form = "ok"
          /\ users' = IF Insertable(job[w])
                      THEN [users EXCEPT ![job[w].user] = Document(job[w])] ELSE users
          /\ Goto(w, "start") /\ UNCHANGED job
    /\ UNCHANGED <<dead, popped, changes>>

\* The form is read, and the document inserted: the unique indexes decide.
Insert(w) ==
    /\ At(w, "insert")
    /\ \/ /\ job[w].form = "incomplete"
          /\ Answer(w, job[w], "unknown_error") /\ UNCHANGED users
       \/ /\ job[w].form = "ok" /\ Insertable(job[w])
          /\ users' = [users EXCEPT ![job[w].user] = Document(job[w])]
          /\ Goto(w, "start") /\ UNCHANGED job
       \/ /\ job[w].form = "ok" /\ ~Insertable(job[w])
          /\ Answer(w, job[w], "duplicate_user_found") /\ UNCHANGED users
    /\ UNCHANGED <<dead, popped, changes>>

\* start_session_for_email: the account and its password.
StartSession(w) ==
    /\ At(w, "start")
    /\ \/ \E u \in WithEmail(job[w].email) :
             /\ job[w].form # "wrong_password"
             /\ job' = [job EXCEPT ![w].found = u]
             /\ Goto(w, "session")
       \/ /\ WithEmail(job[w].email) = {} \/ job[w].form = "wrong_password"
          /\ Answer(w, job[w], IF job[w].op = "login" THEN "incorrect_logpass"
                                                     ELSE "unknown_error")
    /\ UNCHANGED <<users, dead, popped, changes>>

-----------------------------------------------------------------------------
(* logic::add_friend and logic::remove_friend: the friend's document, then  *)
(* the own one.                                                             *)

Pop(s) == IF s = <<>> THEN s ELSE SubSeq(s, 1, Len(s) - 1)

\* MongoDB: $push of u, or what it makes of $pop of u.
Changed(op, s, u) == IF op = "add" THEN Append(s, u) ELSE Pop(s)

UpdateFriend(w) ==
    /\ At(w, "friend")
    /\ \/ \E f \in WithRef(job[w].ref) :
             /\ users' = [users EXCEPT
                   ![f].friend_of        = Changed(job[w].op, @, job[w].user),
                   ![f].incoming_friends = Changed(job[w].op, @, job[w].user)]
             /\ job' = [job EXCEPT ![w].found = f]
             /\ Goto(w, "own")
             /\ popped' = (popped \/ job[w].op = "remove")
       \/ /\ WithRef(job[w].ref) = {}
          /\ Answer(w, job[w], "unknown_error")
          /\ UNCHANGED <<users, popped>>
    /\ UNCHANGED <<dead, changes>>

\* Mutant of UpdateSelf: the friend's id is not the one that was found.
UpdateSelf_own_id(w) ==
    /\ At(w, "own")
    /\ users' = [users EXCEPT ![job[w].user].friends = Changed(job[w].op, @, job[w].user),
                              ![job[w].user].last_visit_at = TRUE]
    /\ Answer(w, job[w], "ok")
    /\ UNCHANGED <<dead, popped, changes>>

UpdateSelf(w) ==
    /\ At(w, "own")
    /\ users' = [users EXCEPT ![job[w].user].friends = Changed(job[w].op, @, job[w].found),
                              ![job[w].user].last_visit_at = TRUE]
    /\ Answer(w, job[w], "ok")
    /\ UNCHANGED <<dead, popped, changes>>

add_friend_(w)    == job[w].op = "add" /\ (UpdateFriend(w) \/ UpdateSelf(w))
remove_friend_(w) == job[w].op = "remove" /\ (UpdateFriend(w) \/ UpdateSelf(w))

-----------------------------------------------------------------------------
(* logic::user and logic::users *)

ReadUser(w) ==
    /\ At(w, "read")
    /\ LET found == IF job[w].ref = NoRef THEN {job[w].user} \cap Registered
                    ELSE WithRef(job[w].ref) IN
       \/ /\ found = {}
          /\ Answer(w, job[w], "unknown_error")
       \/ \E u \in found :
             \/ users[u].friends = <<>> /\ Answer(w, job[w], "ok")
             \/ /\ users[u].friends # <<>>
                /\ job' = [job EXCEPT ![w].list = users[u].friends, ![w].ref = NoRef]
                /\ Goto(w, "draw")
    /\ UNCHANGED <<users, dead, popped, changes>>

\* Mutant of SampleSize: all friends are drawn.
SampleSize_all(friends) == Len(friends)

SampleSize(friends) == IF Len(friends) < MaxFriends THEN Len(friends) ELSE MaxFriends

\* An index that was drawn before is drawn again: such a step changes nothing.
DrawIndexes(w) ==
    /\ At(w, "draw")
    /\ \E i \in DOMAIN job[w].list :
          /\ \A k \in DOMAIN job[w].sample : job[w].sample[k] # i
          /\ job' = [job EXCEPT ![w].sample = Append(@, i)]
          /\ Goto(w, IF Len(job[w].sample) + 1 = SampleSize(job[w].list) THEN "look" ELSE "draw")
    /\ UNCHANGED <<users, dead, popped, changes>>

\* add_info_for_friend: one findOne for each index.
LookFriend(w) ==
    /\ At(w, "look")
    /\ LET friend == job[w].list[Head(job[w].sample)] IN
       \/ friend \notin Registered /\ Answer(w, job[w], "unknown_error")
       \/ /\ friend \in Registered /\ Len(job[w].sample) = 1
          /\ Answer(w, job[w], "ok")
       \/ /\ friend \in Registered /\ Len(job[w].sample) > 1
          /\ job' = [job EXCEPT ![w].sample = Tail(@)]
          /\ UNCHANGED pc
    /\ UNCHANGED <<users, dead, popped, changes>>

\* list_users: one query.
ReadUsers(w) ==
    /\ At(w, "list")
    /\ Answer(w, job[w], "ok")
    /\ UNCHANGED <<users, dead, popped, changes>>

-----------------------------------------------------------------------------
Respond(w) ==
    /\ At(w, "reply")
    /\ Goto(w, "idle")
    /\ job' = [job EXCEPT ![w] = NoJob]
    /\ UNCHANGED <<users, dead, popped, changes>>

\* The worker that dies leaves what it did so far; that it was between the two
\* halves of a friendship is remembered.
Crash(w) ==
    /\ w \notin dead /\ pc[w] # "idle" /\ Cardinality(dead) < MaxCrashes
    /\ dead' = dead \cup {w}
    /\ IF pc[w] = "own" THEN UNCHANGED <<pc, job>>
       ELSE Goto(w, "idle") /\ job' = [job EXCEPT ![w] = NoJob]
    /\ UNCHANGED <<users, popped, changes>>

Init ==
    /\ users = [u \in Users |-> NoDoc]
    /\ pc = [w \in Workers |-> "idle"]
    /\ job = [w \in Workers |-> NoJob]
    /\ dead = {} /\ popped = FALSE
    /\ changes = 0

Begin(w) == \/ Register(w) \/ Login(w) \/ Logout(w) \/ AddFriend(w) \/ RemoveFriend(w)
            \/ UserPage(w) \/ ListUsers(w)
Work(w)  == \/ DrawRef(w) \/ Insert(w) \/ StartSession(w)
            \/ VisitUser(w) \/ FinishSession(w) \/ RegisterSession(w)
            \/ add_friend_(w) \/ remove_friend_(w) \/ ReadUser(w) \/ DrawIndexes(w) \/ LookFriend(w)
            \/ ReadUsers(w) \/ Respond(w)

Next == \E w \in Workers : Begin(w) \/ Work(w) \/ Crash(w)

Spec == Init /\ [][Next]_vars

-----------------------------------------------------------------------------
(* Properties *)

Occurrences(s, x) == Cardinality({i \in DOMAIN s : s[i] = x})

\* Types, and what a step of a worker may rely on.
TypeOK ==
    /\ users \in [Users -> DocType \cup {NoDoc}]
    /\ pc \in [Workers -> Steps]
    /\ job \in [Workers -> JobType]
    /\ dead \subseteq Workers /\ popped \in BOOLEAN
    /\ changes \in 0..MaxChanges

\* Who is told "ok" by a registration has the account he asked for, not that of
\* another who registered the e-mail or the ref between the query and the insert.
RegisteredOwns ==
    \A w \in Workers :
        pc[w] = "reply" /\ job[w].op = "register" /\ job[w].reply = "ok" =>
            /\ job[w].found = job[w].user
            /\ users[job[w].user].ref = job[w].ref

\* A friendship is kept in two documents.  Until something is removed they differ
\* by nothing but the add_friend of u that has done its first half: those under
\* way, and those of a worker that died there.
HalvesAgree ==
    popped \/ \A u, v \in Registered :
        Occurrences(users[v].friend_of, u) =
            Occurrences(users[u].friends, v)
          + Cardinality({w \in Workers : pc[w] = "own" /\ job[w].user = u /\ job[w].found = v})

\* A request with GET (or HEAD) registers nobody and leaves every account and every
\* friendship as it is, whatever its session makes the worker write: that is the
\* requester's own document, the time of his visit and, only while his session is
\* restarted, his sessions.
OnlyPostWrites ==
    [][\A u \in Users : users'[u] # users[u] => \E w \in Workers :
          /\ pc'[w] # pc[w]
          /\ \/ job[w].method = "POST"
             \/ /\ u \in Registered /\ job[w].user = u
                /\ \E s \in BOOLEAN :
                      /\ users'[u] = [users[u] EXCEPT !.sessions = s, !.last_visit_at = TRUE]
                      /\ s # users[u].sessions => pc[w] \in {"finish", "session"}]_vars

\* The loop that draws unique random indexes stays within its array, and there is
\* always an index left to draw, however few or many friends there are.
DrawsEnd ==
    \A w \in Workers : pc[w] = "draw" =>
        /\ Len(job[w].sample) < MaxFriends
        /\ \E i \in DOMAIN job[w].list : \A k \in DOMAIN job[w].sample : job[w].sample[k] # i

\* Violated.  remove_friend.cpp:31 says "Update friend of set": taken from the
\* set is who removes his friend, and nobody else.
RemovesOnlyHim ==
    [][\A u, v \in Registered :
          Occurrences(users'[v].friend_of, u) < Occurrences(users[v].friend_of, u) =>
              \E w \in Workers : job[w].op = "remove" /\ job[w].user = u]_vars
=============================================================================
