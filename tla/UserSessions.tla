---------------------------- MODULE UserSessions ----------------------------
(***************************************************************************)
(* User sessions: logic::base (logic/base.cpp) run by several worker       *)
(* processes on one MongoDB.  A worker is sequential, but every database   *)
(* operation and every reading of the clock is a step of its own: other    *)
(* workers, the clock and a crash come in between.                         *)
(*                                                                         *)
(* MongoDB is external: an operation on one document is atomic, and the    *)
(* unique index on session_id (mongo/prepare.sh) refuses a duplicate.      *)
(* Expired session documents are never removed by the code.                *)
(***************************************************************************)
EXTENDS Naturals, FiniteSets

CONSTANTS
    Workers,      \* worker processes
    Users,        \* registered users
    SessionIds,   \* what generate_session_id may return
    UnknownId,    \* a cookie of no session
    Lifetime,     \* session_lifetime, in clock ticks (milliseconds)
    RestartAfter, \* session_restart_after
    Attempts,     \* session_id_create_attempts
    MaxTime,      \* bound: the clock stops there
    MaxCrashes    \* bound: workers that die

ASSUME UserSessionsAssumption ==
    /\ UnknownId \notin SessionIds
    /\ {Lifetime, RestartAfter, MaxTime, MaxCrashes} \subseteq Nat
    /\ Attempts \in Nat \ {0}

VARIABLES
    now,         \* the system clock, common to the workers of a host
    sessions,    \* the sessions collection, by session_id
    registered,  \* the "sessions" array of each user document
    pc,          \* what the worker does next
    job,         \* the request it works on, with its local variables
    dead,        \* the workers that crashed: nothing restarts them
    issued,      \* how often a session id was handed to a client
    loggedOut,   \* sessions whose holder was told that they are finished
    finished     \* sessions that a finish_session found valid

history == <<issued, loggedOut, finished>>
vars == <<now, sessions, registered, pc, job, dead, history>>

Nobody  == "nobody"
NoDoc   == [user |-> Nobody]
DocType == [user : Users, valid_until : Nat, restart_at : Nat]
Ids     == SessionIds \cup {UnknownId}
Doc(s)  == IF s \in SessionIds THEN sessions[s] ELSE NoDoc

Ops     == {"login", "continue", "logout"}
Replies == {"none", "user_id", "user_ref", "finished", "session_not_found",
            "cant_start_session", "operation_exception", "refused"}
Steps   == {"idle", "find", "check", "finish_time", "finish", "pull",
            "generate", "insert", "push", "reply"}

\* late: the client already knew the session to be finished when it asked.
Jobs == [op : Ops, sid : Ids, late : BOOLEAN, user : Users \cup {Nobody},
         doc : DocType \cup {NoDoc}, time : Nat, new : Ids,
         attempts : Nat, reply : Replies]

NewJob(op, user, sid, late) ==
    [op |-> op, sid |-> sid, late |-> late, user |-> user,
     doc |-> NoDoc, time |-> 0, new |-> UnknownId, attempts |-> 0,
     reply |-> "none"]
NoJob == NewJob("login", Nobody, UnknownId, FALSE)

Running(w, step) == w \notin dead /\ pc[w] = step
Goto(w, step)    == pc' = [pc EXCEPT ![w] = step]
\* The locals of the job that are used no more are dropped.
Reply(w, r)      == /\ Goto(w, "reply")
                    /\ job' = [job EXCEPT ![w] = [@ EXCEPT !.reply = r, !.doc = NoDoc,
                                        !.time = 0, !.attempts = 0]]

-----------------------------------------------------------------------------
(* Requests *)

Request(w, op, sid, step) ==
    /\ Running(w, "idle")
    /\ Goto(w, step)
    /\ job' = [job EXCEPT ![w] = NewJob(op, Nobody, sid, sid \in loggedOut)]
    /\ UNCHANGED <<now, sessions, registered, dead, history>>

\* start_session_for_email: the user is found and the password matches ...
Login(w, u) ==
    /\ Running(w, "idle")
    /\ job' = [job EXCEPT ![w] = [NewJob("login", u, UnknownId, FALSE)
                                     EXCEPT !.attempts = Attempts]]
    /\ Goto(w, "generate")
    /\ UNCHANGED <<now, sessions, registered, dead, history>>

\* ... or not.
RefuseLogin(w) ==
    /\ Running(w, "idle")
    /\ Reply(w, "refused")
    /\ UNCHANGED <<now, sessions, registered, dead, history>>

\* A cookie a client may present: of a session it got, or of none.
Cookies == {s \in SessionIds : issued[s] > 0} \cup {UnknownId}

Continue(w, s) == s \in Cookies /\ Request(w, "continue", s, "find")
Logout(w, s)   == s \in Cookies /\ Request(w, "logout", s, "finish_time")

-----------------------------------------------------------------------------
(* logic::base, one database operation or clock reading at a time *)

\* continue_session: findOne.
FindSession(w) ==
    /\ Running(w, "find")
    /\ Goto(w, "check")
    /\ job' = [job EXCEPT ![w].doc = Doc(job[w].sid)]
    /\ UNCHANGED <<now, sessions, registered, dead, history>>

\* Mutant of StillValid: a session is valid in the tick that ends it.
StillValid_to_the_end(doc) == doc # NoDoc /\ now <= doc.valid_until

\* continue_session: valid while time_now < valid_until.
StillValid(doc) == doc # NoDoc /\ now < doc.valid_until

\* continue_session: the clock against the document it read.  A session that
\* need not be restarted is returned with the user id (and last_visit_at set);
\* restart_session reads the user, whom nothing removes, and finishes the old
\* session first.
CheckSession(w) ==
    LET doc == job[w].doc
    IN  /\ Running(w, "check")
        /\ \/ ~StillValid(doc) /\ Reply(w, "session_not_found")
           \/ StillValid(doc) /\ now < doc.restart_at /\ Reply(w, "user_id")
           \/ /\ StillValid(doc) /\ now >= doc.restart_at
              /\ Goto(w, "finish_time")
              /\ job' = [job EXCEPT ![w].doc = NoDoc]
        /\ UNCHANGED <<now, sessions, registered, dead, history>>

\* finish_session: utc_time().
FinishTime(w) ==
    /\ Running(w, "finish_time")
    /\ Goto(w, "finish")
    /\ job' = [job EXCEPT ![w].time = now]
    /\ UNCHANGED <<now, sessions, registered, dead, history>>

\* Mutant of Earlier: $set in place of $min.
Earlier_set(a, b) == b

\* The operator $min.
Earlier(a, b) == IF a < b THEN a ELSE b

\* finish_session: findAndModify with $min, returning the old document.
FinishSession(w) ==
    LET s   == job[w].sid
        t   == job[w].time
        old == Doc(s)
    IN  /\ Running(w, "finish")
        /\ sessions' = IF old = NoDoc THEN sessions
                       ELSE [sessions EXCEPT ![s].valid_until = Earlier(@, t)]
        /\ IF old = NoDoc \/ old.valid_until < t
           THEN /\ Reply(w, "session_not_found")
                /\ UNCHANGED finished
           ELSE /\ Goto(w, "pull")
                /\ job' = [job EXCEPT ![w].user = old.user, ![w].time = 0]
                /\ finished' = finished \cup {s}
        /\ UNCHANGED <<now, registered, dead, issued, loggedOut>>

\* Mutant of Unregister: restart_session does not take the old session out.
Unregister_on_logout_only(w) ==
    /\ Running(w, "pull")
    /\ IF job[w].op = "logout"
       THEN /\ registered' = [registered EXCEPT ![job[w].user] = @ \ {job[w].sid}]
            /\ Reply(w, "finished")
       ELSE /\ Goto(w, "generate")
            /\ job' = [job EXCEPT ![w].attempts = Attempts]
            /\ UNCHANGED registered
    /\ UNCHANGED <<now, sessions, dead, history>>

\* finish_session: $pull from the user's sessions.  restart_session goes on to
\* start a new session.
Unregister(w) ==
    /\ Running(w, "pull")
    /\ registered' = [registered EXCEPT ![job[w].user] = @ \ {job[w].sid}]
    /\ IF job[w].op = "logout"
       THEN Reply(w, "finished")
       ELSE /\ Goto(w, "generate")
            /\ job' = [job EXCEPT ![w].attempts = Attempts]
    /\ UNCHANGED <<now, sessions, dead, history>>

\* Mutant of GenerateId: the counter is not looked at, and runs below 0.
GenerateId_uncounted(w, id) ==
    /\ Running(w, "generate")
    /\ \/ /\ sessions[id] = NoDoc
          /\ Goto(w, "insert")
          /\ job' = [job EXCEPT ![w].new = id, ![w].time = now, ![w].attempts = 0]
       \/ /\ sessions[id] # NoDoc
          /\ job' = [job EXCEPT ![w].attempts = @ - 1]
          /\ UNCHANGED pc
    /\ UNCHANGED <<now, sessions, registered, dead, history>>

\* Mutant of GenerateId: draws again for as long as it takes.
GenerateId_for_ever(w, id) ==
    /\ Running(w, "generate")
    /\ IF sessions[id] = NoDoc
       THEN /\ Goto(w, "insert")
            /\ job' = [job EXCEPT ![w].new = id, ![w].time = now, ![w].attempts = 0]
       ELSE UNCHANGED <<pc, job>>
    /\ UNCHANGED <<now, sessions, registered, dead, history>>

\* start_session_for_obj_without_password_check: a random id, retried while
\* findOne finds it taken; then utc_time().
GenerateId(w, id) ==
    LET left == job[w].attempts - 1
    IN  /\ Running(w, "generate")
        /\ \/ /\ sessions[id] = NoDoc
              /\ Goto(w, "insert")
              /\ job' = [job EXCEPT ![w].new = id, ![w].time = now,
                                    ![w].attempts = 0]
           \/ /\ sessions[id] # NoDoc /\ left > 0
              /\ job' = [job EXCEPT ![w].attempts = left]
              /\ UNCHANGED pc
           \/ /\ sessions[id] # NoDoc /\ left = 0
              /\ Reply(w, "cant_start_session")
        /\ UNCHANGED <<now, sessions, registered, dead, history>>

NewDoc(w) == [user |-> job[w].user, valid_until |-> job[w].time + Lifetime,
              restart_at |-> job[w].time + RestartAfter]

\* Mutant of InsertSession: there is no unique index to refuse the insert.
InsertSession_no_index(w) ==
    /\ Running(w, "insert")
    /\ sessions' = [sessions EXCEPT ![job[w].new] = NewDoc(w)]
    /\ Goto(w, "push")
    /\ job' = [job EXCEPT ![w].time = 0]
    /\ UNCHANGED <<now, registered, dead, history>>

\* insert: the unique index refuses an id that was taken meanwhile.
InsertSession(w) ==
    LET id == job[w].new
    IN  /\ Running(w, "insert")
        /\ \/ /\ sessions[id] = NoDoc
              /\ sessions' = [sessions EXCEPT ![id] = NewDoc(w)]
              /\ Goto(w, "push")
              /\ job' = [job EXCEPT ![w].time = 0]
           \/ /\ sessions[id] # NoDoc
              /\ Reply(w, "operation_exception")
              /\ UNCHANGED sessions
        /\ UNCHANGED <<now, registered, dead, history>>

\* $push to the user's sessions; the pair that is returned starts with the ref.
Register(w) ==
    /\ Running(w, "push")
    /\ registered' = [registered EXCEPT ![job[w].user] = @ \cup {job[w].new}]
    /\ Reply(w, "user_ref")
    /\ UNCHANGED <<now, sessions, dead, history>>

\* The host layer answers: a new session's cookie goes to the client.
Respond(w) ==
    /\ Running(w, "reply")
    /\ Goto(w, "idle")
    /\ issued' = IF job[w].reply = "user_ref"
                 THEN [issued EXCEPT ![job[w].new] = @ + 1] ELSE issued
    /\ loggedOut' = IF job[w].reply = "finished"
                    THEN loggedOut \cup {job[w].sid} ELSE loggedOut
    /\ job' = [job EXCEPT ![w] = NoJob]
    /\ UNCHANGED <<now, sessions, registered, dead, finished>>

-----------------------------------------------------------------------------
(* The environment *)

Tick == /\ now < MaxTime
        /\ now' = now + 1
        /\ UNCHANGED <<sessions, registered, pc, job, dead, history>>

\* A worker dies in the middle of its request.
Crash(w) == /\ w \notin dead /\ Cardinality(dead) < MaxCrashes
            /\ dead' = dead \cup {w}
            /\ UNCHANGED <<now, sessions, registered, pc, job, history>>

Init ==
    /\ now = 0
    /\ sessions = [s \in SessionIds |-> NoDoc]
    /\ registered = [u \in Users |-> {}]
    /\ pc = [w \in Workers |-> "idle"]
    /\ job = [w \in Workers |-> NoJob]
    /\ dead = {}
    /\ issued = [s \in SessionIds |-> 0]
    /\ loggedOut = {}
    /\ finished = {}

\* Everything a worker does on its own.
Step(w) == \/ FindSession(w) \/ CheckSession(w)
           \/ FinishTime(w) \/ FinishSession(w) \/ Unregister(w)
           \/ \E id \in SessionIds : GenerateId(w, id)
           \/ InsertSession(w) \/ Register(w) \/ Respond(w)

Next == \/ \E w \in Workers :
             \/ \E u \in Users : Login(w, u)
             \/ RefuseLogin(w)
             \/ \E s \in Ids : Continue(w, s) \/ Logout(w, s)
             \/ Step(w) \/ Crash(w)
        \/ Tick

\* A worker that runs goes on: MongoDB answers every operation.
Fairness == \A w \in Workers : WF_vars(Step(w))

Spec == Init /\ [][Next]_vars /\ Fairness

-----------------------------------------------------------------------------
(* Properties *)

\* Every variable holds what the code stores in it.
TypeOK ==
    /\ now \in 0..MaxTime
    /\ sessions \in [SessionIds -> DocType \cup {NoDoc}]
    /\ registered \in [Users -> SUBSET SessionIds]
    /\ pc \in [Workers -> Steps]
    /\ job \in [Workers -> Jobs]
    /\ dead \subseteq Workers
    /\ issued \in [SessionIds -> Nat]
    /\ loggedOut \subseteq SessionIds
    /\ finished \subseteq SessionIds

\* A session id is never handed out twice: not to two users, nor to two logins
\* of one, although every worker draws ids and looks them up on its own.
OneHolder == \A s \in SessionIds : issued[s] <= 1

\* Once a client was told that its session is finished, no later request with
\* that session is served or renewed, even within the same tick of the clock.
LoggedOutIsOut ==
    \A w \in Workers :
        Running(w, "reply") /\ job[w].op = "continue" /\ job[w].late
            => job[w].reply = "session_not_found"

\* The user document lists exactly the sessions that were not finished, save
\* those at which a worker, running or dead, stands between the two operations
\* that start or finish a session.
Between(s) == \E w \in Workers : \/ pc[w] = "push" /\ job[w].new = s
                                 \/ pc[w] = "pull" /\ job[w].sid = s
RegistryAgrees ==
    \A s \in SessionIds :
        sessions[s] # NoDoc /\ ~Between(s) =>
            (s \in registered[sessions[s].user] <=> s \notin finished)

\* No operation of any worker, however late, lengthens a session.
NeverLengthened ==
    [][\A s \in SessionIds :
          sessions[s] # NoDoc => /\ sessions'[s] # NoDoc
                                 /\ sessions'[s].user = sessions[s].user
                                 /\ sessions'[s].valid_until <= sessions[s].valid_until]_vars

\* Every request a worker took is answered, unless the worker dies.
Answered == \A w \in Workers : pc[w] # "idle" ~> pc[w] = "idle" \/ w \in dead

\* base.h: continue_session "returns pair of user id and session cookie".
ContinueReturnsUserId ==
    \A w \in Workers : Running(w, "reply") /\ job[w].op = "continue"
                       => job[w].reply # "user_ref"
=============================================================================
