------------------------- MODULE UserSessionsProofs -------------------------
(***************************************************************************)
(* Proofs about UserSessions, for any number of workers, users and session *)
(* ids, any lifetimes, and any number of crashes.                          *)
(***************************************************************************)
EXTENDS UserSessions, TLAPS

-----------------------------------------------------------------------------
(* The inductive invariant *)

\* What a worker may rely on in each step.
JobInv ==
    \A w \in Workers :
        /\ pc[w] \in {"generate", "insert", "push", "pull"} => job[w].user \in Users
        /\ pc[w] \in {"insert", "push"} => job[w].new \in SessionIds
        /\ pc[w] = "pull" => job[w].sid \in SessionIds
        /\ pc[w] = "reply" /\ job[w].reply = "user_ref" => job[w].new \in SessionIds
        /\ pc[w] = "reply" /\ job[w].reply = "finished" =>
              job[w].sid \in SessionIds /\ job[w].op = "logout"
        /\ pc[w] = "finish" => job[w].time <= now
        /\ job[w].sid \in SessionIds => issued[job[w].sid] > 0
        /\ pc[w] \notin {"idle", "reply"} => job[w].reply = "none"
        /\ pc[w] = "idle" => job[w] = NoJob

\* The worker has inserted session s, and its client has not got it yet.
Holds(w, s) == /\ job[w].new = s
               /\ pc[w] = "push" \/ (pc[w] = "reply" /\ job[w].reply = "user_ref")

\* A session id has one holder: a worker before it is handed out, a client after.
HolderInv ==
    \A s \in SessionIds :
        /\ issued[s] > 0 => sessions[s] # NoDoc /\ issued[s] = 1
        /\ \A w \in Workers : Holds(w, s) => sessions[s] # NoDoc /\ issued[s] = 0
        /\ \A w, v \in Workers : Holds(w, s) /\ Holds(v, s) => w = v

\* Between the two operations of a start or a finish a worker has the right user,
\* and what is finished was handed out.
RegistryInv ==
    /\ \A s \in finished : issued[s] > 0
    /\ \A w \in Workers :
          /\ pc[w] = "push" => job[w].user = sessions[job[w].new].user
          /\ pc[w] = "pull" => /\ job[w].user = sessions[job[w].sid].user
                               /\ job[w].sid \in finished
    /\ RegistryAgrees

\* A finished session has ended by the clock, and who asks for it late finds it so.
Ended(doc) == doc # NoDoc => doc.valid_until <= now
OutInv ==
    /\ \A s \in loggedOut : sessions[s] # NoDoc /\ Ended(sessions[s])
    /\ \A w \in Workers :
          /\ pc[w] = "pull" \/ (pc[w] = "reply" /\ job[w].reply = "finished") =>
                sessions[job[w].sid] # NoDoc /\ Ended(sessions[job[w].sid])
          /\ job[w].late => job[w].sid \in loggedOut
          /\ job[w].late /\ job[w].op = "continue" =>
                /\ pc[w] \in {"idle", "find", "check", "reply"}
                /\ pc[w] = "check" => Ended(job[w].doc)
                /\ pc[w] = "reply" => job[w].reply = "session_not_found"

IInv == TypeOK /\ JobInv /\ HolderInv /\ RegistryInv /\ OutInv

-----------------------------------------------------------------------------
(* Documents *)

\* A session document is told from none.
LEMMA DocIsNotNone == NoDoc \notin DocType
BY DEF NoDoc, DocType

\* A new valid_until leaves a document a document.
LEMMA DocUpdated ==
    ASSUME NEW d \in DocType, NEW t \in Nat
    PROVE  /\ [d EXCEPT !.valid_until = t] \in DocType
           /\ [d EXCEPT !.valid_until = t] # NoDoc
           /\ [d EXCEPT !.valid_until = t].user = d.user
           /\ [d EXCEPT !.valid_until = t].valid_until = t
<1>1. [d EXCEPT !.valid_until = t] \in DocType
  BY DEF DocType
<1> QED BY <1>1, DocIsNotNone DEF DocType

\* $min of two numbers is one that exceeds neither.
LEMMA EarlierOf ==
    ASSUME NEW a \in Nat, NEW b \in Nat
    PROVE  Earlier(a, b) \in Nat /\ Earlier(a, b) <= a /\ Earlier(a, b) <= b
BY DEF Earlier

\* A job begins with its request.
LEMMA NewJobType ==
    ASSUME NEW op \in Ops, NEW user \in Users \cup {Nobody}, NEW sid \in Ids,
           NEW late \in BOOLEAN
    PROVE  NewJob(op, user, sid, late) \in Jobs
BY DEF NewJob, Jobs, Ids, Replies

\* And ends with its reply.
LEMMA AnsweredJob ==
    ASSUME NEW j \in Jobs, NEW r \in Replies
    PROVE  [j EXCEPT !.reply = r, !.doc = NoDoc, !.time = 0, !.attempts = 0] \in Jobs
BY DEF Jobs

-----------------------------------------------------------------------------
(* The steps *)

\* A request begins: a client knows the sessions it was handed out.
LEMMA RequestStep ==
    ASSUME IInv, NEW w \in Workers, NEW op \in {"continue", "logout"}, NEW sid \in Cookies,
           NEW step \in {"find", "finish_time"}, op = "continue" => step = "find",
           Request(w, op, sid, step)
    PROVE  IInv'
<1> DEFINE new == NewJob(op, Nobody, sid, sid \in loggedOut)
<1>1. /\ pc' = [pc EXCEPT ![w] = step] /\ job' = [job EXCEPT ![w] = new]
      /\ UNCHANGED <<now, sessions, registered, dead, issued, loggedOut, finished>>
      /\ pc[w] = "idle" /\ sid \in Ids /\ (sid \in SessionIds => issued[sid] > 0)
  BY UserSessionsAssumption DEF Request, Running, Goto, history, Cookies, Ids
<1>2. new \in Jobs
  BY <1>1 DEF NewJob, Jobs, Ids, Ops, Replies
<1>3. /\ new.sid = sid /\ new.op = op /\ new.late = (sid \in loggedOut)
      /\ new.reply = "none" /\ new.new = UnknownId
  BY DEF NewJob
<1> HIDE DEF new
<1>4. TypeOK'
  BY <1>1, <1>2, <1>3 DEF IInv, TypeOK, Steps
<1>5. JobInv'
  BY <1>1, <1>2, <1>3 DEF IInv, TypeOK, JobInv
<1>6. HolderInv'
  BY <1>1, <1>2, <1>3 DEF IInv, TypeOK, HolderInv, Holds
<1>7. RegistryInv'
  BY <1>1, <1>2, <1>3 DEF IInv, TypeOK, RegistryInv, RegistryAgrees, Between
<1>8. OutInv'
  BY <1>1, <1>2, <1>3 DEF IInv, TypeOK, OutInv, Ended
<1> QED BY <1>4, <1>5, <1>6, <1>7, <1>8 DEF IInv

\* A login begins with a user.
LEMMA LoginStep ==
    ASSUME IInv, NEW w \in Workers, NEW u \in Users, Login(w, u)
    PROVE  IInv'
<1> DEFINE new == [NewJob("login", u, UnknownId, FALSE) EXCEPT !.attempts = Attempts]
<1>1. /\ pc' = [pc EXCEPT ![w] = "generate"] /\ job' = [job EXCEPT ![w] = new]
      /\ UNCHANGED <<now, sessions, registered, dead, issued, loggedOut, finished>>
      /\ pc[w] = "idle"
  BY DEF Login, Running, Goto, history
<1>2. new \in Jobs
  BY UserSessionsAssumption DEF NewJob, Jobs, Ids, Ops, Replies
<1>3. /\ new.sid = UnknownId /\ new.user = u /\ new.late = FALSE
      /\ new.reply = "none" /\ UnknownId \notin SessionIds
  BY UserSessionsAssumption DEF NewJob
<1> HIDE DEF new
<1>4. TypeOK'
  BY <1>1, <1>2, <1>3 DEF IInv, TypeOK, Steps
<1>5. JobInv'
  BY <1>1, <1>2, <1>3 DEF IInv, TypeOK, JobInv
<1>6. HolderInv'
  BY <1>1, <1>2, <1>3 DEF IInv, TypeOK, HolderInv, Holds
<1>7. RegistryInv'
  BY <1>1, <1>2, <1>3 DEF IInv, TypeOK, RegistryInv, RegistryAgrees, Between
<1>8. OutInv'
  BY <1>1, <1>2, <1>3 DEF IInv, TypeOK, OutInv, Ended
<1> QED BY <1>4, <1>5, <1>6, <1>7, <1>8 DEF IInv

\* A login is refused.
LEMMA RefuseLoginStep ==
    ASSUME IInv, NEW w \in Workers, RefuseLogin(w)
    PROVE  IInv'
<1> DEFINE new == [job[w] EXCEPT !.reply = "refused", !.doc = NoDoc, !.time = 0, !.attempts = 0]
<1>1. /\ pc' = [pc EXCEPT ![w] = "reply"] /\ job' = [job EXCEPT ![w] = new]
      /\ UNCHANGED <<now, sessions, registered, dead, issued, loggedOut, finished>>
      /\ pc[w] = "idle"
  BY DEF RefuseLogin, Running, Reply, Goto, history
<1>2. new \in Jobs
  <2>1. job[w] \in Jobs /\ "refused" \in Replies
    BY DEF IInv, TypeOK, Replies
  <2> QED BY <2>1, AnsweredJob
<1>3. /\ new.sid = UnknownId /\ ~new.late
      /\ new.reply = "refused" /\ UnknownId \notin SessionIds
  BY <1>1, UserSessionsAssumption DEF IInv, TypeOK, JobInv, NoJob, NewJob, Jobs
<1> HIDE DEF new
<1>4. TypeOK'
  BY <1>1, <1>2, <1>3 DEF IInv, TypeOK, Steps
<1>5. JobInv'
  BY <1>1, <1>2, <1>3 DEF IInv, TypeOK, JobInv
<1>6. HolderInv'
  BY <1>1, <1>2, <1>3 DEF IInv, TypeOK, HolderInv, Holds
<1>7. RegistryInv'
  BY <1>1, <1>2, <1>3 DEF IInv, TypeOK, RegistryInv, RegistryAgrees, Between
<1>8. OutInv'
  BY <1>1, <1>2, <1>3 DEF IInv, TypeOK, OutInv, Ended
<1> QED BY <1>4, <1>5, <1>6, <1>7, <1>8 DEF IInv

\* The document of a session that was finished before shows it.
LEMMA FindSessionStep ==
    ASSUME IInv, NEW w \in Workers, FindSession(w)
    PROVE  IInv'
<1> DEFINE new == [job[w] EXCEPT !.doc = Doc(job[w].sid)]
<1>1. /\ pc' = [pc EXCEPT ![w] = "check"] /\ job' = [job EXCEPT ![w] = new]
      /\ UNCHANGED <<now, sessions, registered, dead, issued, loggedOut, finished>>
      /\ pc[w] = "find"
  BY DEF FindSession, Running, Goto, history
<1>2. new \in Jobs
  BY DEF IInv, TypeOK, Jobs, Doc
<1>3. /\ new.sid = job[w].sid /\ new.op = job[w].op /\ new.late = job[w].late
      /\ new.doc = Doc(job[w].sid) /\ new.reply = "none"
      /\ job[w].late => Ended(Doc(job[w].sid))
  BY <1>1 DEF IInv, TypeOK, JobInv, OutInv, Jobs, Doc, Ended
<1> HIDE DEF new
<1>4. TypeOK'
  BY <1>1, <1>2, <1>3 DEF IInv, TypeOK, Steps
<1>5. JobInv'
  BY <1>1, <1>2, <1>3 DEF IInv, TypeOK, JobInv
<1>6. HolderInv'
  BY <1>1, <1>2, <1>3 DEF IInv, TypeOK, HolderInv, Holds
<1>7. RegistryInv'
  BY <1>1, <1>2, <1>3 DEF IInv, TypeOK, RegistryInv, RegistryAgrees, Between
<1>8. OutInv'
  BY <1>1, <1>2, <1>3 DEF IInv, TypeOK, OutInv, Ended
<1> QED BY <1>4, <1>5, <1>6, <1>7, <1>8 DEF IInv

\* The clock decides: a session that was finished before is not found.
LEMMA CheckSessionStep ==
    ASSUME IInv, NEW w \in Workers, CheckSession(w)
    PROVE  IInv'
<1> PICK r \in {"session_not_found", "user_id", "none"} :
       LET new == IF r = "none" THEN [job[w] EXCEPT !.doc = NoDoc]
                  ELSE [job[w] EXCEPT !.reply = r, !.doc = NoDoc, !.time = 0, !.attempts = 0]
       IN  /\ pc' = [pc EXCEPT ![w] = IF r = "none" THEN "finish_time" ELSE "reply"]
           /\ job' = [job EXCEPT ![w] = new]
           /\ r # "session_not_found" => StillValid(job[w].doc)
  BY DEF CheckSession, Reply, Goto
<1> DEFINE new == IF r = "none" THEN [job[w] EXCEPT !.doc = NoDoc]
                  ELSE [job[w] EXCEPT !.reply = r, !.doc = NoDoc, !.time = 0, !.attempts = 0]
<1>1. /\ pc' = [pc EXCEPT ![w] = IF r = "none" THEN "finish_time" ELSE "reply"]
      /\ job' = [job EXCEPT ![w] = new]
      /\ UNCHANGED <<now, sessions, registered, dead, issued, loggedOut, finished>>
      /\ pc[w] = "check"
  BY DEF CheckSession, Running, history
<1>2. new \in Jobs
  <2>1. job[w] \in Jobs /\ r \in Replies
    BY DEF IInv, TypeOK, Replies
  <2>2. [job[w] EXCEPT !.doc = NoDoc] \in Jobs
    BY <2>1 DEF Jobs
  <2> QED BY <2>1, <2>2, AnsweredJob
<1>3. /\ new.sid = job[w].sid /\ new.op = job[w].op /\ new.late = job[w].late
      /\ new.reply = r
      /\ job[w].late /\ job[w].op = "continue" => r = "session_not_found"
  <2>1. /\ new.sid = job[w].sid /\ new.op = job[w].op /\ new.late = job[w].late
        /\ new.reply = r
    BY <1>1 DEF IInv, TypeOK, JobInv, Jobs
  <2>2. ASSUME Ended(job[w].doc), StillValid(job[w].doc) PROVE FALSE
    <3>1. job[w].doc \in DocType /\ now \in Nat
      BY <2>2, UserSessionsAssumption DEF IInv, TypeOK, Jobs, StillValid
    <3> QED BY <2>2, <3>1 DEF Ended, StillValid, DocType
  <2> QED BY <1>1, <2>1, <2>2 DEF IInv, OutInv
<1> HIDE DEF new
<1>4. TypeOK'
  BY <1>1, <1>2, <1>3 DEF IInv, TypeOK, Steps
<1>5. JobInv'
  BY <1>1, <1>2, <1>3 DEF IInv, TypeOK, JobInv
<1>6. HolderInv'
  BY <1>1, <1>2, <1>3 DEF IInv, TypeOK, HolderInv, Holds
<1>7. RegistryInv'
  BY <1>1, <1>2, <1>3 DEF IInv, TypeOK, RegistryInv, RegistryAgrees, Between
<1>8. OutInv'
  BY <1>1, <1>2, <1>3 DEF IInv, TypeOK, OutInv, Ended
<1> QED BY <1>4, <1>5, <1>6, <1>7, <1>8 DEF IInv

\* A worker that finishes a session takes the time.
LEMMA FinishTimeStep ==
    ASSUME IInv, NEW w \in Workers, FinishTime(w)
    PROVE  IInv'
<1> DEFINE new == [job[w] EXCEPT !.time = now]
<1>1. /\ pc' = [pc EXCEPT ![w] = "finish"] /\ job' = [job EXCEPT ![w] = new]
      /\ UNCHANGED <<now, sessions, registered, dead, issued, loggedOut, finished>>
      /\ pc[w] = "finish_time"
  BY DEF FinishTime, Running, Goto, history
<1>2. new \in Jobs
  BY UserSessionsAssumption DEF IInv, TypeOK, Jobs
<1>3. /\ new.sid = job[w].sid /\ new.op = job[w].op /\ new.late = job[w].late
      /\ new.reply = "none" /\ new.time = now /\ now \in Nat
  BY <1>1, UserSessionsAssumption DEF IInv, TypeOK, JobInv, Jobs
<1> HIDE DEF new
<1>4. TypeOK'
  BY <1>1, <1>2, <1>3 DEF IInv, TypeOK, Steps
<1>5. JobInv'
  BY <1>1, <1>2, <1>3 DEF IInv, TypeOK, JobInv
<1>6. HolderInv'
  BY <1>1, <1>2, <1>3 DEF IInv, TypeOK, HolderInv, Holds
<1>7. RegistryInv'
  BY <1>1, <1>2, <1>3 DEF IInv, TypeOK, RegistryInv, RegistryAgrees, Between
<1>8. OutInv'
  BY <1>1, <1>2, <1>3 DEF IInv, TypeOK, OutInv, Ended
<1> QED BY <1>4, <1>5, <1>6, <1>7, <1>8 DEF IInv

\* A session that is not there cannot be finished.
LEMMA FinishNoneStep ==
    ASSUME IInv, NEW w \in Workers, FinishSession(w), Doc(job[w].sid) = NoDoc
    PROVE  IInv'
<1> DEFINE new == [job[w] EXCEPT !.reply = "session_not_found", !.doc = NoDoc, !.time = 0,
                                 !.attempts = 0]
<1>1. /\ pc' = [pc EXCEPT ![w] = "reply"] /\ job' = [job EXCEPT ![w] = new]
      /\ UNCHANGED <<now, sessions, registered, dead, issued, loggedOut, finished>>
      /\ pc[w] = "finish"
  BY DEF FinishSession, Running, Reply, Goto
<1>2. new \in Jobs
  <2>1. job[w] \in Jobs /\ "session_not_found" \in Replies
    BY DEF IInv, TypeOK, Replies
  <2> QED BY <2>1, AnsweredJob
<1>3. /\ new.sid = job[w].sid /\ new.op = job[w].op /\ new.late = job[w].late
      /\ new.reply = "session_not_found"
  BY DEF IInv, TypeOK, Jobs
<1> HIDE DEF new
<1>4. TypeOK'
  BY <1>1, <1>2, <1>3 DEF IInv, TypeOK, Steps
<1>5. JobInv'
  BY <1>1, <1>2, <1>3 DEF IInv, TypeOK, JobInv
<1>6. HolderInv'
  BY <1>1, <1>2, <1>3 DEF IInv, TypeOK, HolderInv, Holds
<1>7. RegistryInv'
  BY <1>1, <1>2, <1>3 DEF IInv, TypeOK, RegistryInv, RegistryAgrees, Between
<1>8. OutInv'
  BY <1>1, <1>2, <1>3 DEF IInv, TypeOK, OutInv, Ended
<1> QED BY <1>4, <1>5, <1>6, <1>7, <1>8 DEF IInv

\* A session is finished: its document stays, ends by the worker's time, and the
\* client had been given it.
LEMMA FinishSomeStep ==
    ASSUME IInv, NEW w \in Workers, FinishSession(w), Doc(job[w].sid) # NoDoc
    PROVE  IInv'
<1>0. PICK j \in Jobs, s \in SessionIds, old \in DocType, t \in Nat :
          j = job[w] /\ s = j.sid /\ old = sessions[s] /\ t = j.time
  <2>1. job[w] \in Jobs /\ job[w].sid \in SessionIds /\ job[w].time \in Nat
    BY DEF IInv, TypeOK, Jobs, Doc
  <2>2. sessions[job[w].sid] \in DocType
    BY <2>1 DEF IInv, TypeOK, Doc
  <2> QED BY <2>1, <2>2
<1>a. /\ pc[w] = "finish" /\ now \in Nat /\ t <= now /\ issued[s] > 0
      /\ sessions[s] # NoDoc /\ old # NoDoc
      /\ ~(j.late /\ j.op = "continue")
  BY <1>0, UserSessionsAssumption, DocIsNotNone
     DEF FinishSession, Running, IInv, TypeOK, JobInv, OutInv, Doc
<1>b. PICK to \in {"reply", "pull"} : to = IF old.valid_until < t THEN "reply" ELSE "pull"
  OBVIOUS
<1>c. PICK doc \in DocType :
          /\ doc = [old EXCEPT !.valid_until = Earlier(old.valid_until, t)]
          /\ doc # NoDoc /\ doc.user = old.user /\ doc.user \in Users
          /\ doc.valid_until <= t /\ doc.valid_until <= old.valid_until
  <2>1. old.valid_until \in Nat /\ old.user \in Users
    BY DEF DocType
  <2>2. PICK m \in Nat : m = Earlier(old.valid_until, t) /\ m <= t /\ m <= old.valid_until
    BY <2>1, EarlierOf
  <2>3. /\ [old EXCEPT !.valid_until = m] \in DocType
        /\ [old EXCEPT !.valid_until = m] # NoDoc
        /\ [old EXCEPT !.valid_until = m].user = old.user
        /\ [old EXCEPT !.valid_until = m].valid_until = m
    BY DocUpdated
  <2> QED BY <2>1, <2>2, <2>3
<1>d. PICK new \in Jobs :
          /\ new = IF to = "reply" THEN [j EXCEPT !.reply = "session_not_found", !.doc = NoDoc,
                                          !.time = 0, !.attempts = 0]
                   ELSE [j EXCEPT !.user = old.user, !.time = 0]
          /\ new.sid = s /\ new.op = j.op /\ new.late = j.late /\ new.new = j.new
          /\ new.reply = IF to = "reply" THEN "session_not_found" ELSE j.reply
          /\ to = "pull" => new.user = doc.user
  <2>1. [j EXCEPT !.reply = "session_not_found", !.doc = NoDoc, !.time = 0, !.attempts = 0] \in Jobs
    BY DEF Jobs, Replies
  <2>2. [j EXCEPT !.user = old.user, !.time = 0] \in Jobs
    BY DEF Jobs, DocType
  <2> QED BY <1>0, <1>c, <2>1, <2>2 DEF Jobs
<1>1. /\ pc' = [pc EXCEPT ![w] = to]
      /\ job' = [job EXCEPT ![w] = new]
      /\ sessions' = [sessions EXCEPT ![s] = doc]
      /\ finished' = IF to = "reply" THEN finished ELSE finished \cup {s}
      /\ UNCHANGED <<now, registered, dead, issued, loggedOut>>
  <2>1. Doc(job[w].sid) = old
    BY <1>0 DEF Doc
  <2>2. sessions' = [sessions EXCEPT ![s] = doc]
    BY <1>0, <1>a, <1>c, <2>1 DEF FinishSession, IInv, TypeOK
  <2>3. CASE to = "reply"
    BY <1>0, <1>a, <1>b, <1>d, <2>1, <2>2, <2>3 DEF FinishSession, Reply, Goto
  <2>4. CASE to = "pull"
    <3>1. ~(old.valid_until < t)
      BY <1>b, <2>4
    <3>2. /\ pc' = [pc EXCEPT ![w] = "pull"] /\ finished' = finished \cup {s}
          /\ job' = [job EXCEPT ![w].user = old.user, ![w].time = 0]
          /\ UNCHANGED <<now, registered, dead, issued, loggedOut>>
      BY <1>0, <1>a, <2>1, <3>1 DEF FinishSession, Goto
    <3>3. job' = [job EXCEPT ![w] = new]
      BY <1>0, <1>d, <2>4, <3>2
    <3> QED BY <2>2, <2>4, <3>2, <3>3
  <2> QED BY <2>3, <2>4
<1>2. j.reply = "none"
  BY <1>0, <1>a DEF IInv, JobInv
<1>3. \A x \in SessionIds : /\ sessions'[x].user = sessions[x].user
                            /\ sessions'[x] # NoDoc <=> sessions[x] # NoDoc
                            /\ x # s => sessions'[x] = sessions[x]
                            /\ sessions'[s] = doc
  BY <1>0, <1>a, <1>c, <1>1 DEF IInv, TypeOK
<1>4. TypeOK'
  BY <1>1 DEF IInv, TypeOK, Steps
<1>5. JobInv'
  BY <1>0, <1>a, <1>c, <1>d, <1>1, <1>2 DEF IInv, TypeOK, JobInv
<1>6. HolderInv'
  BY <1>0, <1>a, <1>d, <1>1, <1>2, <1>3 DEF IInv, TypeOK, HolderInv, Holds
<1>7. RegistryInv'
  <2>1. (\A x \in finished : issued[x] > 0)'
    BY <1>a, <1>1 DEF IInv, RegistryInv
  <2>2. \A v \in Workers : /\ pc'[v] = "push" => job'[v].user = sessions'[job'[v].new].user
                           /\ pc'[v] = "pull" => /\ job'[v].user = sessions'[job'[v].sid].user
                                                 /\ job'[v].sid \in finished'
    BY <1>0, <1>d, <1>1, <1>3 DEF IInv, TypeOK, RegistryInv, JobInv
  <2>3. ASSUME NEW x \in SessionIds, sessions'[x] # NoDoc, ~Between(x)'
        PROVE  x \in registered'[sessions'[x].user] <=> x \notin finished'
    <3>1. ~Between(x)
      BY <1>0, <1>a, <1>1, <2>3 DEF Between, IInv, TypeOK
    <3>2. x = s => to = "reply"
      BY <1>d, <1>1, <2>3 DEF Between, IInv, TypeOK
    <3> QED BY <1>1, <1>3, <2>3, <3>1, <3>2 DEF IInv, RegistryInv, RegistryAgrees
  <2> QED BY <2>1, <2>2, <2>3 DEF RegistryInv, RegistryAgrees
<1>8. OutInv'
  <2>1. \A x \in SessionIds : Ended(sessions[x]) => Ended(sessions[x])'
    BY <1>a, <1>c, <1>0, <1>1, <1>3 DEF IInv, TypeOK, Ended, DocType
  <2>2. Ended(sessions[s])'
    BY <1>a, <1>c, <1>1, <1>3 DEF Ended, DocType
  <2>3. (\A x \in loggedOut : sessions[x] # NoDoc /\ Ended(sessions[x]))'
    BY <1>1, <1>3, <2>1 DEF IInv, TypeOK, OutInv
  <2>4. ASSUME NEW v \in Workers
        PROVE  (/\ pc[v] = "pull" \/ (pc[v] = "reply" /\ job[v].reply = "finished") =>
                       sessions[job[v].sid] # NoDoc /\ Ended(sessions[job[v].sid])
                /\ job[v].late => job[v].sid \in loggedOut
                /\ job[v].late /\ job[v].op = "continue" =>
                      /\ pc[v] \in {"idle", "find", "check", "reply"}
                      /\ pc[v] = "check" => Ended(job[v].doc)
                      /\ pc[v] = "reply" => job[v].reply = "session_not_found")'
    <3>1. CASE v = w
      <4>1. pc'[v] = to /\ job'[v] = new
        BY <1>1, <3>1 DEF IInv, TypeOK
      <4>2. sessions'[s] # NoDoc
        BY <1>a, <1>3
      <4>3. j.late => s \in loggedOut'
        BY <1>0, <1>1 DEF IInv, OutInv
      <4> QED BY <1>a, <1>d, <2>2, <4>1, <4>2, <4>3
    <3>2. CASE v # w
      <4>1. pc'[v] = pc[v] /\ job'[v] = job[v] /\ now' = now /\ loggedOut' = loggedOut
        BY <1>1, <3>2 DEF IInv, TypeOK
      <4>2. PICK x \in Ids : x = job[v].sid
        BY DEF IInv, TypeOK, Jobs
      <4>3. pc[v] = "pull" \/ (pc[v] = "reply" /\ job[v].reply = "finished") =>
               x \in SessionIds /\ sessions[x] # NoDoc /\ Ended(sessions[x])
        BY <4>2 DEF IInv, JobInv, OutInv
      <4>4. pc[v] = "pull" \/ (pc[v] = "reply" /\ job[v].reply = "finished") =>
               sessions'[x] # NoDoc /\ Ended(sessions[x])'
        BY <1>3, <2>1, <4>3
      <4>5. Ended(job[v].doc) => Ended(job[v].doc)'
        BY <4>1 DEF Ended
      <4> QED BY <4>1, <4>2, <4>4, <4>5 DEF IInv, OutInv
    <3> QED BY <3>1, <3>2
  <2> QED BY <2>3, <2>4 DEF OutInv
<1> QED BY <1>4, <1>5, <1>6, <1>7, <1>8 DEF IInv

\* The finished session leaves its user's list.
LEMMA UnregisterStep ==
    ASSUME IInv, NEW w \in Workers, Unregister(w)
    PROVE  IInv'
<1> DEFINE s == job[w].sid
           out == job[w].op = "logout"
           new == IF out THEN [job[w] EXCEPT !.reply = "finished", !.doc = NoDoc, !.time = 0,
                                             !.attempts = 0]
                         ELSE [job[w] EXCEPT !.attempts = Attempts]
<1>1. /\ pc' = [pc EXCEPT ![w] = IF out THEN "reply" ELSE "generate"]
      /\ job' = [job EXCEPT ![w] = new]
      /\ registered' = [registered EXCEPT ![job[w].user] = @ \ {s}]
      /\ UNCHANGED <<now, sessions, dead, issued, loggedOut, finished>>
      /\ pc[w] = "pull"
  BY DEF Unregister, Running, Reply, Goto, history
<1>2. new \in Jobs
  <2>1. job[w] \in Jobs /\ "finished" \in Replies
    BY DEF IInv, TypeOK, Replies
  <2>2. [job[w] EXCEPT !.attempts = Attempts] \in Jobs
    BY UserSessionsAssumption, <2>1 DEF Jobs
  <2> QED BY <2>1, <2>2, AnsweredJob
<1>3. /\ new.sid = s /\ new.op = job[w].op /\ new.late = job[w].late /\ new.user = job[w].user
      /\ new.reply = IF out THEN "finished" ELSE "none"
      /\ s \in SessionIds /\ job[w].user \in Users /\ s \in finished
      /\ job[w].user = sessions[s].user
  BY <1>1 DEF IInv, TypeOK, JobInv, RegistryInv, Jobs
<1> HIDE DEF new
<1>4. TypeOK'
  BY <1>1, <1>2, <1>3 DEF IInv, TypeOK, Steps
<1>5. JobInv'
  BY <1>1, <1>2, <1>3 DEF IInv, TypeOK, JobInv
<1>6. HolderInv'
  BY <1>1, <1>2, <1>3 DEF IInv, TypeOK, HolderInv, Holds
<1>7. RegistryInv'
  BY <1>1, <1>2, <1>3 DEF IInv, TypeOK, RegistryInv, RegistryAgrees, Between
<1>8. OutInv'
  BY <1>1, <1>2, <1>3 DEF IInv, TypeOK, OutInv, Ended
<1> QED BY <1>4, <1>5, <1>6, <1>7, <1>8 DEF IInv

\* A new session id is drawn, or another one, or there are no attempts left.
LEMMA GenerateIdStep ==
    ASSUME IInv, NEW w \in Workers, NEW id \in SessionIds, GenerateId(w, id)
    PROVE  IInv'
<1> PICK to \in {"insert", "generate", "reply"} :
       LET new == CASE to = "insert" -> [job[w] EXCEPT !.new = id, !.time = now, !.attempts = 0]
                    [] to = "generate" -> [job[w] EXCEPT !.attempts = job[w].attempts - 1]
                    [] to = "reply" -> [job[w] EXCEPT !.reply = "cant_start_session", !.doc = NoDoc,
                                                      !.time = 0, !.attempts = 0]
       IN  /\ pc' = [pc EXCEPT ![w] = to] /\ job' = [job EXCEPT ![w] = new]
           /\ to = "generate" => job[w].attempts - 1 > 0
  <2>1. pc \in [Workers -> Steps] /\ pc[w] = "generate" /\ job \in [Workers -> Jobs]
    BY DEF GenerateId, Running, IInv, TypeOK
  <2>2. pc = [pc EXCEPT ![w] = "generate"]
    BY <2>1
  <2>3. CASE sessions[id] = NoDoc
    <3> WITNESS "insert" \in {"insert", "generate", "reply"}
    <3> QED BY <2>3 DEF GenerateId, Goto
  <2>4. CASE sessions[id] # NoDoc /\ job[w].attempts - 1 > 0
    <3> WITNESS "generate" \in {"insert", "generate", "reply"}
    <3> QED BY <2>2, <2>4 DEF GenerateId
  <2>5. CASE sessions[id] # NoDoc /\ ~(job[w].attempts - 1 > 0)
    <3> WITNESS "reply" \in {"insert", "generate", "reply"}
    <3> QED BY <2>5 DEF GenerateId, Reply, Goto
  <2> QED BY <2>3, <2>4, <2>5
<1> DEFINE new == CASE to = "insert" -> [job[w] EXCEPT !.new = id, !.time = now, !.attempts = 0]
                    [] to = "generate" -> [job[w] EXCEPT !.attempts = job[w].attempts - 1]
                    [] to = "reply" -> [job[w] EXCEPT !.reply = "cant_start_session", !.doc = NoDoc,
                                                      !.time = 0, !.attempts = 0]
<1>1. /\ pc' = [pc EXCEPT ![w] = to] /\ job' = [job EXCEPT ![w] = new]
      /\ UNCHANGED <<now, sessions, registered, dead, issued, loggedOut, finished>>
      /\ pc[w] = "generate"
  BY DEF GenerateId, Running, history
<1>2. new \in Jobs
  <2>1. job[w] \in Jobs /\ now \in Nat /\ id \in Ids
    BY UserSessionsAssumption DEF IInv, TypeOK, Ids
  <2>2. CASE to = "insert"
    BY <2>1, <2>2 DEF Jobs
  <2>3. CASE to = "generate"
    <3>1. job[w].attempts - 1 \in Nat
      BY <2>1, <2>3 DEF Jobs
    <3> QED BY <2>1, <2>3, <3>1 DEF Jobs
  <2>4. CASE to = "reply"
    BY <2>1, <2>4 DEF Jobs, Replies
  <2> QED BY <2>2, <2>3, <2>4
<1>3. /\ new.sid = job[w].sid /\ new.op = job[w].op /\ new.late = job[w].late
      /\ new.user = job[w].user /\ job[w].user \in Users
      /\ new.reply = IF to = "reply" THEN "cant_start_session" ELSE "none"
      /\ to = "insert" => new.new = id
      /\ ~(job[w].late /\ job[w].op = "continue")
  BY <1>1 DEF IInv, TypeOK, JobInv, OutInv, Jobs
<1> HIDE DEF new
<1>4. TypeOK'
  BY <1>1, <1>2, <1>3 DEF IInv, TypeOK, Steps
<1>5. JobInv'
  BY <1>1, <1>2, <1>3 DEF IInv, TypeOK, JobInv
<1>6. HolderInv'
  BY <1>1, <1>2, <1>3 DEF IInv, TypeOK, HolderInv, Holds
<1>7. RegistryInv'
  BY <1>1, <1>2, <1>3 DEF IInv, TypeOK, RegistryInv, RegistryAgrees, Between
<1>8. OutInv'
  BY <1>1, <1>2, <1>3 DEF IInv, TypeOK, OutInv, Ended
<1> QED BY <1>4, <1>5, <1>6, <1>7, <1>8 DEF IInv

\* The index refuses an id that was taken, and nobody had one that was not.
LEMMA InsertSessionStep ==
    ASSUME IInv, NEW w \in Workers, InsertSession(w)
    PROVE  IInv'
<1> DEFINE id == job[w].new
           free == sessions[id] = NoDoc
           doc == NewDoc(w)
           new == IF free THEN [job[w] EXCEPT !.time = 0]
                  ELSE [job[w] EXCEPT !.reply = "operation_exception", !.doc = NoDoc, !.time = 0,
                                      !.attempts = 0]
<1>1. /\ pc' = [pc EXCEPT ![w] = IF free THEN "push" ELSE "reply"]
      /\ job' = [job EXCEPT ![w] = new]
      /\ sessions' = IF free THEN [sessions EXCEPT ![id] = doc] ELSE sessions
      /\ UNCHANGED <<now, registered, dead, issued, loggedOut, finished>>
      /\ pc[w] = "insert"
  BY DEF InsertSession, Running, Reply, Goto, history
<1>2. new \in Jobs
  <2>1. job[w] \in Jobs /\ "operation_exception" \in Replies
    BY DEF IInv, TypeOK, Replies
  <2>2. [job[w] EXCEPT !.time = 0] \in Jobs
    BY <2>1 DEF Jobs
  <2> QED BY <2>1, <2>2, AnsweredJob
<1>3. /\ new.sid = job[w].sid /\ new.op = job[w].op /\ new.late = job[w].late
      /\ new.user = job[w].user /\ new.new = id /\ id \in SessionIds /\ job[w].user \in Users
      /\ new.reply = IF free THEN "none" ELSE "operation_exception"
      /\ ~(job[w].late /\ job[w].op = "continue")
  BY <1>1 DEF IInv, TypeOK, JobInv, OutInv, Jobs
<1>d. doc \in DocType /\ doc # NoDoc /\ doc.user = job[w].user
  <2>1. doc \in DocType
    BY <1>3, UserSessionsAssumption DEF NewDoc, DocType, IInv, TypeOK, Jobs
  <2> QED BY <2>1, DocIsNotNone DEF NewDoc
<1>e. free => /\ issued[id] = 0 /\ id \notin finished /\ id \notin loggedOut
              /\ \A v \in Workers : ~Holds(v, id) /\ job[v].sid # id
  BY <1>3 DEF IInv, TypeOK, HolderInv, RegistryInv, OutInv, JobInv
<1> HIDE DEF new, doc
<1>4. TypeOK'
  BY <1>1, <1>2, <1>3, <1>d, <1>e DEF IInv, TypeOK, Steps
<1>5. JobInv'
  BY <1>1, <1>2, <1>3, <1>d, <1>e DEF IInv, TypeOK, JobInv
<1>6. HolderInv'
  BY <1>1, <1>2, <1>3, <1>d, <1>e DEF IInv, TypeOK, HolderInv, Holds
<1>7. RegistryInv'
  <2>1. CASE ~free
    BY <1>1, <1>2, <1>3, <2>1 DEF IInv, TypeOK, RegistryInv, RegistryAgrees, Between
  <2>2. CASE free
    <3>1. PICK i \in SessionIds, u \in Users : i = job[w].new /\ u = job[w].user
      BY <1>3
    <3>2. /\ sessions' = [sessions EXCEPT ![i] = doc] /\ doc.user = u
          /\ pc' = [pc EXCEPT ![w] = "push"] /\ job' = [job EXCEPT ![w] = new]
          /\ new.new = i /\ new.user = u
      BY <1>1, <1>3, <1>d, <2>2, <3>1
    <3>3. (\A x \in finished : issued[x] > 0)'
      BY <1>1 DEF IInv, RegistryInv
    <3>4. \A v \in Workers : /\ pc'[v] = "push" => job'[v].user = sessions'[job'[v].new].user
                             /\ pc'[v] = "pull" => /\ job'[v].user = sessions'[job'[v].sid].user
                                                   /\ job'[v].sid \in finished'
      <4>1. \A v \in Workers : pc[v] = "push" => job[v].new # i
        BY <1>e, <2>2, <3>1 DEF Holds
      <4>2. \A v \in Workers : pc[v] = "pull" => job[v].sid # i
        BY <1>e, <2>2, <3>1
      <4> QED BY <1>1, <3>2, <4>1, <4>2 DEF IInv, TypeOK, RegistryInv, JobInv
    <3>5. ASSUME NEW x \in SessionIds, sessions'[x] # NoDoc, ~Between(x)'
          PROVE  x \in registered'[sessions'[x].user] <=> x \notin finished'
      <4>1. x # i
        BY <3>2, <3>5 DEF Between, IInv, TypeOK
      <4>2. ~Between(x)
        BY <1>1, <3>2, <3>5 DEF Between, IInv, TypeOK
      <4>3. sessions'[x] = sessions[x]
        BY <3>2, <4>1 DEF IInv, TypeOK
      <4> QED BY <1>1, <3>5, <4>2, <4>3 DEF IInv, RegistryInv, RegistryAgrees
    <3> QED BY <3>3, <3>4, <3>5 DEF RegistryInv, RegistryAgrees
  <2> QED BY <2>1, <2>2
<1>8. OutInv'
  BY <1>1, <1>2, <1>3, <1>d, <1>e DEF IInv, TypeOK, OutInv, Ended
<1> QED BY <1>4, <1>5, <1>6, <1>7, <1>8 DEF IInv

\* The inserted session is listed.
LEMMA RegisterStep ==
    ASSUME IInv, NEW w \in Workers, Register(w)
    PROVE  IInv'
<1> DEFINE id == job[w].new
           new == [job[w] EXCEPT !.reply = "user_ref", !.doc = NoDoc, !.time = 0, !.attempts = 0]
<1>1. /\ pc' = [pc EXCEPT ![w] = "reply"] /\ job' = [job EXCEPT ![w] = new]
      /\ registered' = [registered EXCEPT ![job[w].user] = @ \cup {id}]
      /\ UNCHANGED <<now, sessions, dead, issued, loggedOut, finished>>
      /\ pc[w] = "push"
  BY DEF Register, Running, Reply, Goto, history
<1>2. new \in Jobs
  <2>1. job[w] \in Jobs /\ "user_ref" \in Replies
    BY DEF IInv, TypeOK, Replies
  <2> QED BY <2>1, AnsweredJob
<1>3. /\ new.sid = job[w].sid /\ new.op = job[w].op /\ new.late = job[w].late
      /\ new.new = id /\ id \in SessionIds /\ job[w].user \in Users /\ new.reply = "user_ref"
      /\ job[w].user = sessions[id].user
      /\ ~(job[w].late /\ job[w].op = "continue")
  BY <1>1 DEF IInv, TypeOK, JobInv, OutInv, RegistryInv, Jobs
<1>d. id \notin finished
  BY <1>1, <1>3 DEF IInv, TypeOK, HolderInv, Holds, RegistryInv
<1> HIDE DEF new
<1>4. TypeOK'
  BY <1>1, <1>2, <1>3, <1>d DEF IInv, TypeOK, Steps
<1>5. JobInv'
  BY <1>1, <1>2, <1>3, <1>d DEF IInv, TypeOK, JobInv
<1>6. HolderInv'
  BY <1>1, <1>2, <1>3, <1>d DEF IInv, TypeOK, HolderInv, Holds
<1>7. RegistryInv'
  BY <1>1, <1>2, <1>3, <1>d DEF IInv, TypeOK, RegistryInv, RegistryAgrees, Between
<1>8. OutInv'
  BY <1>1, <1>2, <1>3, <1>d DEF IInv, TypeOK, OutInv, Ended
<1> QED BY <1>4, <1>5, <1>6, <1>7, <1>8 DEF IInv

\* The client gets its answer, and with it what the worker held.
LEMMA RespondStep ==
    ASSUME IInv, NEW w \in Workers, Respond(w)
    PROVE  IInv'
<1> DEFINE s == job[w].sid
           id == job[w].new
           given == job[w].reply = "user_ref"
           out == job[w].reply = "finished"
<1>1. /\ pc' = [pc EXCEPT ![w] = "idle"] /\ job' = [job EXCEPT ![w] = NoJob]
      /\ issued' = IF given THEN [issued EXCEPT ![id] = @ + 1] ELSE issued
      /\ loggedOut' = IF out THEN loggedOut \cup {s} ELSE loggedOut
      /\ UNCHANGED <<now, sessions, registered, dead, finished>>
      /\ pc[w] = "reply"
  BY DEF Respond, Running, Goto
<1>2. /\ NoJob \in Jobs /\ NoJob.sid = UnknownId /\ ~NoJob.late
      /\ UnknownId \notin SessionIds /\ NoJob.op = "login"
  BY UserSessionsAssumption DEF NoJob, NewJob, Jobs, Ids, Ops, Replies
<1>3. /\ given => id \in SessionIds /\ issued[id] = 0 /\ sessions[id] # NoDoc /\ Holds(w, id)
      /\ out => s \in SessionIds /\ sessions[s] # NoDoc /\ Ended(sessions[s])
  BY <1>1 DEF IInv, TypeOK, JobInv, HolderInv, Holds, OutInv
<1>4. TypeOK'
  BY <1>1, <1>2, <1>3 DEF IInv, TypeOK, Steps
<1>5. JobInv'
  BY <1>1, <1>2, <1>3 DEF IInv, TypeOK, JobInv
<1>6. HolderInv'
  BY <1>1, <1>2, <1>3 DEF IInv, TypeOK, HolderInv, Holds
<1>7. RegistryInv'
  BY <1>1, <1>2, <1>3 DEF IInv, TypeOK, RegistryInv, RegistryAgrees, Between
<1>8. OutInv'
  BY <1>1, <1>2, <1>3 DEF IInv, TypeOK, OutInv, Ended
<1> QED BY <1>4, <1>5, <1>6, <1>7, <1>8 DEF IInv

\* Time passes: what has ended stays so.
LEMMA TickStep ==
    ASSUME IInv, Tick
    PROVE  IInv'
<1>1. /\ now' = now + 1 /\ now < MaxTime /\ now \in Nat
      /\ UNCHANGED <<sessions, registered, pc, job, dead, issued, loggedOut, finished>>
  BY UserSessionsAssumption DEF Tick, history, IInv, TypeOK
<1>2. \A d \in DocType \cup {NoDoc} : Ended(d) => Ended(d)'
  BY <1>1 DEF Ended, DocType
<1>4. TypeOK'
  BY <1>1, UserSessionsAssumption DEF IInv, TypeOK
<1>5. JobInv'
  BY <1>1 DEF IInv, TypeOK, JobInv, Jobs
<1>6. HolderInv'
  BY <1>1 DEF IInv, HolderInv, Holds
<1>7. RegistryInv'
  BY <1>1 DEF IInv, RegistryInv, RegistryAgrees, Between
<1>8. OutInv'
  <2>1. (\A s \in loggedOut : sessions[s] # NoDoc /\ Ended(sessions[s]))'
    BY <1>1, <1>2 DEF IInv, TypeOK, OutInv
  <2>2. ASSUME NEW w \in Workers
        PROVE  (/\ pc[w] = "pull" \/ (pc[w] = "reply" /\ job[w].reply = "finished") =>
                       sessions[job[w].sid] # NoDoc /\ Ended(sessions[job[w].sid])
                /\ job[w].late => job[w].sid \in loggedOut
                /\ job[w].late /\ job[w].op = "continue" =>
                      /\ pc[w] \in {"idle", "find", "check", "reply"}
                      /\ pc[w] = "check" => Ended(job[w].doc)
                      /\ pc[w] = "reply" => job[w].reply = "session_not_found")'
    <3>1. PICK s, d : s = job[w].sid /\ d = job[w].doc /\ d \in DocType \cup {NoDoc}
      BY DEF IInv, TypeOK, Jobs
    <3>2. Ended(d) => Ended(d)'
      BY <1>2, <3>1
    <3>3. s \in SessionIds /\ Ended(sessions[s]) => Ended(sessions[s])'
      <4>1. s \in SessionIds => sessions[s] \in DocType \cup {NoDoc}
        BY DEF IInv, TypeOK
      <4> QED BY <1>1, <4>1 DEF Ended, DocType
    <3>4. pc[w] = "pull" \/ (pc[w] = "reply" /\ job[w].reply = "finished") => s \in SessionIds
      BY <3>1 DEF IInv, JobInv
    <3>5. pc'[w] = pc[w] /\ job'[w] = job[w]
      BY <1>1
    <3> QED BY <1>1, <3>1, <3>2, <3>3, <3>4, <3>5 DEF IInv, OutInv, Ended
  <2> QED BY <2>1, <2>2 DEF OutInv
<1> QED BY <1>4, <1>5, <1>6, <1>7, <1>8 DEF IInv

\* A worker that dies leaves everything as it is.
LEMMA CrashStep ==
    ASSUME IInv, NEW w \in Workers, Crash(w)
    PROVE  IInv'
BY DEF Crash, history, IInv, TypeOK, JobInv, HolderInv, Holds, RegistryInv, RegistryAgrees,
       Between, OutInv, Ended

-----------------------------------------------------------------------------
(* The theorems *)

\* Initially no session is there.
LEMMA InitInv == Init => IInv
<1> SUFFICES ASSUME Init PROVE IInv
  OBVIOUS
<1>1. /\ NoJob \in Jobs /\ NoJob.sid = UnknownId /\ ~NoJob.late
      /\ UnknownId \notin SessionIds
  BY UserSessionsAssumption DEF NoJob, NewJob, Jobs, Ids, Ops, Replies
<1>4. TypeOK
  BY <1>1, UserSessionsAssumption DEF Init, TypeOK, Steps
<1>5. JobInv
  BY <1>1 DEF Init, JobInv
<1>6. HolderInv
  BY DEF Init, HolderInv, Holds
<1>7. RegistryInv
  BY DEF Init, RegistryInv, RegistryAgrees, Between
<1>8. OutInv
  BY <1>1 DEF Init, OutInv, Ended
<1> QED BY <1>4, <1>5, <1>6, <1>7, <1>8 DEF IInv

\* Every step of a worker, and of its environment, preserves the invariant.
LEMMA StepInv == IInv /\ [Next]_vars => IInv'
<1> SUFFICES ASSUME IInv, [Next]_vars PROVE IInv'
  OBVIOUS
<1>1. ASSUME NEW w \in Workers, NEW u \in Users, Login(w, u) PROVE IInv'
  BY <1>1, LoginStep
<1>2. ASSUME NEW w \in Workers, RefuseLogin(w) PROVE IInv'
  BY <1>2, RefuseLoginStep
<1>3. ASSUME NEW w \in Workers, NEW s \in Ids, Continue(w, s) \/ Logout(w, s) PROVE IInv'
  BY <1>3, RequestStep DEF Continue, Logout
<1>4. ASSUME NEW w \in Workers, Step(w) PROVE IInv'
  BY <1>4, FindSessionStep, CheckSessionStep, FinishTimeStep, FinishNoneStep, FinishSomeStep, UnregisterStep,
     GenerateIdStep, InsertSessionStep, RegisterStep, RespondStep DEF Step
<1>5. ASSUME NEW w \in Workers, Crash(w) PROVE IInv'
  BY <1>5, CrashStep
<1>6. CASE Tick
  BY <1>6, TickStep
<1>7. CASE UNCHANGED vars
  BY <1>7 DEF vars, history, IInv, TypeOK, JobInv, HolderInv, Holds, RegistryInv, RegistryAgrees,
              Between, OutInv, Ended
<1> QED BY <1>1, <1>2, <1>3, <1>4, <1>5, <1>6, <1>7 DEF Next

\* In every reachable state the workers, the collections and the clients agree on
\* who holds which session, which are listed, and which have ended.
THEOREM Invariant == Spec => []IInv
BY InitInv, StepInv, PTL DEF Spec

\* Every variable holds what the code stores in it.
THEOREM TypeCorrect == Spec => []TypeOK
BY Invariant, PTL DEF IInv

\* No session id is handed out twice, by however many workers.
THEOREM OneHolderSafe == Spec => []OneHolder
<1>1. IInv => OneHolder
  BY DEF IInv, TypeOK, HolderInv, OneHolder
<1> QED BY Invariant, <1>1, PTL

\* Who was told that a session is finished is never served with it again.
THEOREM LoggedOutSafe == Spec => []LoggedOutIsOut
<1>1. IInv => LoggedOutIsOut
  BY DEF IInv, OutInv, LoggedOutIsOut, Running
<1> QED BY Invariant, <1>1, PTL

\* The users' lists and the sessions agree but for workers between two operations.
THEOREM RegistrySafe == Spec => []RegistryAgrees
BY Invariant, PTL DEF IInv, RegistryInv

\* No operation, however late, lengthens a session.
THEOREM NeverLonger == Spec => NeverLengthened
<1> DEFINE Shorter == \A s \in SessionIds :
              sessions[s] # NoDoc => /\ sessions'[s] # NoDoc
                                     /\ sessions'[s].user = sessions[s].user
                                     /\ sessions'[s].valid_until <= sessions[s].valid_until
<1>1. ASSUME IInv, [Next]_vars PROVE Shorter
  <2>0. \A s \in SessionIds : sessions[s] # NoDoc => sessions[s] \in DocType /\ sessions[s].valid_until \in Nat
    BY <1>1 DEF IInv, TypeOK, DocType
  <2>1. CASE UNCHANGED sessions
    BY <2>0, <2>1
  <2>2. ASSUME NEW w \in Workers, FinishSession(w) PROVE Shorter
    <3> SUFFICES ASSUME NEW s \in SessionIds, sessions[s] # NoDoc, sessions' # sessions
                 PROVE  /\ sessions'[s] # NoDoc /\ sessions'[s].user = sessions[s].user
                        /\ sessions'[s].valid_until <= sessions[s].valid_until
      BY <2>0
    <3>1. /\ sessions' = [sessions EXCEPT ![job[w].sid].valid_until = Earlier(@, job[w].time)]
          /\ sessions \in [SessionIds -> DocType \cup {NoDoc}] /\ job[w].time \in Nat
      BY <1>1, <2>2 DEF FinishSession, IInv, TypeOK, Jobs
    <3>2. CASE s = job[w].sid
      <4> DEFINE t == Earlier(sessions[s].valid_until, job[w].time)
      <4>1. t \in Nat /\ t <= sessions[s].valid_until
        BY <2>0, <3>1, EarlierOf
      <4>2. sessions'[s] = [sessions[s] EXCEPT !.valid_until = t]
        BY <2>0, <3>1, <3>2 DEF DocType
      <4> HIDE DEF t
      <4> QED BY <2>0, <4>1, <4>2, DocUpdated
    <3>3. CASE s # job[w].sid
      BY <2>0, <3>1, <3>3
    <3> QED BY <3>2, <3>3
  <2>3. ASSUME NEW w \in Workers, InsertSession(w) PROVE Shorter
    BY <1>1, <2>0, <2>3 DEF InsertSession, IInv, TypeOK
  <2> QED BY <1>1, <2>1, <2>2, <2>3 DEF Next, Step, vars, history, Login, RefuseLogin, Continue, Logout,
        Request, FindSession, CheckSession, FinishTime, Unregister, GenerateId, Register, Respond,
        Tick, Crash
<1>2. IInv /\ [Next]_vars => [Shorter]_vars
  BY <1>1
<1> QED BY Invariant, <1>2, PTL DEF Spec, NeverLengthened

-----------------------------------------------------------------------------
(***************************************************************************)
(* How much work a request is.  That a worker goes on with it is fairness; *)
(* that there is only so much to do is a step property.                    *)
(***************************************************************************)

\* The steps a worker has before it at most until it is idle again.
StepsLeft(w) ==
    CASE pc[w] = "find"        -> Attempts + 8
      [] pc[w] = "check"       -> Attempts + 7
      [] pc[w] = "finish_time" -> Attempts + 6
      [] pc[w] = "finish"      -> Attempts + 5
      [] pc[w] = "pull"        -> Attempts + 4
      [] pc[w] = "generate"    -> job[w].attempts + 3
      [] pc[w] = "insert"      -> 3
      [] pc[w] = "push"        -> 2
      [] pc[w] = "reply"       -> 1
      [] pc[w] = "idle"        -> 0

\* A worker that draws ids has an attempt left, and no more than it began with.
AttemptsInv == \A w \in Workers : pc[w] = "generate" => job[w].attempts \in 1..Attempts

\* What a step does for the request of a worker.
GetsOn(w) == \/ UNCHANGED <<pc[w], job[w]>>
             \/ pc[w] = "idle" /\ StepsLeft(w)' <= Attempts + 8
             \/ StepsLeft(w)' < StepsLeft(w)

\* A step of a worker takes a request, or leaves it fewer steps to go, whatever the
\* other workers, the clock and the draws of ids do meanwhile: a request is over
\* after at most Attempts + 8 steps of its worker.
BoundedWork == [][\A w \in Workers : GetsOn(w)]_vars

\* A step of one worker leaves the requests of the others alone.
LEMMA OneGetsOn ==
    ASSUME TypeOK, AttemptsInv, NEW w \in Workers, NEW p, NEW j,
           pc' = [pc EXCEPT ![w] = p], job' = [job EXCEPT ![w] = j],
           p = "generate" => j.attempts \in 1..Attempts, GetsOn(w)
    PROVE  AttemptsInv' /\ \A v \in Workers : GetsOn(v)
<1>1. pc'[w] = p /\ job'[w] = j
  BY DEF TypeOK
<1>2. \A v \in Workers : v # w => pc'[v] = pc[v] /\ job'[v] = job[v]
  BY DEF TypeOK
<1>3. AttemptsInv'
  BY <1>1, <1>2 DEF AttemptsInv
<1>4. \A v \in Workers : GetsOn(v)
  BY <1>2 DEF GetsOn
<1> QED BY <1>3, <1>4

\* A worker that is idle takes a request.
LEMMA TakesOne ==
    ASSUME TypeOK, AttemptsInv, NEW w \in Workers, NEW p \in {"find", "finish_time", "generate", "reply"},
           NEW j, pc[w] = "idle", pc' = [pc EXCEPT ![w] = p], job' = [job EXCEPT ![w] = j],
           p = "generate" => j.attempts = Attempts
    PROVE  AttemptsInv' /\ \A v \in Workers : GetsOn(v)
<1>1. PICK a \in Nat : a = Attempts /\ 1 <= a
  BY UserSessionsAssumption
<1>2. pc'[w] = p /\ job'[w] = j
  BY DEF TypeOK
<1>3. StepsLeft(w)' <= Attempts + 8
  BY <1>1, <1>2 DEF StepsLeft
<1>4. GetsOn(w)
  BY <1>3 DEF GetsOn
<1>5. p = "generate" => j.attempts \in 1..Attempts
  BY <1>1
<1> QED BY <1>4, <1>5, OneGetsOn

\* A worker at work gets on with its request.
LEMMA DoesOne ==
    ASSUME TypeOK, AttemptsInv, NEW w \in Workers, Step(w)
    PROVE  AttemptsInv' /\ \A v \in Workers : GetsOn(v)
<1>0. PICK a \in Nat : a = Attempts /\ 1 <= a
  BY UserSessionsAssumption
<1>1. ASSUME NEW p, NEW j, pc' = [pc EXCEPT ![w] = p], job' = [job EXCEPT ![w] = j],
             \/ p = "check" /\ pc[w] = "find"
             \/ p = "finish_time" /\ pc[w] = "check"
             \/ p = "finish" /\ pc[w] = "finish_time"
             \/ p = "pull" /\ pc[w] = "finish"
             \/ p = "generate" /\ pc[w] = "pull" /\ j.attempts = Attempts
             \/ p = "insert" /\ pc[w] = "generate"
             \/ p = "push" /\ pc[w] = "insert"
             \/ p = "reply" /\ pc[w] \in {"check", "finish", "pull", "generate", "insert", "push"}
             \/ p = "idle" /\ pc[w] = "reply"
      PROVE  AttemptsInv' /\ \A v \in Workers : GetsOn(v)
  <2>1. pc'[w] = p /\ job'[w] = j
    BY <1>1 DEF TypeOK
  <2>2. pc[w] = "generate" => job[w].attempts \in Nat /\ 1 <= job[w].attempts
    BY <1>0 DEF AttemptsInv
  <2>3. StepsLeft(w)' < StepsLeft(w)
    BY <1>0, <1>1, <2>1, <2>2 DEF StepsLeft
  <2>4. p = "generate" => j.attempts \in 1..Attempts
    BY <1>0, <1>1
  <2> QED BY <1>1, <2>3, <2>4, OneGetsOn DEF GetsOn
<1>2. CASE FindSession(w) \/ FinishTime(w)
  <2>1. CASE FindSession(w)
    BY <1>1, <2>1 DEF FindSession, Running, Goto
  <2>2. CASE FinishTime(w)
    BY <1>1, <2>2 DEF FinishTime, Running, Goto
  <2> QED BY <1>2, <2>1, <2>2
<1>3. CASE CheckSession(w)
  <2>1. CASE Reply(w, "session_not_found") \/ Reply(w, "user_id")
    BY <1>1, <1>3, <2>1 DEF CheckSession, Running, Goto, Reply
  <2>2. CASE Goto(w, "finish_time") /\ job' = [job EXCEPT ![w].doc = NoDoc]
    BY <1>1, <1>3, <2>2 DEF CheckSession, Running, Goto
  <2> QED BY <1>3, <2>1, <2>2 DEF CheckSession
<1>4. CASE FinishSession(w)
  <2>1. CASE Reply(w, "session_not_found")
    BY <1>1, <1>4, <2>1 DEF FinishSession, Running, Goto, Reply
  <2>2. CASE Goto(w, "pull") /\ job' = [job EXCEPT ![w].user = Doc(job[w].sid).user, ![w].time = 0]
    BY <1>1, <1>4, <2>2 DEF FinishSession, Running, Goto
  <2> QED BY <1>4, <2>1, <2>2 DEF FinishSession
<1>5. CASE Unregister(w)
  <2>1. CASE Reply(w, "finished")
    BY <1>1, <1>5, <2>1 DEF Unregister, Running, Goto, Reply
  <2>2. CASE Goto(w, "generate") /\ job' = [job EXCEPT ![w].attempts = Attempts]
    <3> DEFINE j == [job[w] EXCEPT !.attempts = Attempts]
    <3>1. j.attempts = Attempts
      BY DEF TypeOK, Jobs
    <3>2. job' = [job EXCEPT ![w] = j]
      BY <2>2
    <3> HIDE DEF j
    <3> QED BY <1>1, <1>5, <2>2, <3>1, <3>2 DEF Unregister, Running, Goto
  <2> QED BY <1>5, <2>1, <2>2 DEF Unregister
<1>6. ASSUME NEW id \in SessionIds, GenerateId(w, id)
      PROVE  AttemptsInv' /\ \A v \in Workers : GetsOn(v)
  <2>1. PICK k \in Nat : k = job[w].attempts /\ k \in 1..Attempts /\ pc[w] = "generate"
    BY <1>0, <1>6 DEF AttemptsInv, GenerateId, Running
  <2>2. CASE Goto(w, "insert") /\ job' = [job EXCEPT ![w].new = id, ![w].time = now, ![w].attempts = 0]
    BY <1>1, <2>1, <2>2 DEF Goto
  <2>3. CASE Reply(w, "cant_start_session")
    BY <1>1, <2>1, <2>3 DEF Goto, Reply
  <2>4. CASE k - 1 > 0 /\ job' = [job EXCEPT ![w].attempts = k - 1] /\ UNCHANGED pc
    <3> DEFINE j == [job[w] EXCEPT !.attempts = k - 1]
    <3>1. j.attempts = k - 1
      BY DEF TypeOK, Jobs
    <3>2. job' = [job EXCEPT ![w] = j] /\ pc' = [pc EXCEPT ![w] = "generate"]
      BY <2>1, <2>4 DEF TypeOK
    <3> HIDE DEF j
    <3>3. pc'[w] = "generate" /\ job'[w].attempts = k - 1
      BY <3>1, <3>2 DEF TypeOK
    <3>4. StepsLeft(w) = k + 3 /\ StepsLeft(w)' = (k - 1) + 3
      BY <2>1, <3>3 DEF StepsLeft
    <3>5. GetsOn(w)
      BY <2>1, <3>4 DEF GetsOn
    <3>6. k - 1 \in 1..Attempts
      BY <1>0, <2>1, <2>4
    <3> QED BY <3>1, <3>2, <3>5, <3>6, OneGetsOn
  <2> QED BY <1>6, <2>1, <2>2, <2>3, <2>4 DEF GenerateId
<1>7. CASE InsertSession(w)
  <2>1. CASE Goto(w, "push") /\ job' = [job EXCEPT ![w].time = 0]
    BY <1>1, <1>7, <2>1 DEF InsertSession, Running, Goto
  <2>2. CASE Reply(w, "operation_exception")
    BY <1>1, <1>7, <2>2 DEF InsertSession, Running, Goto, Reply
  <2> QED BY <1>7, <2>1, <2>2 DEF InsertSession
<1>8. CASE Register(w)
  BY <1>1, <1>8 DEF Register, Running, Goto, Reply
<1>9. CASE Respond(w)
  BY <1>1, <1>9 DEF Respond, Running, Goto
<1> QED BY <1>2, <1>3, <1>4, <1>5, <1>6, <1>7, <1>8, <1>9 DEF Step

\* Every step leaves every worker where it was, or further on.
LEMMA StepWork == TypeOK /\ AttemptsInv /\ [Next]_vars => AttemptsInv' /\ \A v \in Workers : GetsOn(v)
<1> SUFFICES ASSUME TypeOK, AttemptsInv, [Next]_vars
             PROVE  AttemptsInv' /\ \A v \in Workers : GetsOn(v)
  OBVIOUS
<1>1. ASSUME UNCHANGED <<pc, job>> PROVE AttemptsInv' /\ \A v \in Workers : GetsOn(v)
  BY <1>1 DEF AttemptsInv, GetsOn
<1>2. CASE Tick \/ UNCHANGED vars
  BY <1>1, <1>2 DEF Tick, vars
<1>3. ASSUME NEW w \in Workers, Crash(w) PROVE AttemptsInv' /\ \A v \in Workers : GetsOn(v)
  BY <1>1, <1>3 DEF Crash
<1>4. ASSUME NEW w \in Workers, NEW u \in Users, Login(w, u)
      PROVE  AttemptsInv' /\ \A v \in Workers : GetsOn(v)
  <2> DEFINE j == [NewJob("login", u, UnknownId, FALSE) EXCEPT !.attempts = Attempts]
  <2>1. j.attempts = Attempts
    BY DEF NewJob
  <2>2. pc[w] = "idle" /\ pc' = [pc EXCEPT ![w] = "generate"] /\ job' = [job EXCEPT ![w] = j]
    BY <1>4 DEF Login, Running, Goto
  <2> HIDE DEF j
  <2> QED BY <2>1, <2>2, TakesOne
<1>5. ASSUME NEW w \in Workers, RefuseLogin(w) PROVE AttemptsInv' /\ \A v \in Workers : GetsOn(v)
  BY <1>5, TakesOne DEF RefuseLogin, Running, Reply, Goto
<1>6. ASSUME NEW w \in Workers, NEW s \in Ids, Continue(w, s) \/ Logout(w, s)
      PROVE  AttemptsInv' /\ \A v \in Workers : GetsOn(v)
  BY <1>6, TakesOne DEF Continue, Logout, Request, Running, Goto
<1>7. ASSUME NEW w \in Workers, Step(w) PROVE AttemptsInv' /\ \A v \in Workers : GetsOn(v)
  BY <1>7, DoesOne
<1> QED BY <1>2, <1>3, <1>4, <1>5, <1>6, <1>7 DEF Next

\* A request takes a worker a bounded number of steps, restarts and taken ids included.
THEOREM WorkEnds == Spec => BoundedWork
<1>1. Init => AttemptsInv
  BY DEF Init, AttemptsInv
<1>2. TypeOK /\ AttemptsInv /\ [Next]_vars =>
          AttemptsInv' /\ [\A w \in Workers : GetsOn(w)]_vars
  BY StepWork
<1> QED BY <1>1, <1>2, TypeCorrect, PTL DEF Spec, BoundedWork
=============================================================================
