---------------------------- MODULE FriendsProofs ----------------------------
(***************************************************************************)
(* Proofs about Friends, for any number of workers, users, e-mails, refs,  *)
(* requests and crashes, and pages of any length.                          *)
(***************************************************************************)
EXTENDS Friends, FiniteSetTheorems, WellFoundedInduction, TLAPS

-----------------------------------------------------------------------------
(* The inductive invariant *)

\* What a worker may rely on that has come to this step with this job.
JobFacts(step, j) ==
    /\ step \in {"ref", "insert"} =>
          /\ j.op = "register" /\ j.method = "POST"
          /\ j.user \in Users /\ j.email \in Emails /\ users[j.user] = NoDoc
    /\ step = "insert" => j.ref \in Refs
    /\ step = "start" => j.op \in {"register", "login"} /\ j.method = "POST"
    /\ step \in {"start", "session"} /\ j.op = "register" =>
          /\ j.user \in Registered
          /\ users[j.user].email = j.email /\ users[j.user].ref = j.ref
    /\ step = "session" =>
          /\ j.found \in Registered
          /\ j.op = "login" => j.method = "POST"
          /\ j.op = "register" => j.method = "POST" /\ j.found = j.user
          /\ j.op \notin {"register", "login"} => j.found = j.user
    /\ step \in {"visit", "finish"} =>
          /\ j.user \in Registered /\ j.sample = <<>>
          /\ j.op \in {"add", "remove", "user", "users", "logout"}
          /\ j.op \in {"add", "remove"} => j.method = "POST"
    /\ step = "visit" => j.op # "logout"
    /\ step \in {"friend", "own"} =>
          j.user \in Registered /\ j.method = "POST" /\ j.op \in {"add", "remove"}
    /\ step = "own" => j.found \in Registered /\ (j.op = "add" \/ popped)
    /\ step = "read" => j.sample = <<>>
    /\ step \in {"read", "draw", "look", "list"} => j.op # "register"
    /\ step = "draw" =>
          /\ Len(j.sample) < SampleSize(j.list)
          /\ \A i, k \in DOMAIN j.sample : j.sample[i] = j.sample[k] => i = k
    /\ step = "reply" /\ j.op = "register" /\ j.reply = "ok" =>
          /\ j.user \in Registered /\ j.found = j.user
          /\ users[j.user].ref = j.ref

JobInv == \A w \in Workers : JobFacts(pc[w], job[w])

\* A worker registers a user whom no other one registers; the dead stay where they
\* were only if that was between the two halves of a friendship.
WorkersInv ==
    /\ \A w, v \in Workers :
          /\ pc[w] \in {"ref", "insert"} /\ pc[v] \in {"ref", "insert"}
          /\ job[w].user = job[v].user
          => w = v
    /\ \A w \in dead : pc[w] \in {"idle", "own"}

\* An e-mail has one user, and friends are registered.
UsersInv ==
    /\ \A u, v \in Registered : users[u].email = users[v].email => u = v
    /\ \A u \in Registered :
          /\ \A i \in DOMAIN users[u].friends : users[u].friends[i] \in Registered
          /\ \A i \in DOMAIN users[u].friend_of : users[u].friend_of[i] \in Registered

IInv == TypeOK /\ JobInv /\ WorkersInv /\ UsersInv /\ HalvesAgree

-----------------------------------------------------------------------------
(* Checks in a row *)

\* A set of natural numbers that is not empty has a least element.
LEMMA LeastOf ==
    ASSUME NEW S \in SUBSET Nat, S # {}
    PROVE  \E i \in S : \A k \in S : i <= k
<1>1. \E i \in S : \A k \in S : ~(<<k, i>> \in OpToRel(<, Nat))
  BY NatLessThanWellFounded, WFMin
<1>2. PICK i \in S : \A k \in S : <<k, i>> \notin OpToRel(<, Nat)
  BY <1>1
<1>3. ASSUME NEW k \in S, k < i PROVE <<k, i>> \in OpToRel(<, Nat)
  BY <1>3 DEF OpToRel
<1>4. ASSUME NEW k \in S PROVE i <= k
  <2>1. k \in Nat /\ i \in Nat /\ ~(k < i)
    BY <1>2, <1>3
  <2> QED BY <2>1
<1> QED BY <1>4

Refusals == Replies \ {"none", "ok"}

\* Nothing is refused exactly when no check strikes.
LEMMA FirstOfChecks ==
    ASSUME NEW n \in Nat, NEW checks, DOMAIN checks = 1..n,
           \A i \in 1..n : checks[i][2] \in Refusals
    PROVE  /\ FirstOf(checks) \in Refusals \cup {"none"}
           /\ FirstOf(checks) = "none" => \A i \in 1..n : ~checks[i][1]
<1> DEFINE hits == {i \in DOMAIN checks : checks[i][1]}
           first == CHOOSE i \in hits : \A k \in hits : i <= k
<1>1. CASE hits = {}
  BY <1>1 DEF FirstOf
<1>2. CASE hits # {}
  <2>1. hits \in SUBSET Nat
    OBVIOUS
  <2>2. \E i \in hits : \A k \in hits : i <= k
    BY <1>2, <2>1, LeastOf
  <2> HIDE DEF hits
  <2>3. first \in hits
    BY <2>2
  <2> USE DEF hits
  <2>4. first \in 1..n
    BY <2>3
  <2>5. FirstOf(checks) = checks[first][2]
    BY <1>2 DEF FirstOf
  <2> QED BY <2>4, <2>5 DEF Refusals
<1> QED BY <1>1, <1>2

\* login refuses with an answer that is no success, and goes on only with a POST.
LEMMA login_refusal ==
    ASSUME NEW method, NEW sid, NEW form
    PROVE  /\ login_refuses(method, sid, form) \in Refusals \cup {"none"}
           /\ login_refuses(method, sid, form) = "none" => method = "POST"
<1> DEFINE checks == <<<<method # "POST", "soft_redirect">>, <<sid # NoCookie, "already_logged_in">>,
                    <<form = "incomplete", "unknown_error">>>>
<1>1. DOMAIN checks = 1..3 /\ \A i \in 1..3 : checks[i][2] \in Refusals
  BY DEF Refusals, Replies
<1>2. login_refuses(method, sid, form) = FirstOf(checks)
  BY DEF login_refuses
<1>3. checks[1][1] = (method # "POST")
  OBVIOUS
<1> HIDE DEF checks
<1>4. /\ FirstOf(checks) \in Refusals \cup {"none"}
      /\ FirstOf(checks) = "none" => \A i \in 1..3 : ~checks[i][1]
  BY <1>1, FirstOfChecks
<1>5. FirstOf(checks) = "none" => ~checks[1][1]
  BY <1>4
<1> QED BY <1>2, <1>3, <1>4, <1>5

\* add_friend goes on only with a POST of a user who is logged in.
LEMMA add_friend_refusal ==
    ASSUME NEW method, NEW sid, NEW path
    PROVE  /\ add_friend_refuses(method, sid, path) \in Refusals \cup {"none"}
           /\ add_friend_refuses(method, sid, path) = "none" =>
                 method = "POST" /\ sid \notin {NoCookie, NotFound}
<1> DEFINE checks == <<<<method # "POST", "bad_request">>, <<sid = NoCookie, "not_logged_in">>,
                    <<path # "ok", "bad_request">>,
                    <<sid = NotFound, "unknown_error">>>>
<1>1. DOMAIN checks = 1..4 /\ \A i \in 1..4 : checks[i][2] \in Refusals
  BY DEF Refusals, Replies
<1>2. add_friend_refuses(method, sid, path) = FirstOf(checks)
  BY DEF add_friend_refuses
<1>3. /\ checks[1][1] = (method # "POST")
      /\ checks[2][1] = (sid = NoCookie)
      /\ checks[4][1] = (sid = NotFound)
  OBVIOUS
<1> HIDE DEF checks
<1>4. /\ FirstOf(checks) \in Refusals \cup {"none"}
      /\ FirstOf(checks) = "none" => \A i \in 1..4 : ~checks[i][1]
  BY <1>1, FirstOfChecks
<1>5. FirstOf(checks) = "none" => ~checks[1][1] /\ ~checks[2][1] /\ ~checks[4][1]
  BY <1>4
<1> QED BY <1>2, <1>3, <1>4, <1>5

\* So does remove_friend.
LEMMA remove_friend_refusal ==
    ASSUME NEW method, NEW sid, NEW path
    PROVE  /\ remove_friend_refuses(method, sid, path) \in Refusals \cup {"none"}
           /\ remove_friend_refuses(method, sid, path) = "none" =>
                 method = "POST" /\ sid \notin {NoCookie, NotFound}
<1> DEFINE checks == <<<<method # "POST", "bad_request">>, <<sid = NoCookie, "not_logged_in">>,
                    <<path # "ok", "bad_request">>,
                    <<sid = NotFound, "unknown_error">>>>
<1>1. DOMAIN checks = 1..4 /\ \A i \in 1..4 : checks[i][2] \in Refusals
  BY DEF Refusals, Replies
<1>2. remove_friend_refuses(method, sid, path) = FirstOf(checks)
  BY DEF remove_friend_refuses
<1>3. /\ checks[1][1] = (method # "POST")
      /\ checks[2][1] = (sid = NoCookie)
      /\ checks[4][1] = (sid = NotFound)
  OBVIOUS
<1> HIDE DEF checks
<1>4. /\ FirstOf(checks) \in Refusals \cup {"none"}
      /\ FirstOf(checks) = "none" => \A i \in 1..4 : ~checks[i][1]
  BY <1>1, FirstOfChecks
<1>5. FirstOf(checks) = "none" => ~checks[1][1] /\ ~checks[2][1] /\ ~checks[4][1]
  BY <1>4
<1> QED BY <1>2, <1>3, <1>4, <1>5

\* A page is shown only to a user who is logged in.
LEMMA user_refusal ==
    ASSUME NEW method, NEW sid, NEW path, NEW json
    PROVE  /\ user_refuses(method, sid, path, json) \in Refusals \cup {"none"}
           /\ user_refuses(method, sid, path, json) = "none" =>
                 sid \notin {NoCookie, NotFound}
<1> DEFINE checks == <<<<path = "malformed", IF json THEN "bad_request" ELSE "redirect">>,
                    <<~json, "soft_redirect">>, <<method = "POST", "bad_request">>,
                    <<sid = NoCookie, "not_logged_in">>, <<path = "other", "redirect">>,
                    <<sid = NotFound, "redirect">>>>
<1>1. DOMAIN checks = 1..6 /\ \A i \in 1..6 : checks[i][2] \in Refusals
  BY DEF Refusals, Replies
<1>2. user_refuses(method, sid, path, json) = FirstOf(checks)
  BY DEF user_refuses
<1>3. /\ checks[4][1] = (sid = NoCookie)
      /\ checks[6][1] = (sid = NotFound)
  OBVIOUS
<1> HIDE DEF checks
<1>4. /\ FirstOf(checks) \in Refusals \cup {"none"}
      /\ FirstOf(checks) = "none" => \A i \in 1..6 : ~checks[i][1]
  BY <1>1, FirstOfChecks
<1>5. FirstOf(checks) = "none" => ~checks[4][1] /\ ~checks[6][1]
  BY <1>4
<1> QED BY <1>2, <1>3, <1>4, <1>5

\* So is the list of users.
LEMMA users_refusal ==
    ASSUME NEW method, NEW sid, NEW json
    PROVE  /\ users_refuses(method, sid, json) \in Refusals \cup {"none"}
           /\ users_refuses(method, sid, json) = "none" => sid \notin {NoCookie, NotFound}
<1> DEFINE checks == <<<<~json, "soft_redirect">>, <<method = "POST", "bad_request">>,
                    <<sid = NoCookie, "not_logged_in">>, <<sid = NotFound, "unknown_error">>>>
<1>1. DOMAIN checks = 1..4 /\ \A i \in 1..4 : checks[i][2] \in Refusals
  BY DEF Refusals, Replies
<1>2. users_refuses(method, sid, json) = FirstOf(checks)
  BY DEF users_refuses
<1>3. /\ checks[3][1] = (sid = NoCookie)
      /\ checks[4][1] = (sid = NotFound)
  OBVIOUS
<1> HIDE DEF checks
<1>4. /\ FirstOf(checks) \in Refusals \cup {"none"}
      /\ FirstOf(checks) = "none" => \A i \in 1..4 : ~checks[i][1]
  BY <1>1, FirstOfChecks
<1>5. FirstOf(checks) = "none" => ~checks[3][1] /\ ~checks[4][1]
  BY <1>4
<1> QED BY <1>2, <1>3, <1>4, <1>5

\* Only who is logged in can log out.
LEMMA logout_refusal ==
    ASSUME NEW method, NEW sid
    PROVE  /\ logout_refuses(method, sid) \in Refusals \cup {"none"}
           /\ logout_refuses(method, sid) = "none" => sid \notin {NoCookie, NotFound}
<1> DEFINE checks == <<<<method # "POST", "soft_redirect">>, <<sid = NoCookie, "not_logged_in">>,
                    <<sid = NotFound, "unknown_error">>>>
<1>1. DOMAIN checks = 1..3 /\ \A i \in 1..3 : checks[i][2] \in Refusals
  BY DEF Refusals, Replies
<1>2. logout_refuses(method, sid) = FirstOf(checks)
  BY DEF logout_refuses
<1>3. /\ checks[2][1] = (sid = NoCookie)
      /\ checks[3][1] = (sid = NotFound)
  OBVIOUS
<1> HIDE DEF checks
<1>4. /\ FirstOf(checks) \in Refusals \cup {"none"}
      /\ FirstOf(checks) = "none" => \A i \in 1..3 : ~checks[i][1]
  BY <1>1, FirstOfChecks
<1>5. FirstOf(checks) = "none" => ~checks[2][1] /\ ~checks[3][1]
  BY <1>4
<1> QED BY <1>2, <1>3, <1>4, <1>5

-----------------------------------------------------------------------------
(* Lists of friends *)

\* A list that is not there holds nobody; $push adds one.
LEMMA OccurrencesType ==
    ASSUME NEW S, NEW s \in Seq(S), NEW x
    PROVE  Occurrences(s, x) \in Nat /\ IsFiniteSet({i \in DOMAIN s : s[i] = x})
<1>1. IsFiniteSet(1..Len(s))
  BY FS_Interval
<1>2. {i \in DOMAIN s : s[i] = x} \in SUBSET (1..Len(s))
  OBVIOUS
<1>3. IsFiniteSet({i \in DOMAIN s : s[i] = x})
  BY <1>1, <1>2, FS_Subset
<1> QED BY <1>3, FS_CardinalityType DEF Occurrences

LEMMA OccurrencesNone ==
    ASSUME NEW s, NEW x, \A i \in DOMAIN s : s[i] # x
    PROVE  Occurrences(s, x) = 0
<1>1. {i \in DOMAIN s : s[i] = x} = {}
  OBVIOUS
<1> QED BY <1>1, FS_EmptySet DEF Occurrences

LEMMA OccurrencesPush ==
    ASSUME NEW S, NEW s \in Seq(S), NEW y \in S, NEW x
    PROVE  Occurrences(Append(s, y), x) = Occurrences(s, x) + (IF x = y THEN 1 ELSE 0)
<1> DEFINE places(t) == {i \in DOMAIN t : t[i] = x}
<1>0. /\ Append(s, y) \in Seq(S) /\ Len(Append(s, y)) = Len(s) + 1 /\ Len(s) \in Nat
      /\ \A i \in 1..Len(s) : Append(s, y)[i] = s[i]
      /\ Append(s, y)[Len(s) + 1] = y
  OBVIOUS
<1>1. IsFiniteSet(places(s)) /\ Cardinality(places(s)) \in Nat
  BY OccurrencesType, FS_CardinalityType
<1>2. CASE x = y
  <2>1. places(Append(s, y)) = places(s) \cup {Len(s) + 1}
    BY <1>0, <1>2
  <2>2. Len(s) + 1 \notin places(s)
    OBVIOUS
  <2> HIDE DEF places
  <2>3. Cardinality(places(Append(s, y))) = Cardinality(places(s)) + 1
    BY <1>1, <2>1, <2>2, FS_AddElement
  <2> QED BY <1>2, <2>3 DEF Occurrences, places
<1>3. CASE x # y
  <2>1. places(Append(s, y)) = places(s)
    BY <1>0, <1>3
  <2>2. Occurrences(Append(s, y), x) = Occurrences(s, x)
    BY <2>1 DEF Occurrences
  <2>3. Occurrences(s, x) \in Nat
    BY <1>1 DEF Occurrences
  <2> QED BY <1>3, <2>2, <2>3
<1> QED BY <1>2, <1>3

\* What is left of a list without its head.
LEMMA TailOf ==
    ASSUME NEW S, NEW s \in Seq(S), s # <<>>
    PROVE  Tail(s) \in Seq(S)
OBVIOUS

\* $pop leaves those that were there.
LEMMA PopOf ==
    ASSUME NEW S, NEW s \in Seq(S)
    PROVE  /\ Pop(s) \in Seq(S)
           /\ \A i \in DOMAIN Pop(s) : i \in DOMAIN s /\ Pop(s)[i] = s[i]
<1>1. CASE s = <<>>
  BY <1>1 DEF Pop
<1>2. CASE s # <<>>
  <2>1. Len(s) - 1 \in Nat /\ Len(s) - 1 <= Len(s)
    BY <1>2
  <2>2. Pop(s) = [i \in 1..Len(s) - 1 |-> s[i]]
    BY <1>2, <2>1 DEF Pop
  <2> HIDE DEF Pop
  <2> QED BY <2>1, <2>2
<1> QED BY <1>1, <1>2

\* What an update makes of a list.
LEMMA ChangedOf ==
    ASSUME NEW S, NEW s \in Seq(S), NEW u \in S, NEW op
    PROVE  /\ Changed(op, s, u) \in Seq(S)
           /\ \A i \in DOMAIN Changed(op, s, u) :
                 Changed(op, s, u)[i] = u \/ \E k \in DOMAIN s : Changed(op, s, u)[i] = s[k]
<1>1. CASE op = "add"
  BY <1>1 DEF Changed
<1>2. CASE op # "add"
  BY <1>2, PopOf DEF Changed
<1> QED BY <1>1, <1>2

-----------------------------------------------------------------------------
(* Steps that leave the accounts and the friends alone *)

\* Nobody is registered, and who is keeps his account and his friends.
SameAccounts ==
    /\ Registered' = Registered
    /\ \A u \in Users \ Registered : users'[u] = users[u]
    /\ \A u \in Registered :
          /\ users'[u].email = users[u].email /\ users'[u].ref = users[u].ref
          /\ users'[u].friends = users[u].friends /\ users'[u].friend_of = users[u].friend_of

LEMMA UnchangedAccounts ==
    ASSUME UNCHANGED users
    PROVE  SameAccounts
BY DEF SameAccounts, Registered

\* What a worker relies on stays true.
LEMMA FactsStay ==
    ASSUME IInv, NEW step, NEW j, JobFacts(step, j), SameAccounts, UNCHANGED popped
    PROVE  JobFacts(step, j)'
<1>1. Registered' = Registered /\ Registered \subseteq Users
  BY DEF SameAccounts, Registered
<1>2. step \in {"ref", "insert"} => users'[j.user] = NoDoc
  BY DEF JobFacts, SameAccounts, Registered
<1> QED BY <1>1, <1>2 DEF JobFacts, SameAccounts

\* A worker that goes on to a step with a job that fits it.
LEMMA AccountsStep ==
    ASSUME IInv, NEW w \in Workers, NEW step \in Steps, NEW j \in JobType,
           pc' = [pc EXCEPT ![w] = step], job' = [job EXCEPT ![w] = j],
           SameAccounts, UNCHANGED popped, TypeOK',
           JobFacts(step, j), pc[w] # "own", step # "own",
           step \in {"ref", "insert"} => \A v \in Workers \ {w} :
              pc[v] \in {"ref", "insert"} => job[v].user # j.user,
           dead' = dead \/ (dead' = dead \cup {w} /\ step = "idle"), w \notin dead
    PROVE  IInv'
<1>0. /\ pc \in [Workers -> Steps] /\ job \in [Workers -> JobType]
      /\ Registered' = Registered /\ Registered \subseteq Users
  BY DEF IInv, TypeOK, SameAccounts, Registered
<1>1. JobInv'
  <2> SUFFICES ASSUME NEW v \in Workers PROVE JobFacts(pc[v], job[v])'
    BY DEF JobInv
  <2>1. CASE v = w
    <3>1. pc'[v] = step /\ job'[v] = j
      BY <1>0, <2>1
    <3> QED BY <1>0, <3>1, FactsStay
  <2>2. CASE v # w
    <3>1. pc'[v] = pc[v] /\ job'[v] = job[v] /\ JobFacts(pc[v], job[v])
      BY <1>0, <2>2 DEF IInv, JobInv
    <3>2. pc[v] \in Steps /\ job[v] \in JobType
      BY <1>0
    <3> QED BY <1>0, <3>1, <3>2, FactsStay
  <2> QED BY <2>1, <2>2
<1>2. WorkersInv'
  BY <1>0 DEF IInv, WorkersInv
<1>3. UsersInv'
  BY <1>0 DEF IInv, UsersInv, SameAccounts
<1>4. HalvesAgree'
  <2> SUFFICES ASSUME NEW u, NEW f
               PROVE  {v \in Workers : pc[v] = "own" /\ job[v].user = u /\ job[v].found = f}' =
                      {v \in Workers : pc[v] = "own" /\ job[v].user = u /\ job[v].found = f}
    BY <1>0 DEF IInv, HalvesAgree, SameAccounts
  <2> QED BY <1>0
<1> QED BY <1>1, <1>2, <1>3, <1>4 DEF IInv

LEMMA QuietStep ==
    ASSUME IInv, NEW w \in Workers, NEW step \in Steps, NEW j \in JobType,
           pc' = [pc EXCEPT ![w] = step], job' = [job EXCEPT ![w] = j],
           UNCHANGED <<users, popped>>, TypeOK',
           JobFacts(step, j), pc[w] # "own", step # "own",
           step \in {"ref", "insert"} => \A v \in Workers \ {w} :
              pc[v] \in {"ref", "insert"} => job[v].user # j.user,
           dead' = dead \/ (dead' = dead \cup {w} /\ step = "idle"), w \notin dead
    PROVE  IInv'
BY AccountsStep, UnchangedAccounts

\* The job of a worker that has none, and one with nothing but its answer.
LEMMA NoJobIsJob == NoJob \in JobType
<1>1. <<>> \in Seq(Users) /\ <<>> \in Seq(Nat \ {0})
  OBVIOUS
<1>2. /\ "login" \in Ops /\ "POST" \in Methods /\ "ok" \in Forms /\ "none" \in Replies
      /\ 0 \in Int
  BY DEF Ops, Methods, Forms, Replies
<1> QED BY <1>1, <1>2 DEF NoJob, JobType

LEMMA NoJobType ==
    ASSUME NEW r \in Replies
    PROVE  [NoJob EXCEPT !.reply = r] \in JobType
BY NoJobIsJob DEF JobType

\* An answer, but for a registration that succeeded.
LEMMA AnswerAccountsStep ==
    ASSUME IInv, NEW w \in Workers, NEW j, NEW r \in Replies, Answer(w, j, r),
           r = "ok" => j.op # "register", pc[w] # "own", w \notin dead,
           SameAccounts, users' \in [Users -> DocType \cup {NoDoc}],
           UNCHANGED <<dead, popped>>,
           changes' \in 0..MaxChanges
    PROVE  IInv'
<1>1. PICK new \in JobType : new = [NoJob EXCEPT !.reply = r]
  BY NoJobType
<1>2. pc' = [pc EXCEPT ![w] = "reply"] /\ job' = [job EXCEPT ![w] = new]
  BY <1>1 DEF Answer, Goto
<1>3. TypeOK'
  BY <1>2 DEF IInv, TypeOK, Steps
<1>4. new.op = "login"
  BY <1>1 DEF NoJob
<1>5. JobFacts("reply", new)
  BY <1>4 DEF JobFacts
<1>6. "reply" \in Steps
  BY DEF Steps
<1> QED BY <1>2, <1>3, <1>5, <1>6, AccountsStep

LEMMA AnswerStep ==
    ASSUME IInv, NEW w \in Workers, NEW j, NEW r \in Replies, Answer(w, j, r),
           r = "ok" => j.op # "register", pc[w] # "own", w \notin dead,
           UNCHANGED <<users, dead, popped>>,
           changes' \in 0..MaxChanges
    PROVE  IInv'
<1>1. users' \in [Users -> DocType \cup {NoDoc}]
  BY DEF IInv, TypeOK
<1> QED BY <1>1, AnswerAccountsStep, UnchangedAccounts

\* A request is refused, or begins with a job that fits its first step.
LEMMA TakeStep ==
    ASSUME IInv, NEW w \in Workers, NEW j, NEW refusal \in Refusals \cup {"none"},
           NEW step \in {"ref", "start", "visit", "finish"},
           Take(w, j, refusal, step),
           changes' \in 0..MaxChanges,
           refusal = "none" =>
              /\ j \in JobType /\ JobFacts(step, j)
              /\ step = "ref" => \A v \in Workers \ {w} :
                    pc[v] \in {"ref", "insert"} => job[v].user # j.user
    PROVE  IInv'
<1>1. pc[w] = "idle" /\ w \notin dead /\ UNCHANGED <<users, dead, popped>>
  BY DEF Take, At
<1>2. CASE refusal # "none"
  <2>1. Answer(w, [NoJob EXCEPT !.op = j.op], refusal) /\ refusal \in Replies /\ refusal # "ok"
    BY <1>2 DEF Take, Refusals
  <2> QED BY <1>1, <2>1, AnswerStep
<1>3. CASE refusal = "none"
  <2>1. pc' = [pc EXCEPT ![w] = step] /\ job' = [job EXCEPT ![w] = j] /\ step \in Steps
    BY <1>3 DEF Take, Goto, Steps
  <2>2. TypeOK'
    BY <1>1, <1>3, <2>1 DEF IInv, TypeOK
  <2> QED BY <1>1, <1>3, <2>1, <2>2, QuietStep
<1> QED BY <1>2, <1>3

\* The requests.
LEMMA RegisterStep ==
    ASSUME IInv, NEW w \in Workers, Register(w)
    PROVE  IInv'
<1>1. PICK m \in Methods, s \in Cookies, f \in Forms, e \in Emails, u \in Users :
         /\ Fresh(u)
         /\ Take(w, [NoJob EXCEPT !.op = "register", !.method = m, !.user = u, !.email = e,
                                  !.form = f, !.left = Attempts],
                 registration_refuses(m, s), "ref")
         /\ UNCHANGED changes
  BY DEF Register
<1>2. PICK j \in JobType : j = [NoJob EXCEPT !.op = "register", !.method = m, !.user = u,
                                             !.email = e, !.form = f, !.left = Attempts]
  <2>1. Attempts \in Int /\ u \in Users \cup {Nobody} /\ e \in Emails \cup {Nobody}
        /\ f \in Forms /\ "register" \in Ops
    BY FriendsAssumption DEF Ops
  <2> QED BY <2>1, NoJobIsJob DEF JobType
<1>3. /\ j.op = "register" /\ j.user = u /\ j.email = e /\ j.method = m
  BY <1>2 DEF NoJob
<1>4. registration_refuses(m, s) = "none" => JobFacts("ref", j)
  <2>1. registration_refuses(m, s) = "none" => m = "POST"
    BY DEF registration_refuses
  <2> QED BY <1>1, <1>3, <2>1 DEF JobFacts, Fresh, Registered
<1>5. \A v \in Workers \ {w} : pc[v] \in {"ref", "insert"} => job[v].user # j.user
  BY <1>1, <1>3 DEF Fresh, IInv, WorkersInv
<1>6. registration_refuses(m, s) \in Refusals \cup {"none"}
  BY DEF registration_refuses, Refusals, Replies
<1>7. changes' \in 0..MaxChanges
  BY <1>1 DEF IInv, TypeOK
<1>8. PICK refusal \in Refusals \cup {"none"} :
         refusal = registration_refuses(m, s) /\ Take(w, j, refusal, "ref")
  BY <1>1, <1>2, <1>6
<1> QED BY <1>4, <1>5, <1>7, <1>8, TakeStep

LEMMA LoginStep ==
    ASSUME IInv, NEW w \in Workers, Login(w)
    PROVE  IInv'
<1>1. PICK m \in Methods, s \in Cookies, f \in Forms, e \in Emails :
         /\ Take(w, [NoJob EXCEPT !.method = m, !.email = e, !.form = f],
                 login_refuses(m, s, f), "start")
         /\ UNCHANGED changes
  BY DEF Login
<1>2. PICK j \in JobType : j = [NoJob EXCEPT !.method = m, !.email = e, !.form = f]
  BY NoJobIsJob DEF JobType
<1>3. login_refuses(m, s, f) = "none" => JobFacts("start", j)
  <2>1. j.op = "login" /\ j.method = m
    BY <1>2 DEF NoJob
  <2> QED BY <2>1, login_refusal DEF JobFacts
<1>4. changes' \in 0..MaxChanges
  BY <1>1 DEF IInv, TypeOK
<1> QED BY <1>1, <1>2, <1>3, <1>4, login_refusal, TakeStep

\* Who is logged in is registered, and his request begins with what his session needs.
LEMMA SessionRequestStep ==
    ASSUME IInv, NEW w \in Workers, NEW op \in {"add", "remove", "user", "users", "logout"},
           NEW m \in Methods, NEW s \in Cookies, NEW u \in Holders(s),
           NEW r \in Refs \cup {NoRef}, NEW refusal \in Refusals \cup {"none"},
           refusal = "none" =>
              /\ s \notin {NoCookie, NotFound}
              /\ op \in {"add", "remove"} => m = "POST",
           NEW step \in {"visit", "finish"}, op = "logout" => step = "finish",
           Take(w, SessionJob(op, m, u, r), refusal, step), changes' \in 0..MaxChanges
    PROVE  IInv'
<1>0. PICK j : j = SessionJob(op, m, u, r)
  OBVIOUS
<1>1. ASSUME refusal = "none" PROVE j \in JobType /\ JobFacts(step, j)
  <2>1. u \in Registered /\ u \in Users
    BY <1>1 DEF Cookies, Holders, Registered
  <2>2. j \in JobType
    BY <1>0, <2>1, NoJobIsJob DEF JobType, Ops, SessionJob
  <2>3. j.user = u /\ j.method = m /\ j.op = op /\ j.sample = <<>>
    BY <1>0, <2>1 DEF NoJob, SessionJob
  <2> QED BY <1>1, <2>1, <2>2, <2>3 DEF JobFacts
<1>2. step \in {"ref", "start", "visit", "finish"}
  OBVIOUS
<1> QED BY <1>0, <1>1, <1>2, TakeStep

LEMMA ContinueIs ==
    ASSUME NEW s
    PROVE  Continue(s) \in {"visit", "finish"}
BY DEF Continue

LEMMA AddFriendStep ==
    ASSUME IInv, NEW w \in Workers, AddFriend(w)
    PROVE  IInv'
<1>0. PICK m \in Methods, s \in Cookies, p \in Paths : \E u \in Holders(s), r \in RefsIn(p) :
         /\ changes < MaxChanges
         /\ Take(w, SessionJob("add", m, u, r),
                 add_friend_refuses(m, s, p), Continue(s))
         /\ changes' = changes + (IF pc'[w] = "visit" THEN 1 ELSE 0)
  BY DEF AddFriend
<1>1. PICK u \in Holders(s), r \in RefsIn(p) :
         /\ changes < MaxChanges
         /\ Take(w, SessionJob("add", m, u, r),
                 add_friend_refuses(m, s, p), Continue(s))
         /\ changes' = changes + (IF pc'[w] = "visit" THEN 1 ELSE 0)
  BY <1>0
<1>2. changes' \in 0..MaxChanges /\ r \in Refs \cup {NoRef}
  BY <1>1, FriendsAssumption DEF IInv, TypeOK, RefsIn
<1>3. PICK refusal \in Refusals \cup {"none"} :
         /\ refusal = add_friend_refuses(m, s, p)
         /\ refusal = "none" => m = "POST" /\ s \notin {NoCookie, NotFound}
  BY add_friend_refusal
<1>4. PICK step \in {"visit", "finish"} : Take(w, SessionJob("add", m, u, r), refusal, step)
  BY <1>1, <1>3, ContinueIs
<1>5. /\ "add" \in {"add", "remove", "user", "users", "logout"}
      /\ refusal = "none" => /\ s \notin {NoCookie, NotFound}
                             /\ "add" \in {"add", "remove"} => m = "POST"
      /\ "add" = "logout" => step = "finish"
  BY <1>3
<1> QED BY <1>0, <1>1, <1>2, <1>3, <1>4, <1>5, SessionRequestStep

LEMMA RemoveFriendStep ==
    ASSUME IInv, NEW w \in Workers, RemoveFriend(w)
    PROVE  IInv'
<1>0. PICK m \in Methods, s \in Cookies, p \in Paths : \E u \in Holders(s), r \in RefsIn(p) :
         /\ changes < MaxChanges
         /\ Take(w, SessionJob("remove", m, u, r),
                 remove_friend_refuses(m, s, p), Continue(s))
         /\ changes' = changes + (IF pc'[w] = "visit" THEN 1 ELSE 0)
  BY DEF RemoveFriend
<1>1. PICK u \in Holders(s), r \in RefsIn(p) :
         /\ changes < MaxChanges
         /\ Take(w, SessionJob("remove", m, u, r),
                 remove_friend_refuses(m, s, p), Continue(s))
         /\ changes' = changes + (IF pc'[w] = "visit" THEN 1 ELSE 0)
  BY <1>0
<1>2. changes' \in 0..MaxChanges /\ r \in Refs \cup {NoRef}
  BY <1>1, FriendsAssumption DEF IInv, TypeOK, RefsIn
<1>3. PICK refusal \in Refusals \cup {"none"} :
         /\ refusal = remove_friend_refuses(m, s, p)
         /\ refusal = "none" => m = "POST" /\ s \notin {NoCookie, NotFound}
  BY remove_friend_refusal
<1>4. PICK step \in {"visit", "finish"} : Take(w, SessionJob("remove", m, u, r), refusal, step)
  BY <1>1, <1>3, ContinueIs
<1>5. /\ "remove" \in {"add", "remove", "user", "users", "logout"}
      /\ refusal = "none" => /\ s \notin {NoCookie, NotFound}
                             /\ "remove" \in {"add", "remove"} => m = "POST"
      /\ "remove" = "logout" => step = "finish"
  BY <1>3
<1> QED BY <1>0, <1>1, <1>2, <1>3, <1>4, <1>5, SessionRequestStep

LEMMA UserPageStep ==
    ASSUME IInv, NEW w \in Workers, UserPage(w)
    PROVE  IInv'
<1>0. PICK m \in Methods, s \in Cookies, p \in Paths, json \in BOOLEAN :
           \E u \in Holders(s), r \in RefsIn(p) :
         /\ Take(w, SessionJob("user", m, u, r),
                 user_refuses(m, s, p, json), Continue(s))
         /\ UNCHANGED changes
  BY DEF UserPage
<1>1. PICK u \in Holders(s), r \in RefsIn(p) :
         /\ Take(w, SessionJob("user", m, u, r),
                 user_refuses(m, s, p, json), Continue(s))
         /\ UNCHANGED changes
  BY <1>0
<1>2. changes' \in 0..MaxChanges /\ r \in Refs \cup {NoRef}
  BY <1>1 DEF IInv, TypeOK, RefsIn
<1>3. PICK refusal \in Refusals \cup {"none"} :
         /\ refusal = user_refuses(m, s, p, json)
         /\ refusal = "none" => s \notin {NoCookie, NotFound}
  BY user_refusal
<1>4. PICK step \in {"visit", "finish"} : Take(w, SessionJob("user", m, u, r), refusal, step)
  BY <1>1, <1>3, ContinueIs
<1>5. /\ "user" \in {"add", "remove", "user", "users", "logout"}
      /\ refusal = "none" => /\ s \notin {NoCookie, NotFound}
                             /\ "user" \in {"add", "remove"} => m = "POST"
      /\ "user" = "logout" => step = "finish"
  BY <1>3
<1> QED BY <1>0, <1>1, <1>2, <1>3, <1>4, <1>5, SessionRequestStep

LEMMA ListUsersStep ==
    ASSUME IInv, NEW w \in Workers, ListUsers(w)
    PROVE  IInv'
<1>0. PICK m \in Methods, s \in Cookies, json \in BOOLEAN : \E u \in Holders(s) :
         /\ Take(w, SessionJob("users", m, u, NoRef),
                 users_refuses(m, s, json), Continue(s))
         /\ UNCHANGED changes
  BY DEF ListUsers
<1>1. PICK u \in Holders(s) :
         /\ Take(w, SessionJob("users", m, u, NoRef),
                 users_refuses(m, s, json), Continue(s))
         /\ UNCHANGED changes
  BY <1>0
<1>2. changes' \in 0..MaxChanges
  BY <1>1 DEF IInv, TypeOK
<1>3. PICK refusal \in Refusals \cup {"none"} :
         /\ refusal = users_refuses(m, s, json)
         /\ refusal = "none" => s \notin {NoCookie, NotFound}
  BY users_refusal
<1>4. PICK step \in {"visit", "finish"} : Take(w, SessionJob("users", m, u, NoRef), refusal, step)
  BY <1>1, <1>3, ContinueIs
<1>5. /\ "users" \in {"add", "remove", "user", "users", "logout"}
      /\ refusal = "none" => /\ s \notin {NoCookie, NotFound}
                             /\ "users" \in {"add", "remove"} => m = "POST"
      /\ "users" = "logout" => step = "finish"
  BY <1>3
<1> QED BY <1>0, <1>1, <1>2, <1>3, <1>4, <1>5, SessionRequestStep

LEMMA LogoutStep ==
    ASSUME IInv, NEW w \in Workers, Logout(w)
    PROVE  IInv'
<1>0. PICK m \in Methods, s \in Cookies : \E u \in Holders(s) :
         /\ Take(w, SessionJob("logout", m, u, NoRef),
                 logout_refuses(m, s), "finish")
         /\ UNCHANGED changes
  BY DEF Logout
<1>1. PICK u \in Holders(s) :
         /\ Take(w, SessionJob("logout", m, u, NoRef),
                 logout_refuses(m, s), "finish")
         /\ UNCHANGED changes
  BY <1>0
<1>2. changes' \in 0..MaxChanges
  BY <1>1 DEF IInv, TypeOK
<1>3. PICK refusal \in Refusals \cup {"none"} :
         /\ refusal = logout_refuses(m, s)
         /\ refusal = "none" => s \notin {NoCookie, NotFound}
  BY logout_refusal
<1>4. Take(w, SessionJob("logout", m, u, NoRef), refusal, "finish")
  BY <1>1, <1>3
<1>5. /\ "logout" \in {"add", "remove", "user", "users", "logout"}
      /\ refusal = "none" => /\ s \notin {NoCookie, NotFound}
                             /\ "logout" \in {"add", "remove"} => m = "POST"
      /\ "logout" = "logout" => "finish" = "finish"
  BY <1>3
<1> QED BY <1>0, <1>1, <1>2, <1>3, <1>4, <1>5, SessionRequestStep

\* What a worker that is at a step knows of its job.
LEMMA AtStep ==
    ASSUME IInv, NEW w \in Workers, NEW step, At(w, step)
    PROVE  /\ pc[w] = step /\ w \notin dead /\ job[w] \in JobType /\ JobFacts(step, job[w])
           /\ changes \in 0..MaxChanges
BY DEF At, IInv, TypeOK, JobInv

\* A free ref, another attempt, or none is left.
LEMMA DrawRefStep ==
    ASSUME IInv, NEW w \in Workers, DrawRef(w)
    PROVE  IInv'
<1> PICK r \in Refs, left \in Int :
       /\ left = job[w].left - 1
       /\ \/ /\ job' = [job EXCEPT ![w].ref = r, ![w].left = left]
             /\ Goto(w, "insert")
          \/ /\ job' = [job EXCEPT ![w].left = left]
             /\ Goto(w, "ref")
          \/ Answer(w, job[w], "unknown_error")
  BY AtStep DEF DrawRef, JobType
<1>1. /\ pc[w] = "ref" /\ w \notin dead /\ job[w] \in JobType /\ JobFacts("ref", job[w])
      /\ UNCHANGED <<users, dead, popped, changes>>
      /\ changes \in 0..MaxChanges
      /\ job \in [Workers -> JobType]
  BY AtStep DEF DrawRef, IInv, TypeOK
<1>2. \A v \in Workers \ {w} : pc[v] \in {"ref", "insert"} => job[v].user # job[w].user
  BY <1>1 DEF IInv, WorkersInv
<1>3. CASE Answer(w, job[w], "unknown_error")
  BY <1>1, <1>3, AnswerStep DEF Replies
<1>4. CASE job' = [job EXCEPT ![w].ref = r, ![w].left = left] /\ Goto(w, "insert")
  <2>1. PICK j \in JobType : j = [job[w] EXCEPT !.ref = r, !.left = left]
    BY <1>1 DEF JobType
  <2>2. /\ j.op = job[w].op /\ j.method = job[w].method /\ j.user = job[w].user
        /\ j.email = job[w].email /\ j.ref = r
    BY <1>1, <2>1 DEF JobType
  <2>3. job' = [job EXCEPT ![w] = j] /\ pc' = [pc EXCEPT ![w] = "insert"]
    BY <1>1, <1>4, <2>1 DEF Goto
  <2>4. JobFacts("insert", j)
    BY <1>1, <2>2 DEF JobFacts
  <2>5. TypeOK' /\ "insert" \in Steps
    BY <1>1, <2>3 DEF IInv, TypeOK, Steps
  <2> QED BY <1>1, <1>2, <2>2, <2>3, <2>4, <2>5, QuietStep
<1>5. CASE job' = [job EXCEPT ![w].left = left] /\ Goto(w, "ref")
  <2>1. PICK j \in JobType : j = [job[w] EXCEPT !.left = left]
    BY <1>1 DEF JobType
  <2>2. /\ j.op = job[w].op /\ j.method = job[w].method /\ j.user = job[w].user
        /\ j.email = job[w].email
    BY <1>1, <2>1 DEF JobType
  <2>3. job' = [job EXCEPT ![w] = j] /\ pc' = [pc EXCEPT ![w] = "ref"]
    BY <1>1, <1>5, <2>1 DEF Goto
  <2>4. JobFacts("ref", j)
    BY <1>1, <2>2 DEF JobFacts
  <2>5. TypeOK' /\ "ref" \in Steps
    BY <1>1, <2>3 DEF IInv, TypeOK, Steps
  <2> QED BY <1>1, <1>2, <2>2, <2>3, <2>4, <2>5, QuietStep
<1> QED BY <1>3, <1>4, <1>5

\* A session is to be started for the account with this e-mail: after a registration it
\* is the one that was inserted, as an e-mail has one user.
LEMMA StartSessionStep ==
    ASSUME IInv, NEW w \in Workers, StartSession(w)
    PROVE  IInv'
<1>1. /\ pc[w] = "start" /\ w \notin dead /\ job[w] \in JobType /\ JobFacts("start", job[w])
      /\ UNCHANGED <<users, dead, popped, changes>>
      /\ changes \in 0..MaxChanges
      /\ job \in [Workers -> JobType]
  BY AtStep DEF StartSession, IInv, TypeOK
<1>2. ASSUME NEW u \in WithEmail(job[w].email), job' = [job EXCEPT ![w].found = u],
             Goto(w, "session")
      PROVE  IInv'
  <2>1. /\ u \in Users /\ u \in Registered
        /\ job[w].op = "register" => u = job[w].user
    BY <1>1, <1>2 DEF WithEmail, Registered, JobFacts, IInv, UsersInv
  <2>2. PICK j \in JobType : j = [job[w] EXCEPT !.found = u]
    BY <1>1, <2>1 DEF JobType
  <2>3. /\ j.op = job[w].op /\ j.method = job[w].method /\ j.user = job[w].user
        /\ j.email = job[w].email /\ j.ref = job[w].ref /\ j.found = u
    BY <1>1, <2>2 DEF JobType
  <2>4. job' = [job EXCEPT ![w] = j] /\ pc' = [pc EXCEPT ![w] = "session"]
    BY <1>1, <1>2, <2>2 DEF Goto
  <2>5. JobFacts("session", j)
    BY <1>1, <2>1, <2>3 DEF JobFacts
  <2>6. TypeOK' /\ "session" \in Steps
    BY <1>1, <2>4 DEF IInv, TypeOK, Steps
  <2> QED BY <1>1, <2>4, <2>5, <2>6, QuietStep
<1>3. ASSUME NEW reply \in {"incorrect_logpass", "unknown_error"}, Answer(w, job[w], reply)
      PROVE  IInv'
  BY <1>1, <1>3, AnswerStep DEF Replies
<1> QED BY <1>2, <1>3 DEF StartSession

-----------------------------------------------------------------------------
(* What a session makes a worker write *)

\* A user document is told from none.
LEMMA DocIsNotNone == NoDoc \notin DocType
BY DEF NoDoc, DocType

\* The requester's document with the time of his visit, and his sessions as they may be
\* now.
Visited(u, s) == [users[u] EXCEPT !.sessions = s, !.last_visit_at = TRUE]

\* A visit leaves the accounts and the friends alone.
LEMMA VisitedAccounts ==
    ASSUME IInv, NEW u \in Registered, NEW s \in BOOLEAN,
           users' = [users EXCEPT ![u] = Visited(u, s)]
    PROVE  SameAccounts /\ users' \in [Users -> DocType \cup {NoDoc}]
<1>1. PICK d \in DocType : d = users[u] /\ u \in Users /\ users \in [Users -> DocType \cup {NoDoc}]
  BY DEF IInv, TypeOK, Registered
<1>2. PICK doc \in DocType :
         /\ doc = Visited(u, s) /\ doc # NoDoc
         /\ doc.email = d.email /\ doc.ref = d.ref
         /\ doc.friends = d.friends /\ doc.friend_of = d.friend_of
  <2>1. [d EXCEPT !.sessions = s, !.last_visit_at = TRUE] \in DocType
    BY DEF DocType
  <2> QED BY <1>1, <2>1, DocIsNotNone DEF DocType, Visited
<1>3. users' = [users EXCEPT ![u] = doc]
  BY <1>2
<1>4. users' \in [Users -> DocType \cup {NoDoc}]
  BY <1>1, <1>3
<1>5. Registered' = Registered
  BY <1>1, <1>2, <1>3 DEF Registered
<1>6. SameAccounts
  BY <1>1, <1>2, <1>3, <1>5 DEF SameAccounts, Registered
<1> QED BY <1>4, <1>6

\* The visit of a user whose session is valid.
LEMMA VisitStep ==
    ASSUME IInv, NEW w \in Workers, VisitUser(w)
    PROVE  IInv'
<1>1. /\ pc[w] = "visit" /\ w \notin dead /\ job[w] \in JobType /\ JobFacts("visit", job[w])
      /\ UNCHANGED <<job, dead, popped, changes>>
      /\ users \in [Users -> DocType \cup {NoDoc}] /\ pc \in [Workers -> Steps]
      /\ job \in [Workers -> JobType]
  BY AtStep DEF VisitUser, IInv, TypeOK
<1>2. PICK u \in Registered : u = job[w].user
  BY <1>1 DEF JobFacts
<1>3. PICK s \in BOOLEAN : s = users[u].sessions
  BY <1>1 DEF Registered, DocType
<1>4. users' = [users EXCEPT ![u] = Visited(u, s)]
  <2>1. users[u] = [users[u] EXCEPT !.sessions = s]
    BY <1>1, <1>3 DEF Registered, DocType
  <2>2. [users[u] EXCEPT !.last_visit_at = TRUE] = Visited(u, s)
    BY <1>1, <1>3, <2>1 DEF Visited, Registered, DocType
  <2> QED BY <1>1, <1>2, <2>2 DEF VisitUser
<1>5. SameAccounts /\ users' \in [Users -> DocType \cup {NoDoc}]
  BY <1>4, VisitedAccounts
<1>6. PICK step \in {"friend", "read", "list"} :
         pc' = [pc EXCEPT ![w] = step] /\ JobFacts(step, job[w])
  <2> DEFINE steps == [add |-> "friend", remove |-> "friend", user |-> "read", users |-> "list"]
  <2>1. pc' = [pc EXCEPT ![w] = steps[job[w].op]]
    BY DEF VisitUser, Goto
  <2>2. job[w].op \in {"add", "remove"} => steps[job[w].op] = "friend"
    OBVIOUS
  <2>3. job[w].op = "user" => steps[job[w].op] = "read"
    OBVIOUS
  <2>4. job[w].op = "users" => steps[job[w].op] = "list"
    OBVIOUS
  <2> HIDE DEF steps
  <2>5. CASE job[w].op \in {"add", "remove"}
    <3>1. JobFacts("friend", job[w])
      BY <1>1, <2>5 DEF JobFacts
    <3> QED BY <2>1, <2>2, <2>5, <3>1
  <2>6. CASE job[w].op = "user"
    <3>1. JobFacts("read", job[w])
      BY <1>1, <2>6 DEF JobFacts
    <3> QED BY <2>1, <2>3, <2>6, <3>1
  <2>7. CASE job[w].op = "users"
    <3>1. JobFacts("list", job[w])
      BY <1>1, <2>7 DEF JobFacts
    <3> QED BY <2>1, <2>4, <2>7, <3>1
  <2> QED BY <1>1, <2>5, <2>6, <2>7 DEF JobFacts
<1>7. step \in Steps
  BY DEF Steps
<1>8. TypeOK'
  BY <1>1, <1>5, <1>6, <1>7 DEF IInv, TypeOK
<1>9. job' = [job EXCEPT ![w] = job[w]]
  BY <1>1
<1> QED BY <1>1, <1>5, <1>6, <1>7, <1>8, <1>9, AccountsStep

\* A session is taken out: the request is a logout, or goes on to a new session.
LEMMA FinishSessionStep ==
    ASSUME IInv, NEW w \in Workers, FinishSession(w)
    PROVE  IInv'
<1>1. /\ pc[w] = "finish" /\ w \notin dead /\ job[w] \in JobType /\ JobFacts("finish", job[w])
      /\ UNCHANGED <<dead, popped, changes>> /\ changes \in 0..MaxChanges
      /\ users \in [Users -> DocType \cup {NoDoc}] /\ pc \in [Workers -> Steps]
      /\ job \in [Workers -> JobType]
  BY AtStep DEF FinishSession, IInv, TypeOK
<1>2. job[w].op # "register"
  BY <1>1 DEF JobFacts
<1>3. ASSUME NEW reply \in {"redirect", "unknown_error"}, Answer(w, job[w], reply), UNCHANGED users
      PROVE  IInv'
  BY <1>1, <1>3, AnswerStep DEF Replies
<1>4. ASSUME NEW left \in {users[job[w].user].sessions, FALSE},
             users' = [users EXCEPT ![job[w].user].sessions = left,
                                    ![job[w].user].last_visit_at = TRUE],
             \/ Answer(w, job[w], "ok")
             \/ /\ Goto(w, "session") /\ job[w].op # "logout"
                /\ job' = [job EXCEPT ![w].found = job[w].user, ![w].ref = NoRef]
      PROVE  IInv'
  <2>1. PICK u \in Registered : u = job[w].user
    BY <1>1 DEF JobFacts
  <2>2. u \in Users /\ left \in BOOLEAN
    BY <1>1, <1>4, <2>1 DEF Registered, DocType
  <2>3. users' = [users EXCEPT ![u] = Visited(u, left)]
    BY <1>1, <1>4, <2>1, <2>2 DEF Visited
  <2>4. SameAccounts /\ users' \in [Users -> DocType \cup {NoDoc}]
    BY <2>2, <2>3, VisitedAccounts
  <2>5. CASE Answer(w, job[w], "ok")
    BY <1>1, <1>2, <2>4, <2>5, AnswerAccountsStep DEF Replies
  <2>6. CASE /\ Goto(w, "session") /\ job[w].op # "logout"
             /\ job' = [job EXCEPT ![w].found = job[w].user, ![w].ref = NoRef]
    <3>1. PICK j \in JobType : j = [job[w] EXCEPT !.found = u, !.ref = NoRef]
      BY <1>1, <2>2 DEF JobType
    <3>2. j.op = job[w].op /\ j.method = job[w].method /\ j.user = u /\ j.found = u
      BY <1>1, <2>1, <3>1 DEF JobType
    <3>3. job' = [job EXCEPT ![w] = j] /\ pc' = [pc EXCEPT ![w] = "session"]
      BY <1>1, <2>1, <2>6, <3>1 DEF Goto
    <3>4. JobFacts("session", j)
      BY <1>1, <2>1, <3>2 DEF JobFacts
    <3>5. TypeOK' /\ "session" \in Steps
      BY <1>1, <2>4, <3>3 DEF IInv, TypeOK, Steps
    <3> QED BY <1>1, <2>4, <3>3, <3>4, <3>5, AccountsStep
  <2> QED BY <1>4, <2>5, <2>6
<1> QED BY <1>3, <1>4 DEF FinishSession

\* A session is put in: a login or a registration succeeded.
LEMMA RegisterSessionStep ==
    ASSUME IInv, NEW w \in Workers, RegisterSession(w)
    PROVE  IInv'
<1>1. /\ pc[w] = "session" /\ w \notin dead /\ job[w] \in JobType /\ JobFacts("session", job[w])
      /\ UNCHANGED <<dead, popped, changes>> /\ changes \in 0..MaxChanges
      /\ users \in [Users -> DocType \cup {NoDoc}] /\ pc \in [Workers -> Steps]
      /\ job \in [Workers -> JobType]
  BY AtStep DEF RegisterSession, IInv, TypeOK
<1>2. ASSUME Answer(w, job[w], "unknown_error"), UNCHANGED users PROVE IInv'
  BY <1>1, <1>2, AnswerStep DEF Replies
<1>3. ASSUME users' = [users EXCEPT ![job[w].found].sessions = TRUE,
                                    ![job[w].found].last_visit_at = TRUE],
             \/ Goto(w, "list") /\ UNCHANGED job /\ job[w].op = "users"
             \/ Answer(w, job[w], "ok")
             \/ Answer(w, job[w], "unknown_error")
      PROVE  IInv'
  <2>1. PICK u \in Registered : u = job[w].found /\ u \in Users
    BY <1>1 DEF JobFacts, Registered
  <2>2. users' = [users EXCEPT ![u] = Visited(u, TRUE)]
    BY <1>1, <1>3, <2>1 DEF Visited
  <2>3. SameAccounts /\ users' \in [Users -> DocType \cup {NoDoc}]
    BY <2>2, VisitedAccounts
  <2>4. CASE Answer(w, job[w], "unknown_error")
    BY <1>1, <2>3, <2>4, AnswerAccountsStep DEF Replies
  <2>5. CASE Answer(w, job[w], "ok") /\ job[w].op # "register"
    BY <1>1, <2>3, <2>5, AnswerAccountsStep DEF Replies
  <2>6. CASE Answer(w, job[w], "ok") /\ job[w].op = "register"
    <3>1. PICK j \in JobType : j = [job[w] EXCEPT !.left = 0, !.reply = "ok"]
      <4>1. 0 \in Int /\ "ok" \in Replies
        BY DEF Replies
      <4> QED BY <1>1, <4>1 DEF JobType
    <3>2. /\ j.found = job[w].found /\ j.user = job[w].user /\ j.ref = job[w].ref
      BY <1>1, <3>1 DEF JobType
    <3>3. job' = [job EXCEPT ![w] = j] /\ pc' = [pc EXCEPT ![w] = "reply"]
      BY <2>6, <3>1 DEF Answer, Goto
    <3>4. JobFacts("reply", j)
      BY <1>1, <2>1, <2>6, <3>2 DEF JobFacts
    <3>5. TypeOK' /\ "reply" \in Steps
      BY <1>1, <2>3, <3>3 DEF IInv, TypeOK, Steps
    <3> QED BY <1>1, <2>3, <3>3, <3>4, <3>5, AccountsStep
  <2>7. CASE Goto(w, "list") /\ UNCHANGED job /\ job[w].op = "users"
    <3>1. job' = [job EXCEPT ![w] = job[w]] /\ pc' = [pc EXCEPT ![w] = "list"]
      BY <1>1, <2>7 DEF Goto
    <3>2. JobFacts("list", job[w])
      BY <2>7 DEF JobFacts
    <3>3. TypeOK' /\ "list" \in Steps
      BY <1>1, <2>3, <3>1 DEF IInv, TypeOK, Steps
    <3> QED BY <1>1, <2>3, <3>1, <3>2, <3>3, AccountsStep
  <2> QED BY <1>3, <2>4, <2>5, <2>6, <2>7
<1> QED BY <1>2, <1>3 DEF RegisterSession

-----------------------------------------------------------------------------
(* Pages *)

\* A page is read: there is an index to draw if there is a friend.
LEMMA ReadUserStep ==
    ASSUME IInv, NEW w \in Workers, ReadUser(w)
    PROVE  IInv'
<1>1. /\ pc[w] = "read" /\ w \notin dead /\ job[w] \in JobType /\ JobFacts("read", job[w])
      /\ UNCHANGED <<users, dead, popped, changes>>
      /\ changes \in 0..MaxChanges
      /\ job \in [Workers -> JobType]
  BY AtStep DEF ReadUser, IInv, TypeOK
<1>2. ASSUME NEW u \in Registered, users[u].friends # <<>>,
             job' = [job EXCEPT ![w].list = users[u].friends, ![w].ref = NoRef],
             Goto(w, "draw")
      PROVE  IInv'
  <2>1. PICK list \in Seq(Users) : list = users[u].friends
    BY DEF Registered, IInv, TypeOK, DocType
  <2>2. PICK j \in JobType : j = [job[w] EXCEPT !.list = list, !.ref = NoRef]
    BY <1>1, <2>1 DEF JobType
  <2>3. job' = [job EXCEPT ![w] = j] /\ pc' = [pc EXCEPT ![w] = "draw"]
    BY <1>1, <1>2, <2>1, <2>2 DEF Goto
  <2>4. j.list = list /\ j.sample = <<>> /\ Len(<<>>) = 0 /\ j.op # "register"
    BY <1>1, <2>2 DEF JobType, JobFacts
  <2>5. 0 < SampleSize(list)
    <3>1. Len(list) \in Nat /\ Len(list) > 0
      BY <1>2, <2>1
    <3> QED BY <3>1, FriendsAssumption DEF SampleSize
  <2>6. JobFacts("draw", j)
    BY <2>4, <2>5 DEF JobFacts
  <2>7. TypeOK' /\ "draw" \in Steps
    BY <1>1, <2>3 DEF IInv, TypeOK, Steps
  <2> QED BY <1>1, <2>3, <2>6, <2>7, QuietStep
<1>3. ASSUME NEW reply \in {"ok", "unknown_error"}, Answer(w, job[w], reply)
      PROVE  IInv'
  BY <1>1, <1>3, AnswerStep DEF Replies, JobFacts
<1>4. ASSUME NEW found, found \subseteq Registered,
             \/ found = {} /\ Answer(w, job[w], "unknown_error")
             \/ \E u \in found :
                   \/ users[u].friends = <<>> /\ Answer(w, job[w], "ok")
                   \/ /\ users[u].friends # <<>>
                      /\ job' = [job EXCEPT ![w].list = users[u].friends, ![w].ref = NoRef]
                      /\ Goto(w, "draw")
      PROVE  IInv'
  BY <1>2, <1>3, <1>4
<1>5. WithRef(job[w].ref) \subseteq Registered
  BY DEF WithRef
<1> QED BY <1>4, <1>5 DEF ReadUser

\* Another index is drawn, until there are enough.
LEMMA DrawIndexesStep ==
    ASSUME IInv, NEW w \in Workers, DrawIndexes(w)
    PROVE  IInv'
<1>1. /\ pc[w] = "draw" /\ w \notin dead /\ job[w] \in JobType /\ JobFacts("draw", job[w])
      /\ UNCHANGED <<users, dead, popped, changes>>
      /\ changes \in 0..MaxChanges
      /\ job \in [Workers -> JobType]
  BY AtStep DEF DrawIndexes, IInv, TypeOK
<1>2. PICK sample \in Seq(Nat \ {0}), list \in Seq(Users) :
         sample = job[w].sample /\ list = job[w].list
  BY <1>1 DEF JobType
<1>3. PICK i \in DOMAIN list :
         /\ \A k \in DOMAIN sample : sample[k] # i
         /\ job' = [job EXCEPT ![w].sample = Append(@, i)]
         /\ Goto(w, IF Len(sample) + 1 = SampleSize(list) THEN "look" ELSE "draw")
  BY <1>2 DEF DrawIndexes
<1>a. i \in Nat \ {0}
  BY <1>3
<1>4. PICK more \in Seq(Nat \ {0}) :
         /\ more = Append(sample, i) /\ Len(more) = Len(sample) + 1
         /\ \A k \in 1..Len(sample) : more[k] = sample[k]
         /\ more[Len(sample) + 1] = i
  <2>1. Append(sample, i) \in Seq(Nat \ {0})
    BY <1>a
  <2>2. /\ Len(Append(sample, i)) = Len(sample) + 1 /\ Append(sample, i)[Len(sample) + 1] = i
        /\ \A k \in 1..Len(sample) : Append(sample, i)[k] = sample[k]
    OBVIOUS
  <2> QED BY <2>1, <2>2
<1>5. PICK j \in JobType : j = [job[w] EXCEPT !.sample = more]
  BY <1>1 DEF JobType
<1>6. j.list = list /\ j.sample = more /\ j.op # "register"
  BY <1>1, <1>2, <1>5 DEF JobType, JobFacts
<1>7. job' = [job EXCEPT ![w] = j]
  BY <1>1, <1>2, <1>3, <1>4, <1>5
<1>8. CASE Len(sample) + 1 = SampleSize(list)
  <2>1. pc' = [pc EXCEPT ![w] = "look"]
    BY <1>3, <1>8 DEF Goto
  <2>2. JobFacts("look", j)
    BY <1>6 DEF JobFacts
  <2>3. TypeOK' /\ "look" \in Steps
    BY <1>1, <1>7, <2>1 DEF IInv, TypeOK, Steps
  <2> QED BY <1>1, <1>7, <2>1, <2>2, <2>3, QuietStep
<1>9. CASE Len(sample) + 1 # SampleSize(list)
  <2>1. pc' = [pc EXCEPT ![w] = "draw"]
    BY <1>3, <1>9 DEF Goto
  <2>2. Len(more) < SampleSize(list)
    <3>1. Len(sample) < SampleSize(list)
      BY <1>1, <1>2 DEF JobFacts
    <3>2. Len(sample) \in Nat /\ SampleSize(list) \in Nat
      BY FriendsAssumption DEF SampleSize
    <3> QED BY <1>4, <1>9, <3>1, <3>2
  <2>3. \A k, m \in DOMAIN more : more[k] = more[m] => k = m
    <3>1. \A k, m \in DOMAIN sample : sample[k] = sample[m] => k = m
      BY <1>1, <1>2 DEF JobFacts
    <3>2. DOMAIN sample = 1..Len(sample) /\ DOMAIN more = 1..Len(sample) + 1
      BY <1>4
    <3>3. Len(sample) \in Nat
      OBVIOUS
    <3> QED BY <1>3, <1>4, <3>1, <3>2, <3>3
  <2>4. JobFacts("draw", j)
    BY <1>6, <2>2, <2>3 DEF JobFacts
  <2>5. TypeOK' /\ "draw" \in Steps
    BY <1>1, <1>7, <2>1 DEF IInv, TypeOK, Steps
  <2> QED BY <1>1, <1>7, <2>1, <2>4, <2>5, QuietStep
<1> QED BY <1>8, <1>9

\* The friends drawn are looked up.
LEMMA LookFriendStep ==
    ASSUME IInv, NEW w \in Workers, LookFriend(w)
    PROVE  IInv'
<1>1. /\ pc[w] = "look" /\ w \notin dead /\ job[w] \in JobType /\ JobFacts("look", job[w])
      /\ UNCHANGED <<users, dead, popped, changes>>
      /\ changes \in 0..MaxChanges
      /\ job \in [Workers -> JobType] /\ pc \in [Workers -> Steps]
  BY AtStep DEF LookFriend, IInv, TypeOK
<1>2. ASSUME NEW reply \in {"ok", "unknown_error"}, Answer(w, job[w], reply)
      PROVE  IInv'
  BY <1>1, <1>2, AnswerStep DEF Replies, JobFacts
<1>3. ASSUME Len(job[w].sample) > 1, job' = [job EXCEPT ![w].sample = Tail(@)], UNCHANGED pc
      PROVE  IInv'
  <2>1. PICK rest \in Seq(Nat \ {0}) : rest = Tail(job[w].sample)
    <3>1. PICK sample \in Seq(Nat \ {0}) : sample = job[w].sample
      BY <1>1 DEF JobType
    <3>2. sample # <<>>
      BY <1>3, <3>1
    <3> QED BY <3>1, <3>2, TailOf
  <2>2. PICK j \in JobType : j = [job[w] EXCEPT !.sample = rest]
    BY <1>1 DEF JobType
  <2>3. job' = [job EXCEPT ![w] = j] /\ pc' = [pc EXCEPT ![w] = "look"] /\ j.op # "register"
    BY <1>1, <1>3, <2>1, <2>2 DEF JobType, JobFacts
  <2>4. JobFacts("look", j)
    BY <2>3 DEF JobFacts
  <2>5. TypeOK' /\ "look" \in Steps
    BY <1>1, <2>3 DEF IInv, TypeOK, Steps
  <2> QED BY <1>1, <2>3, <2>4, <2>5, QuietStep
<1> QED BY <1>2, <1>3 DEF LookFriend

\* The list of users is one query.
LEMMA ReadUsersStep ==
    ASSUME IInv, NEW w \in Workers, ReadUsers(w)
    PROVE  IInv'
<1>1. /\ pc[w] = "list" /\ w \notin dead /\ JobFacts("list", job[w])
      /\ UNCHANGED <<users, dead, popped, changes>>
      /\ changes \in 0..MaxChanges
      /\ Answer(w, job[w], "ok")
  BY AtStep DEF ReadUsers
<1> QED BY <1>1, AnswerStep DEF Replies, JobFacts

\* The answer goes out, and the worker is idle; it may die at any step.
LEMMA IdleStep ==
    ASSUME IInv, NEW w \in Workers, Respond(w) \/ Crash(w)
    PROVE  IInv'
<1>1. /\ w \notin dead /\ UNCHANGED <<users, popped, changes>>
      /\ pc \in [Workers -> Steps] /\ job \in [Workers -> JobType] /\ dead \subseteq Workers
  BY DEF Respond, Crash, At, IInv, TypeOK
<1>2. CASE pc' = [pc EXCEPT ![w] = "idle"] /\ job' = [job EXCEPT ![w] = NoJob] /\ pc[w] # "own"
           /\ (dead' = dead \/ dead' = dead \cup {w})
  <2>1. JobFacts("idle", NoJob)
    BY DEF JobFacts
  <2>2. TypeOK' /\ "idle" \in Steps
    BY <1>1, <1>2, NoJobIsJob DEF IInv, TypeOK, Steps
  <2> QED BY <1>1, <1>2, <2>1, <2>2, NoJobIsJob, QuietStep
<1>3. CASE UNCHANGED <<pc, job>> /\ pc[w] = "own" /\ dead' = dead \cup {w}
  <2>1. TypeOK'
    BY <1>1, <1>3 DEF IInv, TypeOK
  <2>2. WorkersInv'
    BY <1>3 DEF IInv, WorkersInv
  <2>3. JobInv' /\ UsersInv' /\ HalvesAgree'
    BY <1>1, <1>3 DEF IInv, JobInv, JobFacts, UsersInv, HalvesAgree, Registered
  <2> QED BY <2>1, <2>2, <2>3 DEF IInv
<1> QED BY <1>2, <1>3 DEF Respond, Crash, At, Goto

-----------------------------------------------------------------------------
(* Steps that change a user *)

\* What a worker relies on is not touched by the step of another one that keeps
\* every user with his e-mail and his ref.
LEMMA OthersStay ==
    ASSUME IInv, NEW v \in Workers, pc'[v] = pc[v], job'[v] = job[v],
           Registered \subseteq Registered',
           \A u \in Registered : users'[u].email = users[u].email /\ users'[u].ref = users[u].ref,
           popped => popped',
           pc[v] \in {"ref", "insert"} => users'[job[v].user] = NoDoc
    PROVE  JobFacts(pc[v], job[v])'
<1>1. JobFacts(pc[v], job[v])
  BY DEF IInv, JobInv
<1> QED BY <1>1 DEF JobFacts

\* Workers that stand between the two halves of u's friendship with f.
Between(u, f) == {v \in Workers : pc[v] = "own" /\ job[v].user = u /\ job[v].found = f}

LEMMA HalvesAgreeBetween ==
    HalvesAgree <=> (popped \/ \A u, f \in Registered :
        Occurrences(users[f].friend_of, u) =
            Occurrences(users[u].friends, f) + Cardinality(Between(u, f)))
BY DEF HalvesAgree, Between

LEMMA BetweenType ==
    ASSUME NEW u, NEW f
    PROVE  IsFiniteSet(Between(u, f)) /\ Cardinality(Between(u, f)) \in Nat
<1>1. Between(u, f) \in SUBSET Workers
  BY DEF Between
<1> QED BY <1>1, FriendsAssumption, FS_Subset, FS_CardinalityType

\* A user is inserted: he has no friends, and is nobody's friend.
LEMMA InsertNewStep ==
    ASSUME IInv, NEW w \in Workers, At(w, "insert"), Insertable(job[w]),
           users' = [users EXCEPT ![job[w].user] = Document(job[w])],
           Goto(w, "start"), UNCHANGED <<job, dead, popped, changes>>
    PROVE  IInv'
<1>0. /\ pc[w] = "insert" /\ w \notin dead /\ job[w] \in JobType /\ JobFacts("insert", job[w])
  BY AtStep
<1>1. PICK new \in Users : /\ new = job[w].user /\ users[new] = NoDoc /\ new \notin Registered
                           /\ job[w].email \in Emails /\ job[w].ref \in Refs
  BY <1>0 DEF JobFacts, Registered
<1>2. PICK doc \in DocType :
         /\ doc = Document(job[w]) /\ doc # NoDoc /\ doc.email = job[w].email /\ doc.ref = job[w].ref
         /\ doc.friends = <<>> /\ doc.friend_of = <<>>
  <2>1. <<>> \in Seq(Users)
    OBVIOUS
  <2>2. Document(job[w]) \in DocType
    BY <1>1, <2>1 DEF Document, DocType
  <2>3. Document(job[w]) # NoDoc
    BY <2>2, DocIsNotNone
  <2> QED BY <2>2, <2>3 DEF Document
<1>3. /\ users' = [users EXCEPT ![new] = doc] /\ pc' = [pc EXCEPT ![w] = "start"]
      /\ users \in [Users -> DocType \cup {NoDoc}] /\ pc \in [Workers -> Steps]
      /\ job' = job /\ dead' = dead /\ popped' = popped
  BY <1>1, <1>2 DEF Goto, IInv, TypeOK
<1>4. /\ Registered' = Registered \cup {new} /\ users'[new] = doc
      /\ \A u \in Registered : u # new /\ users'[u] = users[u]
  BY <1>1, <1>2, <1>3 DEF Registered
<1>5. TypeOK'
  BY <1>3 DEF IInv, TypeOK, Steps
<1>6. JobInv'
  <2> SUFFICES ASSUME NEW v \in Workers PROVE JobFacts(pc[v], job[v])'
    BY DEF JobInv
  <2>1. CASE v = w
    <3>1. pc'[v] = "start" /\ job'[v] = job[w]
      BY <1>3, <2>1
    <3> QED BY <1>0, <1>1, <1>2, <1>4, <3>1 DEF JobFacts
  <2>2. CASE v # w
    <3>1. pc'[v] = pc[v] /\ job'[v] = job[v]
      BY <1>3, <2>2
    <3>2. pc[v] \in {"ref", "insert"} => users'[job[v].user] = NoDoc
      <4>1. pc[v] \in {"ref", "insert"} => job[v].user # new
        BY <1>0, <1>1, <2>2 DEF IInv, WorkersInv
      <4>2. pc[v] \in {"ref", "insert"} => users[job[v].user] = NoDoc /\ job[v].user \in Users
        BY DEF IInv, JobInv, JobFacts
      <4> QED BY <1>3, <4>1, <4>2
    <3> QED BY <1>3, <1>4, <3>1, <3>2, OthersStay
  <2> QED BY <2>1, <2>2
<1>7. WorkersInv'
  BY <1>0, <1>3 DEF IInv, WorkersInv
<1>8. UsersInv'
  <2>1. ASSUME NEW u \in Registered', NEW v \in Registered', users'[u].email = users'[v].email
        PROVE  u = v
    <3>1. \A x \in Registered : users[x].email # doc.email
      BY <1>2 DEF Insertable, WithEmail
    <3> QED BY <1>4, <2>1, <3>1 DEF IInv, UsersInv
  <2>2. ASSUME NEW u \in Registered'
        PROVE  /\ \A i \in DOMAIN users'[u].friends : users'[u].friends[i] \in Registered'
               /\ \A i \in DOMAIN users'[u].friend_of : users'[u].friend_of[i] \in Registered'
    <3>1. CASE u = new
      BY <1>2, <1>4, <3>1
    <3>2. CASE u \in Registered
      BY <1>4, <3>2 DEF IInv, UsersInv
    <3> QED BY <1>4, <3>1, <3>2
  <2> QED BY <2>1, <2>2 DEF UsersInv
<1>9. HalvesAgree'
  <2>1. \A u, f : Between(u, f)' = Between(u, f)
    BY <1>0, <1>3 DEF Between
  <2>2. ASSUME NEW u \in Registered', NEW f \in Registered', u = new \/ f = new
        PROVE  /\ Occurrences(users'[f].friend_of, u) = 0
               /\ Occurrences(users'[u].friends, f) = 0
               /\ Cardinality(Between(u, f)) = 0
    <3>1. \A i \in DOMAIN users'[f].friend_of : users'[f].friend_of[i] # u
      BY <1>1, <1>2, <1>4, <2>2 DEF IInv, UsersInv
    <3>2. \A i \in DOMAIN users'[u].friends : users'[u].friends[i] # f
      BY <1>1, <1>2, <1>4, <2>2 DEF IInv, UsersInv
    <3>3. Between(u, f) = {}
      BY <1>1, <2>2 DEF Between, IInv, JobInv, JobFacts
    <3> QED BY <3>1, <3>2, <3>3, OccurrencesNone, FS_EmptySet
  <2>3. ASSUME ~popped, NEW u \in Registered', NEW f \in Registered'
        PROVE  Occurrences(users'[f].friend_of, u) =
                   Occurrences(users'[u].friends, f) + Cardinality(Between(u, f))
    <3>1. CASE u = new \/ f = new
      BY <2>2, <3>1
    <3>2. CASE u \in Registered /\ f \in Registered
      BY <1>4, <2>3, <3>2, HalvesAgreeBetween DEF IInv
    <3> QED BY <1>4, <3>1, <3>2
  <2>4. popped' \/ \A u, f \in Registered' :
           Occurrences(users'[f].friend_of, u) =
               Occurrences(users'[u].friends, f) + Cardinality(Between(u, f)')
    BY <1>3, <2>1, <2>3
  <2> QED BY <2>4 DEF HalvesAgree, Between
<1> QED BY <1>5, <1>6, <1>7, <1>8, <1>9 DEF IInv

\* The insert is refused or not.
LEMMA InsertStep ==
    ASSUME IInv, NEW w \in Workers, Insert(w)
    PROVE  IInv'
<1>1. /\ pc[w] = "insert" /\ w \notin dead /\ At(w, "insert")
      /\ changes \in 0..MaxChanges
      /\ UNCHANGED <<dead, popped, changes>>
  BY AtStep DEF Insert
<1>2. ASSUME NEW r \in {"unknown_error", "duplicate_user_found"}, Answer(w, job[w], r), UNCHANGED users
      PROVE  IInv'
  BY <1>1, <1>2, AnswerStep DEF Replies
<1>3. ASSUME Insertable(job[w]), users' = [users EXCEPT ![job[w].user] = Document(job[w])],
             Goto(w, "start"), UNCHANGED job
      PROVE  IInv'
  BY <1>1, <1>3, InsertNewStep
<1> QED BY <1>2, <1>3 DEF Insert

\* The friend's half: he gets the user, whom the worker has still to give the friend.
LEMMA UpdateFriendStep ==
    ASSUME IInv, NEW w \in Workers, UpdateFriend(w), job[w].op \in {"add", "remove"}
    PROVE  IInv'
<1>0. /\ pc[w] = "friend" /\ w \notin dead /\ job[w] \in JobType /\ JobFacts("friend", job[w])
      /\ changes \in 0..MaxChanges
      /\ UNCHANGED <<dead, changes>>
      /\ users \in [Users -> DocType \cup {NoDoc}] /\ pc \in [Workers -> Steps]
      /\ job \in [Workers -> JobType]
  BY AtStep DEF UpdateFriend, IInv, TypeOK
<1>1. ASSUME Answer(w, job[w], "unknown_error"), UNCHANGED <<users, popped>>
      PROVE  IInv'
  BY <1>0, <1>1, AnswerStep DEF Replies
<1>2. ASSUME NEW f \in WithRef(job[w].ref),
             users' = [users EXCEPT
                   ![f].friend_of        = Changed(job[w].op, @, job[w].user),
                   ![f].incoming_friends = Changed(job[w].op, @, job[w].user)],
             job' = [job EXCEPT ![w].found = f], Goto(w, "own"),
             popped' = (popped \/ job[w].op = "remove")
      PROVE  IInv'
  <2>1. PICK u0 \in Registered : u0 = job[w].user
    BY <1>0 DEF JobFacts
  <2>2. /\ f \in Registered /\ f \in Users /\ u0 \in Users /\ users[f] \in DocType
    BY <1>0 DEF WithRef, Registered
  <2>a. PICK d \in DocType : d = users[f]
    BY <2>2
  <2>b. d.friend_of \in Seq(Users) /\ d.incoming_friends \in Seq(Users)
    BY DEF DocType
  <2>3. PICK of \in Seq(Users), in \in Seq(Users) :
           of = Changed(job[w].op, d.friend_of, u0) /\ in = Changed(job[w].op, d.incoming_friends, u0)
    BY <2>2, <2>b, ChangedOf
  <2>4. PICK doc \in DocType :
           /\ doc = [d EXCEPT !.friend_of = of, !.incoming_friends = in]
           /\ doc.email = d.email /\ doc.ref = d.ref
           /\ doc.friends = d.friends /\ doc.friend_of = of /\ doc # NoDoc
    <3>1. [d EXCEPT !.friend_of = of, !.incoming_friends = in] \in DocType
      BY DEF DocType
    <3> QED BY <3>1, DocIsNotNone DEF DocType
  <2>5. users' = [users EXCEPT ![f] = doc]
    BY <1>0, <1>2, <2>1, <2>2, <2>a, <2>3, <2>4 DEF DocType
  <2>6. PICK j \in JobType :
           /\ j = [job[w] EXCEPT !.found = f]
           /\ j.user = u0 /\ j.found = f /\ j.op = job[w].op /\ j.method = "POST"
    <3>1. PICK k \in JobType : k = job[w] /\ k.user = u0 /\ k.method = "POST"
      BY <1>0, <2>1 DEF JobFacts
    <3> DEFINE new == [k EXCEPT !.found = f]
    <3>2. /\ new \in JobType /\ new.user = u0 /\ new.found = f /\ new.op = k.op
          /\ new.method = "POST"
      BY <2>2, <3>1 DEF JobType
    <3>3. new = [job[w] EXCEPT !.found = f] /\ new.op = job[w].op
      BY <3>1, <3>2
    <3> HIDE DEF new
    <3> QED BY <3>2, <3>3
  <2>7. job' = [job EXCEPT ![w] = j] /\ pc' = [pc EXCEPT ![w] = "own"]
    BY <1>0, <1>2, <2>6 DEF Goto
  <2>8. /\ Registered' = Registered /\ users'[f] = doc
        /\ \A u \in Registered : u # f => users'[u] = users[u]
    BY <1>0, <2>2, <2>4, <2>5 DEF Registered
  <2>9. TypeOK'
    <3>1. users' \in [Users -> DocType \cup {NoDoc}]
      BY <1>0, <2>2, <2>5
    <3>2. pc' \in [Workers -> Steps] /\ job' \in [Workers -> JobType]
      BY <1>0, <2>7 DEF Steps
    <3>3. popped' \in BOOLEAN
      BY <1>2
    <3>4. /\ dead' \subseteq Workers /\ changes' \in 0..MaxChanges
      BY <1>0 DEF IInv, TypeOK
    <3> QED BY <3>1, <3>2, <3>3, <3>4 DEF TypeOK
  <2>10. JobInv'
    <3> SUFFICES ASSUME NEW v \in Workers PROVE JobFacts(pc[v], job[v])'
      BY DEF JobInv
    <3>1. CASE v = w
      <4>1. pc'[v] = "own" /\ job'[v] = j
        BY <1>0, <2>7, <3>1
      <4>2. j.op = "add" \/ popped'
        BY <1>2, <2>6
      <4> QED BY <2>2, <2>6, <2>8, <4>1, <4>2 DEF JobFacts
    <3>2. CASE v # w
      <4>1. pc'[v] = pc[v] /\ job'[v] = job[v]
        BY <1>0, <2>7, <3>2
      <4>2. \A u \in Registered : users'[u].email = users[u].email /\ users'[u].ref = users[u].ref
        BY <2>a, <2>4, <2>8
      <4>3. pc[v] \in {"ref", "insert"} => users[job[v].user] = NoDoc /\ job[v].user \in Users
        BY DEF IInv, JobInv, JobFacts
      <4>4. pc[v] \in {"ref", "insert"} => users'[job[v].user] = NoDoc
        BY <1>0, <2>2, <2>5, <4>3 DEF Registered
      <4> QED BY <1>2, <2>8, <4>1, <4>2, <4>4, OthersStay
    <3> QED BY <3>1, <3>2
  <2>11. WorkersInv'
    BY <1>0, <2>7 DEF IInv, WorkersInv
  <2>12. UsersInv'
    <3>1. \A u \in Registered : /\ users'[u].email = users[u].email
                                /\ users'[u].friends = users[u].friends
                                /\ u # f => users'[u].friend_of = users[u].friend_of
      BY <2>a, <2>4, <2>8
    <3>2. ASSUME NEW u \in Registered
          PROVE  /\ \A i \in DOMAIN users'[u].friends : users'[u].friends[i] \in Registered
                 /\ \A i \in DOMAIN users'[u].friend_of : users'[u].friend_of[i] \in Registered
      <4>1. \A i \in DOMAIN of : of[i] \in Registered
        <5>1. \A i \in DOMAIN of :
                 of[i] = u0 \/ \E k \in DOMAIN d.friend_of : of[i] = d.friend_of[k]
          BY <2>2, <2>b, <2>3, ChangedOf
        <5>2. \A k \in DOMAIN d.friend_of : d.friend_of[k] \in Registered
          BY <2>2, <2>a DEF IInv, UsersInv
        <5> QED BY <2>1, <5>1, <5>2
      <4>2. CASE u = f
        BY <2>2, <2>4, <2>8, <3>1, <4>1, <4>2 DEF IInv, UsersInv
      <4>3. CASE u # f
        BY <3>1, <4>3 DEF IInv, UsersInv
      <4> QED BY <4>2, <4>3
    <3>3. \A u, v \in Registered : users'[u].email = users'[v].email => u = v
      BY <3>1 DEF IInv, UsersInv
    <3> QED BY <2>8, <3>2, <3>3 DEF UsersInv
  <2>13. HalvesAgree'
    <3>1. CASE popped'
      BY <3>1 DEF HalvesAgree
    <3>2. CASE ~popped'
      <4>1. ~popped /\ job[w].op = "add"
        BY <1>2, <3>2
      <4>2. of = Append(d.friend_of, u0)
        BY <2>3, <4>1 DEF Changed
      <4>3. ASSUME NEW u \in Registered, NEW x \in Registered
            PROVE  Occurrences(users'[x].friend_of, u) =
                       Occurrences(users'[u].friends, x) + Cardinality(Between(u, x)')
        <5>1. /\ Occurrences(users[x].friend_of, u) =
                    Occurrences(users[u].friends, x) + Cardinality(Between(u, x))
              /\ users'[u].friends = users[u].friends
          BY <2>a, <2>4, <2>8, <4>1, HalvesAgreeBetween DEF IInv
        <5>2. CASE u = u0 /\ x = f
          <6>1. Between(u, x)' = Between(u, x) \cup {w}
            BY <1>0, <2>6, <2>7, <5>2 DEF Between
          <6>2. w \notin Between(u, x)
            BY <1>0 DEF Between
          <6>3. Cardinality(Between(u, x)') = Cardinality(Between(u, x)) + 1
            BY <6>1, <6>2, BetweenType, FS_AddElement
          <6>4. Occurrences(users'[x].friend_of, u) = Occurrences(users[x].friend_of, u) + 1
            <7>1. Occurrences(of, u0) = Occurrences(d.friend_of, u0) + 1
              BY <2>2, <2>b, <4>2, OccurrencesPush
            <7> QED BY <2>a, <2>4, <2>8, <5>2, <7>1
          <6>5. /\ Occurrences(users[u].friends, x) \in Nat /\ Cardinality(Between(u, x)) \in Nat
            <7>1. users[u] \in DocType
              BY <1>0 DEF Registered
            <7> QED BY <7>1, OccurrencesType, BetweenType DEF DocType
          <6> QED BY <5>1, <6>3, <6>4, <6>5
        <5>3. CASE ~(u = u0 /\ x = f)
          <6>1. Between(u, x)' = Between(u, x)
            BY <1>0, <2>6, <2>7, <5>3 DEF Between
          <6>2. Occurrences(users'[x].friend_of, u) = Occurrences(users[x].friend_of, u)
            <7>1. CASE x # f
              BY <2>8, <7>1
            <7>2. CASE x = f
              <8>1. /\ Occurrences(of, u) = Occurrences(d.friend_of, u) + (IF u = u0 THEN 1 ELSE 0)
                    /\ Occurrences(d.friend_of, u) \in Nat
                <9>1. Occurrences(d.friend_of, u) \in Nat
                  BY <2>b, OccurrencesType
                <9>2. Occurrences(Append(d.friend_of, u0), u) =
                         Occurrences(d.friend_of, u) + (IF u = u0 THEN 1 ELSE 0)
                  BY <2>2, <2>b, OccurrencesPush
                <9> QED BY <4>2, <9>1, <9>2
              <8>2. Occurrences(of, u) = Occurrences(d.friend_of, u)
                BY <5>3, <7>2, <8>1
              <8> QED BY <2>a, <2>4, <2>8, <7>2, <8>2
            <7> QED BY <7>1, <7>2
          <6> QED BY <5>1, <6>1, <6>2
        <5> QED BY <5>2, <5>3
      <4>4. \A u, x \in Registered' : Occurrences(users'[x].friend_of, u) =
                       Occurrences(users'[u].friends, x) + Cardinality(Between(u, x)')
        BY <2>8, <4>3
      <4> QED BY <4>4 DEF HalvesAgree, Between
    <3> QED BY <3>1, <3>2
  <2> QED BY <2>9, <2>10, <2>11, <2>12, <2>13 DEF IInv
<1> QED BY <1>1, <1>2 DEF UpdateFriend

\* The own half: the friendship is in both documents.
LEMMA UpdateSelfStep ==
    ASSUME IInv, NEW w \in Workers, UpdateSelf(w)
    PROVE  IInv'
<1>0. /\ pc[w] = "own" /\ w \notin dead /\ job[w] \in JobType /\ JobFacts("own", job[w])
      /\ UNCHANGED <<dead, popped, changes>>
      /\ users \in [Users -> DocType \cup {NoDoc}] /\ pc \in [Workers -> Steps]
      /\ job \in [Workers -> JobType]
  BY AtStep DEF UpdateSelf, IInv, TypeOK
<1>1. PICK u0 \in Registered, f \in Registered, op \in Ops :
         u0 = job[w].user /\ f = job[w].found /\ op = job[w].op /\ (op = "add" \/ popped)
  BY <1>0 DEF JobFacts, JobType
<1>2. u0 \in Users /\ f \in Users /\ Registered \subseteq Users
  BY DEF Registered
<1>3. PICK d \in DocType : d = users[u0] /\ d.friends \in Seq(Users)
  BY <1>0, <1>2 DEF Registered, DocType
<1>4. PICK list \in Seq(Users) : list = Changed(op, d.friends, f)
  BY <1>2, <1>3, ChangedOf
<1>5. PICK doc \in DocType :
         /\ doc = [d EXCEPT !.friends = list, !.last_visit_at = TRUE]
         /\ doc.email = d.email /\ doc.ref = d.ref
         /\ doc.friend_of = d.friend_of /\ doc.friends = list /\ doc # NoDoc
  <2>1. [d EXCEPT !.friends = list, !.last_visit_at = TRUE] \in DocType
    BY DEF DocType
  <2> QED BY <2>1, DocIsNotNone DEF DocType
<1>6. users' = [users EXCEPT ![u0] = doc]
  BY <1>0, <1>1, <1>2, <1>3, <1>4, <1>5 DEF UpdateSelf
<1>7. PICK j \in JobType : j = [NoJob EXCEPT !.reply = "ok"] /\ j.op = "login"
  BY NoJobType DEF NoJob, Replies
<1>8. pc' = [pc EXCEPT ![w] = "reply"] /\ job' = [job EXCEPT ![w] = j]
  <2>1. Answer(w, job[w], "ok") /\ job[w].op # "register"
    <3>1. job[w].op # "register"
      BY <1>0 DEF JobFacts
    <3> QED BY <3>1 DEF UpdateSelf
  <2> QED BY <1>7, <2>1 DEF Answer, Goto
<1>9. /\ Registered' = Registered /\ users'[u0] = doc
      /\ \A u \in Registered : /\ users'[u].email = users[u].email
                               /\ users'[u].ref = users[u].ref
                               /\ users'[u].friend_of = users[u].friend_of
                               /\ u # u0 => users'[u] = users[u]
  BY <1>0, <1>2, <1>3, <1>5, <1>6 DEF Registered
<1>10. TypeOK'
  BY <1>0, <1>6, <1>8 DEF IInv, TypeOK, Steps
<1>11. JobInv'
  <2> SUFFICES ASSUME NEW v \in Workers PROVE JobFacts(pc[v], job[v])'
    BY DEF JobInv
  <2>1. CASE v = w
    <3>1. pc'[v] = "reply" /\ job'[v] = j
      BY <1>0, <1>8, <2>1
    <3> QED BY <1>7, <3>1 DEF JobFacts
  <2>2. CASE v # w
    <3>1. pc'[v] = pc[v] /\ job'[v] = job[v]
      BY <1>0, <1>8, <2>2
    <3>2. pc[v] \in {"ref", "insert"} => users[job[v].user] = NoDoc /\ job[v].user \in Users
      BY DEF IInv, JobInv, JobFacts
    <3>3. pc[v] \in {"ref", "insert"} => users'[job[v].user] = NoDoc
      BY <1>0, <1>6, <3>2 DEF Registered
    <3> QED BY <1>0, <1>9, <3>1, <3>3, OthersStay
  <2> QED BY <2>1, <2>2
<1>12. WorkersInv'
  BY <1>0, <1>8 DEF IInv, WorkersInv
<1>13. UsersInv'
  <2>1. \A i \in DOMAIN list : list[i] \in Registered
    <3>1. \A i \in DOMAIN list : list[i] = f \/ \E k \in DOMAIN d.friends : list[i] = d.friends[k]
      BY <1>2, <1>3, <1>4, ChangedOf
    <3>2. \A k \in DOMAIN d.friends : d.friends[k] \in Registered
      BY <1>3 DEF IInv, UsersInv
    <3> QED BY <3>1, <3>2
  <2>2. ASSUME NEW u \in Registered
        PROVE  /\ \A i \in DOMAIN users'[u].friends : users'[u].friends[i] \in Registered
               /\ \A i \in DOMAIN users'[u].friend_of : users'[u].friend_of[i] \in Registered
    <3>1. CASE u = u0
      <4>1. users'[u].friends = list /\ users'[u].friend_of = users[u].friend_of
        BY <1>5, <1>9, <3>1
      <4>2. \A i \in DOMAIN users[u].friend_of : users[u].friend_of[i] \in Registered
        BY DEF IInv, UsersInv
      <4> QED BY <2>1, <4>1, <4>2
    <3>2. CASE u # u0
      BY <1>9, <3>2 DEF IInv, UsersInv
    <3> QED BY <3>1, <3>2
  <2>3. \A u, v \in Registered : users'[u].email = users'[v].email => u = v
    BY <1>9 DEF IInv, UsersInv
  <2> QED BY <1>9, <2>2, <2>3 DEF UsersInv
<1>14. HalvesAgree'
  <2>1. CASE popped'
    BY <2>1 DEF HalvesAgree
  <2>2. CASE ~popped'
    <3>1. ~popped /\ list = Append(d.friends, f)
      BY <1>0, <1>1, <1>4, <2>2 DEF Changed
    <3>2. ASSUME NEW u \in Registered, NEW x \in Registered
          PROVE  Occurrences(users'[x].friend_of, u) =
                     Occurrences(users'[u].friends, x) + Cardinality(Between(u, x)')
      <4>1. /\ Occurrences(users[x].friend_of, u) =
                  Occurrences(users[u].friends, x) + Cardinality(Between(u, x))
            /\ users'[x].friend_of = users[x].friend_of
        BY <1>9, <3>1, HalvesAgreeBetween DEF IInv
      <4>2. CASE u = u0 /\ x = f
        <5>1. Between(u, x)' = Between(u, x) \ {w} /\ w \in Between(u, x)
          BY <1>0, <1>1, <1>8, <4>2 DEF Between
        <5>2. Cardinality(Between(u, x)') = Cardinality(Between(u, x)) - 1
          BY <5>1, BetweenType, FS_RemoveElement
        <5>3. Occurrences(users'[u].friends, x) = Occurrences(users[u].friends, x) + 1
          <6>1. Occurrences(list, f) = Occurrences(d.friends, f) + 1
            BY <1>2, <1>3, <3>1, OccurrencesPush
          <6> QED BY <1>3, <1>5, <1>9, <4>2, <6>1
        <5>4. Occurrences(users[u].friends, x) \in Nat /\ Cardinality(Between(u, x)) \in Nat
          BY <1>3, <4>2, OccurrencesType, BetweenType
        <5> QED BY <4>1, <5>2, <5>3, <5>4
      <4>3. CASE ~(u = u0 /\ x = f)
        <5>1. Between(u, x)' = Between(u, x)
          BY <1>0, <1>1, <1>8, <4>3 DEF Between
        <5>2. Occurrences(users'[u].friends, x) = Occurrences(users[u].friends, x)
          <6>1. CASE u # u0
            BY <1>9, <6>1
          <6>2. CASE u = u0
            <7>1. Occurrences(d.friends, x) \in Nat
              BY <1>3, OccurrencesType
            <7>2. Occurrences(Append(d.friends, f), x) =
                     Occurrences(d.friends, x) + (IF x = f THEN 1 ELSE 0)
              BY <1>2, <1>3, OccurrencesPush
            <7>3. Occurrences(list, x) = Occurrences(d.friends, x)
              BY <3>1, <4>3, <6>2, <7>1, <7>2
            <7> QED BY <1>3, <1>5, <1>9, <6>2, <7>3
          <6> QED BY <6>1, <6>2
        <5> QED BY <4>1, <5>1, <5>2
      <4> QED BY <4>2, <4>3
    <3>3. \A u, x \in Registered' : Occurrences(users'[x].friend_of, u) =
                     Occurrences(users'[u].friends, x) + Cardinality(Between(u, x)')
      BY <1>9, <3>2
    <3> QED BY <3>3 DEF HalvesAgree, Between
  <2> QED BY <2>1, <2>2
<1> QED BY <1>10, <1>11, <1>12, <1>13, <1>14 DEF IInv

-----------------------------------------------------------------------------
(* The theorems *)

\* Initially nobody is registered.
LEMMA InitInv == Init => IInv
<1> SUFFICES ASSUME Init PROVE IInv
  OBVIOUS
<1>1. TypeOK
  <2>1. users \in [Users -> DocType \cup {NoDoc}]
    BY DEF Init
  <2>2. pc \in [Workers -> Steps] /\ dead \subseteq Workers /\ popped \in BOOLEAN
    BY DEF Init, Steps
  <2>3. job \in [Workers -> JobType]
    BY NoJobIsJob DEF Init
  <2>4. changes \in 0..MaxChanges
    BY FriendsAssumption DEF Init
  <2> QED BY <2>1, <2>2, <2>3, <2>4 DEF TypeOK
<1>2. Registered = {}
  BY DEF Init, Registered
<1>3. JobInv /\ WorkersInv /\ UsersInv /\ HalvesAgree
  BY <1>2 DEF Init, JobInv, JobFacts, WorkersInv, UsersInv, HalvesAgree
<1> QED BY <1>1, <1>3 DEF IInv

\* Every step of a worker preserves the invariant.
LEMMA StepInv == IInv /\ [Next]_vars => IInv'
<1> SUFFICES ASSUME IInv, [Next]_vars PROVE IInv'
  OBVIOUS
<1>1. ASSUME NEW w \in Workers, Begin(w) PROVE IInv'
  BY <1>1, RegisterStep, LoginStep, LogoutStep, AddFriendStep, RemoveFriendStep, UserPageStep,
     ListUsersStep
     DEF Begin
<1>2. ASSUME NEW w \in Workers, Work(w) PROVE IInv'
  BY <1>2, DrawRefStep, InsertStep, StartSessionStep, VisitStep, FinishSessionStep,
     RegisterSessionStep, UpdateFriendStep, UpdateSelfStep,
     ReadUserStep, DrawIndexesStep, LookFriendStep, ReadUsersStep, IdleStep
     DEF Work, add_friend_, remove_friend_
<1>3. ASSUME NEW w \in Workers, Crash(w) PROVE IInv'
  BY <1>3, IdleStep
<1>4. CASE UNCHANGED vars
  BY <1>4 DEF vars, IInv, TypeOK, JobInv, JobFacts, WorkersInv, UsersInv, HalvesAgree,
              Registered
<1> QED BY <1>1, <1>2, <1>3, <1>4 DEF Next

\* In every reachable state the workers and the users collection agree.
THEOREM Invariant == Spec => []IInv
BY InitInv, StepInv, PTL DEF Spec

\* Every variable holds what the code stores in it.
THEOREM TypeCorrect == Spec => []TypeOK
BY Invariant, PTL DEF IInv

\* Who is told "ok" by a registration has the account he asked for.
THEOREM RegistrationSafe == Spec => []RegisteredOwns
<1>1. IInv => RegisteredOwns
  BY DEF IInv, JobInv, JobFacts, RegisteredOwns
<1> QED BY Invariant, <1>1, PTL

\* With any number of workers, of which any may die anywhere, the two halves of the
\* friendships differ by the operations that stand between them, until a friend is
\* removed.
THEOREM HalvesSafe == Spec => []HalvesAgree
BY Invariant, PTL DEF IInv

\* There is always an index left to draw: fewer were drawn than there are.
THEOREM DrawsSafe == Spec => []DrawsEnd
<1>1. ASSUME IInv, NEW w \in Workers, pc[w] = "draw"
      PROVE  /\ Len(job[w].sample) < MaxFriends
             /\ \E i \in DOMAIN job[w].list :
                   \A k \in DOMAIN job[w].sample : job[w].sample[k] # i
  <2>1. PICK sample \in Seq(Nat \ {0}), list \in Seq(Users) :
           /\ sample = job[w].sample /\ list = job[w].list
           /\ Len(sample) < SampleSize(list)
    BY <1>1 DEF IInv, TypeOK, JobType, JobInv, JobFacts
  <2>2. Len(sample) \in Nat /\ Len(list) \in Nat /\ DOMAIN sample = 1..Len(sample)
        /\ DOMAIN list = 1..Len(list)
    OBVIOUS
  <2>3. Len(sample) < MaxFriends /\ Len(sample) < Len(list)
    BY <2>1, <2>2, FriendsAssumption DEF SampleSize
  <2>4. ASSUME \A i \in DOMAIN list : \E k \in DOMAIN sample : sample[k] = i
        PROVE  FALSE
    <3>1. PICK at \in [DOMAIN list -> DOMAIN sample] : \A i \in DOMAIN list : sample[at[i]] = i
      <4> DEFINE at == [i \in DOMAIN list |-> CHOOSE k \in DOMAIN sample : sample[k] = i]
      <4>1. \A i \in DOMAIN list : at[i] \in DOMAIN sample /\ sample[at[i]] = i
        BY <2>4
      <4>2. at \in [DOMAIN list -> DOMAIN sample]
        BY <4>1
      <4> HIDE DEF at
      <4> QED BY <4>1, <4>2
    <3>2. /\ IsFiniteSet(DOMAIN list) /\ IsFiniteSet(DOMAIN sample)
          /\ Cardinality(DOMAIN sample) < Cardinality(DOMAIN list)
      <4>1. \A n \in Nat : IsFiniteSet(1..n) /\ Cardinality(1..n) = n
        <5> SUFFICES ASSUME NEW n \in Nat PROVE IsFiniteSet(1..n) /\ Cardinality(1..n) = n
          OBVIOUS
        <5>1. IsFiniteSet(1..n) /\ Cardinality(1..n) = IF 1 > n THEN 0 ELSE n - 1 + 1
          BY FS_Interval
        <5> QED BY <5>1
      <4>2. /\ IsFiniteSet(1..Len(list)) /\ Cardinality(1..Len(list)) = Len(list)
            /\ IsFiniteSet(1..Len(sample)) /\ Cardinality(1..Len(sample)) = Len(sample)
        BY <2>2, <4>1
      <4> QED BY <2>2, <2>3, <4>1, <4>2
    <3>3. \E i, k \in DOMAIN list : i # k /\ at[i] = at[k]
      BY <3>2, FS_PigeonHole
    <3> QED BY <3>1, <3>3
  <2> QED BY <2>1, <2>3, <2>4
<1>2. IInv => DrawsEnd
  BY <1>1 DEF DrawsEnd
<1> QED BY Invariant, <1>2, PTL

\* Only a request with the method POST changes more of a document than the visits and
\* the sessions of the requester's own.
THEOREM OnlyPost == Spec => OnlyPostWrites
<1> DEFINE OwnVisit(w, u) ==
              /\ u \in Registered /\ job[w].user = u
              /\ \E s \in BOOLEAN :
                    /\ users'[u] = [users[u] EXCEPT !.sessions = s, !.last_visit_at = TRUE]
                    /\ s # users[u].sessions => pc[w] \in {"finish", "session"}
           Written(u) == users'[u] # users[u] => \E w \in Workers :
              pc'[w] # pc[w] /\ (job[w].method = "POST" \/ OwnVisit(w, u))
<1>1. ASSUME IInv, NEW u \in Users, users'[u] # users[u], [Next]_vars
      PROVE  \E w \in Workers : pc'[w] # pc[w] /\ (job[w].method = "POST" \/ OwnVisit(w, u))
  <2>0. users' # users
    BY <1>1
  <2>1. PICK w \in Workers : \/ Insert(w) \/ UpdateFriend(w) \/ UpdateSelf(w)
                             \/ VisitUser(w) \/ FinishSession(w) \/ RegisterSession(w)
    <3>1. PICK w \in Workers : Begin(w) \/ Work(w) \/ Crash(w)
      BY <1>1, <2>0 DEF Next, vars
    <3>2. ~Begin(w)
      BY <2>0 DEF Begin, Register, Login, Logout, AddFriend, RemoveFriend, UserPage, ListUsers, Take
    <3>3. ~Crash(w)
      BY <2>0 DEF Crash
    <3>4. /\ ~DrawRef(w) /\ ~StartSession(w) /\ ~ReadUser(w) /\ ~DrawIndexes(w)
          /\ ~LookFriend(w) /\ ~ReadUsers(w) /\ ~Respond(w)
      BY <2>0 DEF DrawRef, StartSession, ReadUser, DrawIndexes, LookFriend, ReadUsers, Respond
    <3> QED BY <3>1, <3>2, <3>3, <3>4 DEF Work, add_friend_, remove_friend_
  <2>2. /\ pc \in [Workers -> Steps] /\ users \in [Users -> DocType \cup {NoDoc}]
        /\ JobFacts(pc[w], job[w]) /\ job[w] \in JobType
    BY <1>1 DEF IInv, TypeOK, JobInv
  <2>3. CASE Insert(w) \/ UpdateFriend(w) \/ UpdateSelf(w)
    <3>1. pc[w] \in {"insert", "friend", "own"} /\ pc'[w] # pc[w]
      BY <2>2, <2>3 DEF Insert, UpdateFriend, UpdateSelf, At, Goto, Answer
    <3>2. job[w].method = "POST"
      BY <2>2, <3>1 DEF JobFacts
    <3> QED BY <3>1, <3>2
  <2>4. ASSUME NEW x \in Registered, x = job[w].user, NEW s \in BOOLEAN,
               users' = [users EXCEPT ![x] = Visited(x, s)],
               s # users[x].sessions => pc[w] \in {"finish", "session"}
        PROVE  OwnVisit(w, u)
    <3>1. x = u
      BY <1>1, <2>2, <2>4
    <3>2. users'[u] = [users[u] EXCEPT !.sessions = s, !.last_visit_at = TRUE]
      BY <2>2, <2>4, <3>1 DEF Visited
    <3> QED BY <2>4, <3>1, <3>2
  <2>5. CASE VisitUser(w)
    <3>1. pc[w] = "visit"
      BY <2>5 DEF VisitUser, At
    <3>2. PICK x \in Registered : x = job[w].user
      BY <2>2, <3>1 DEF JobFacts
    <3>3. PICK s \in BOOLEAN : s = users[x].sessions
      BY <2>2 DEF Registered, DocType
    <3>4. users' = [users EXCEPT ![x] = Visited(x, s)]
      <4>1. users[x] = [users[x] EXCEPT !.sessions = s]
        BY <2>2, <3>3 DEF Registered, DocType
      <4>2. [users[x] EXCEPT !.last_visit_at = TRUE] = Visited(x, s)
        BY <2>2, <3>3, <4>1 DEF Visited, Registered, DocType
      <4> QED BY <2>5, <3>2, <4>2 DEF VisitUser
    <3>5. OwnVisit(w, u)
      BY <2>4, <3>2, <3>3, <3>4
    <3>6. pc'[w] # "visit"
      <4>1. job[w].op \in {"add", "remove", "user", "users"}
        BY <2>2, <3>1 DEF JobFacts
      <4>2. pc'[w] = [add |-> "friend", remove |-> "friend", user |-> "read",
                      users |-> "list"][job[w].op]
        BY <2>2, <2>5 DEF VisitUser, Goto
      <4> QED BY <4>1, <4>2
    <3> HIDE DEF OwnVisit
    <3> QED BY <3>1, <3>5, <3>6
  <2>6. CASE FinishSession(w)
    <3>1. pc[w] = "finish" /\ pc'[w] # "finish"
      BY <2>2, <2>6 DEF FinishSession, At, Goto, Answer
    <3>2. PICK x \in Registered : x = job[w].user
      BY <2>2, <3>1 DEF JobFacts
    <3>3. PICK left \in {users[x].sessions, FALSE} :
             users' = [users EXCEPT ![x].sessions = left, ![x].last_visit_at = TRUE]
      BY <2>0, <2>6, <3>2 DEF FinishSession
    <3>4. left \in BOOLEAN /\ x \in Users
      BY <2>2, <3>3 DEF Registered, DocType
    <3>5. users' = [users EXCEPT ![x] = Visited(x, left)]
      BY <2>2, <3>3, <3>4 DEF Visited
    <3>6. OwnVisit(w, u)
      BY <2>4, <3>1, <3>2, <3>4, <3>5
    <3> HIDE DEF OwnVisit
    <3> QED BY <3>1, <3>6
  <2>7. CASE RegisterSession(w)
    <3>1. pc[w] = "session" /\ pc'[w] # "session"
      BY <2>2, <2>7 DEF RegisterSession, At, Goto, Answer
    <3>2. CASE job[w].op \in {"register", "login"}
      <4>1. job[w].method = "POST"
        BY <2>2, <3>1, <3>2 DEF JobFacts
      <4> QED BY <3>1, <4>1
    <3>3. CASE job[w].op \notin {"register", "login"}
      <4>1. PICK x \in Registered : x = job[w].user /\ x = job[w].found /\ x \in Users
        BY <2>2, <3>1, <3>3 DEF JobFacts, Registered
      <4>2. users' = [users EXCEPT ![x].sessions = TRUE, ![x].last_visit_at = TRUE]
        BY <2>0, <2>7, <4>1 DEF RegisterSession
      <4>3. users' = [users EXCEPT ![x] = Visited(x, TRUE)]
        BY <2>2, <4>1, <4>2 DEF Visited
      <4>4. OwnVisit(w, u)
        BY <2>4, <3>1, <4>1, <4>3
      <4> HIDE DEF OwnVisit
      <4> QED BY <3>1, <4>4
    <3> QED BY <3>2, <3>3
  <2> QED BY <2>1, <2>3, <2>5, <2>6, <2>7
<1>2. IInv /\ [Next]_vars => [\A u \in Users : Written(u)]_vars
  BY <1>1
<1>3. ([\A u \in Users : Written(u)]_vars) => [\A u \in Users : users'[u] # users[u] => \E w \in Workers :
          /\ pc'[w] # pc[w]
          /\ \/ job[w].method = "POST"
             \/ /\ u \in Registered /\ job[w].user = u
                /\ \E s \in BOOLEAN :
                      /\ users'[u] = [users[u] EXCEPT !.sessions = s, !.last_visit_at = TRUE]
                      /\ s # users[u].sessions => pc[w] \in {"finish", "session"}]_vars
  OBVIOUS
<1> HIDE DEF Written
<1> QED BY Invariant, <1>2, <1>3, PTL DEF Spec, OnlyPostWrites
=============================================================================
