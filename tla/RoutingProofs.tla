---------------------------- MODULE RoutingProofs ----------------------------
(***************************************************************************)
(* Proofs about Routing, for any configuration and any requests: which     *)
(* hosts a worker serves, for which path, name and port they answer, that  *)
(* SIGUSR1 reaches all of them, and, where the configuration keeps the     *)
(* hosts that hand requests back under sections, that they rewrite them.   *)
(***************************************************************************)
EXTENDS Routing, SequenceTheorems, TLAPS

-----------------------------------------------------------------------------
(* The inductive invariant *)

Serving == Nodes \cup {"idle", "loop", "done"}

\* The hosts added so far are those of the first entries, each under its name.
ManagerInv ==
    /\ entries \in Seq(Nodes) /\ added \in 0..Len(entries)
    /\ at \in Serving \cup {"building", "failed"}
    /\ at \in Serving => added = Len(entries)
    /\ DOMAIN hosts = {Own[entries[i]].name : i \in 1..added}
    /\ \A i \in 1..added : hosts[Own[entries[i]].name] = entries[i]
    /\ \A i, k \in 1..added : i # k => Own[entries[i]].name # Own[entries[k]].name

Within(p, q) == p = <<"">> \/ IsTail(p, q)

\* The path of the request is what is left of the path asked for, and so is that
\* of the answer.
PathInv ==
    /\ "path" \in DOMAIN request /\ request.path \in Seq(Sections) /\ asked \in Seq(Sections)
    /\ at \in Nodes \cup {"loop", "done"} => Within(request.path, asked)
    /\ at = "done" /\ answer.status = "response" => answer.path = request.path

IInv == ManagerInv /\ PathInv

-----------------------------------------------------------------------------
(* Lemmas *)

\* The whole path is within the path asked for.
LEMMA WholeWithin ==
    ASSUME NEW q \in Seq(Sections)
    PROVE  Within(q, q)
<1>1. q = SubSeq(q, 0 + 1, Len(q)) /\ 0 \in 0..Len(q)
  OBVIOUS
<1> QED BY <1>1 DEF Within, IsTail

\* Taking the first section off keeps a path within the one asked for.
LEMMA StripWithin ==
    ASSUME NEW p \in Seq(Sections), NEW q \in Seq(Sections), p # <<>>, Within(p, q)
    PROVE  Strip(p) \in Seq(Sections) /\ Strip(p) # <<>> /\ Within(Strip(p), q)
<1>0. PICK n \in Nat : n = Len(p) /\ n # 0 /\ Len(q) \in Nat
  OBVIOUS
<1>a. <<"">> \in Seq(Sections) /\ Len(<<"">>) = 1 /\ <<"">> # <<>>
  <2>1. PICK e \in Sections : e = ""
    BY DEF Sections
  <2>2. <<e>> \in Seq(Sections) /\ Len(<<e>>) = 1 /\ Len(<<>>) = 0
    OBVIOUS
  <2> QED BY <2>1, <2>2
<1>1. CASE Len(p) = 1
  <2>1. Strip(p) = <<"">>
    BY <1>1 DEF Strip
  <2> QED BY <1>a, <2>1 DEF Within
<1>2. CASE Len(p) # 1
  <2>1. Strip(p) = Tail(p)
    BY <1>2 DEF Strip
  <2>a. Len(p) >= 2
    <3>1. n # 1
      BY <1>0, <1>2
    <3>2. n >= 2
      BY <1>0, <3>1
    <3> QED BY <1>0, <3>2
  <2>2. Tail(p) \in Seq(Sections) /\ Len(Tail(p)) = Len(p) - 1 /\ Tail(p) = SubSeq(p, 2, Len(p))
    BY HeadTailProperties, TailIsSubSeq
  <2>3. Tail(p) # <<>>
    <3>1. Len(Tail(p)) # 0
      BY <1>0, <2>a, <2>2
    <3>2. Len(<<>>) = 0
      OBVIOUS
    <3> QED BY <3>1, <3>2
  <2>4. PICK k \in 0..Len(q) : p = SubSeq(q, k + 1, Len(q))
    <3>1. p # <<"">>
      BY <1>a, <1>2
    <3> QED BY <3>1 DEF Within, IsTail
  <2>5. Len(p) = Len(q) - k /\ k \in Nat /\ \A i \in 1..Len(p) : p[i] = q[k + i]
    <3>1. \A i \in k + 1..Len(q) : q[i] \in Sections
      BY <1>0
    <3>2. Len(p) = IF k + 1 <= Len(q) THEN Len(q) - (k + 1) + 1 ELSE 0
      BY <1>0, <2>4, <3>1, SubSeqProperties
    <3>3. \A i \in 1..Len(q) - (k + 1) + 1 : p[i] = q[k + 1 + i - 1]
      BY <1>0, <2>4, <3>1, SubSeqProperties
    <3> QED BY <1>0, <3>2, <3>3
  <2>6. Tail(p) = SubSeq(q, (k + 1) + 1, Len(q))
    <3> DEFINE t == SubSeq(q, (k + 1) + 1, Len(q))
    <3>1. \A i \in k + 2..Len(q) : q[i] \in Sections
      BY <1>0, <2>5
    <3>2. /\ t \in Seq(Sections)
          /\ Len(t) = IF k + 2 <= Len(q) THEN Len(q) - (k + 2) + 1 ELSE 0
          /\ \A i \in 1..Len(q) - (k + 2) + 1 : t[i] = q[k + 2 + i - 1]
      <4>1. (k + 1) + 1 = k + 2 /\ k + 2 \in Int /\ Len(q) \in Int
        BY <1>0, <2>5
      <4> QED BY <3>1, <4>1, SubSeqProperties
    <3> HIDE DEF t
    <3>3. Len(t) = Len(p) - 1
      BY <1>0, <2>a, <2>5, <3>2
    <3>4. \A i \in 1..Len(Tail(p)) : Tail(p)[i] = p[i + 1]
      BY HeadTailProperties
    <3>5. \A i \in 1..Len(Tail(p)) : Tail(p)[i] = t[i]
      <4> SUFFICES ASSUME NEW i \in 1..Len(Tail(p)) PROVE Tail(p)[i] = t[i]
        OBVIOUS
      <4>1. i \in Nat /\ i >= 1 /\ i <= n - 1 /\ Len(p) = n /\ n = Len(q) - k
        BY <1>0, <2>2, <2>5
      <4>2. i + 1 \in 1..n /\ i \in 1..Len(q) - (k + 2) + 1 /\ k + (i + 1) = k + 2 + i - 1
        BY <1>0, <2>5, <4>1
      <4>3. Tail(p)[i] = p[i + 1] /\ p[i + 1] = q[k + (i + 1)]
        BY <2>5, <3>4, <4>1, <4>2
      <4>4. t[i] = q[k + 2 + i - 1]
        BY <3>2, <4>2
      <4> QED BY <4>2, <4>3, <4>4
    <3>6. Tail(p) = t
      BY <2>2, <3>2, <3>3, <3>5, SeqEqual
    <3> QED BY <3>6 DEF t
  <2>7. k + 1 \in 0..Len(q)
    BY <1>0, <2>a, <2>5
  <2> QED BY <2>1, <2>2, <2>3, <2>6, <2>7 DEF Within, IsTail
<1> QED BY <1>1, <1>2

\* user::response takes off at most two sections.
LEMMA UserPathWithin ==
    ASSUME NEW p \in Seq(Sections), NEW q \in Seq(Sections), p # <<>>, Within(p, q)
    PROVE  UserPath(p) \in Seq(Sections) /\ Within(UserPath(p), q)
<1>1. PICK s \in Seq(Sections) : s = Strip(p) /\ s # <<>> /\ Within(s, q)
  BY StripWithin
<1>2. Strip(s) \in Seq(Sections) /\ Within(Strip(s), q)
  BY <1>1, StripWithin
<1> QED BY <1>1, <1>2 DEF UserPath

\* A host that is found is one of the configuration.
LEMMA FoundHost ==
    ASSUME ManagerInv, NEW h \in DOMAIN hosts
    PROVE  hosts[h] \in Nodes
<1>1. PICK i \in 1..added : h = Own[entries[i]].name
  BY DEF ManagerInv
<1>2. i \in 1..Len(entries) /\ entries[i] \in Nodes
  BY DEF ManagerInv
<1> QED BY <1>1, <1>2 DEF ManagerInv

\* A request is a record with a path, which alone is rewritten.
LEMMA RequestFacts ==
    ASSUME NEW r \in Requests \cup {NoRequest}
    PROVE  /\ r \in RequestType /\ "path" \in DOMAIN r /\ r.path \in Seq(Sections)
           /\ [r EXCEPT !.path = r.path] = r
<1>1. NoRequest \in RequestType
  <2>1. "" \in Names /\ <<>> \in Seq(Sections)
    BY DEF Names
  <2> QED BY <2>1 DEF NoRequest, RequestType
<1>2. r \in RequestType
  BY <1>1, RoutingAssumption
<1> QED BY <1>2 DEF RequestType

-----------------------------------------------------------------------------
(* The steps *)

\* One more host under a new name.
LEMMA AddHostStep ==
    ASSUME IInv, AddHost
    PROVE  IInv'
<1>0. PICK n \in Nat : n = Len(entries)
  BY DEF IInv, ManagerInv
<1>1. /\ at = "building" /\ added < n /\ added \in Nat /\ added' = added + 1
      /\ UNCHANGED <<entries, request, at, asked, answer>>
      /\ entries[added + 1] \in Nodes
  BY <1>0 DEF AddHost, IInv, ManagerInv
<1>2. PICK h : /\ h = Own[entries[added + 1]].name /\ h \notin DOMAIN hosts
               /\ hosts' = [x \in DOMAIN hosts \cup {h} |->
                               IF x = h THEN entries[added + 1] ELSE hosts[x]]
  BY DEF AddHost, add_host
<1>3. added' \in 0..n /\ 1..added' = 1..added \cup {added + 1}
  BY <1>1
<1>4. DOMAIN hosts' = {Own[entries[i]].name : i \in 1..added'}
  BY <1>2, <1>3 DEF IInv, ManagerInv
<1>5. \A i \in 1..added : Own[entries[i]].name \in DOMAIN hosts /\ Own[entries[i]].name # h
  BY <1>2 DEF IInv, ManagerInv
<1>6. \A i \in 1..added' : hosts'[Own[entries[i]].name] = entries[i]
  BY <1>2, <1>3, <1>5 DEF IInv, ManagerInv
<1>7. \A i, k \in 1..added' : i # k => Own[entries[i]].name # Own[entries[k]].name
  BY <1>2, <1>3, <1>5 DEF IInv, ManagerInv
<1>8. ManagerInv'
  <2>1. at' \notin Serving
    BY <1>1, RoutingAssumption DEF Serving
  <2> QED BY <1>0, <1>1, <1>3, <1>4, <1>6, <1>7, <2>1 DEF IInv, ManagerInv
<1>9. PathInv'
  BY <1>1, RoutingAssumption DEF IInv, PathInv
<1> QED BY <1>8, <1>9 DEF IInv

\* Nothing else changes the manager, and it serves only when all are added.
LEMMA ManagerStep ==
    ASSUME IInv, UNCHANGED <<entries, added, hosts>>,
           at' \in Serving \cup {"building", "failed"},
           at' \in Serving => added = Len(entries)
    PROVE  ManagerInv'
BY DEF IInv, ManagerInv

\* The building ends.
LEMMA BuiltStep ==
    ASSUME IInv, AddHostFails \/ Serve
    PROVE  IInv'
<1>1. /\ UNCHANGED <<entries, added, hosts, request, asked, answer>>
      /\ at' = "failed" \/ (at' = "idle" /\ added = Len(entries))
  BY DEF AddHostFails, Serve, manager
<1>2. "failed" \notin Serving
  BY RoutingAssumption DEF Serving
<1>3. ManagerInv'
  BY <1>1, <1>2, ManagerStep DEF Serving
<1>4. PathInv'
  BY <1>1, RoutingAssumption DEF IInv, PathInv
<1> QED BY <1>3, <1>4 DEF IInv

\* A request comes in.
LEMMA AcceptStep ==
    ASSUME IInv, Accept
    PROVE  IInv'
<1>0. PICK r \in Requests : request' = r /\ asked' = r.path
  BY DEF Accept
<1>1. /\ UNCHANGED <<entries, added, hosts>> /\ at = "idle" /\ at' = "loop"
      /\ request' = r /\ asked' = r.path /\ "path" \in DOMAIN r /\ r.path \in Seq(Sections)
  BY <1>0, RequestFacts DEF Accept, manager
<1>2. ManagerInv'
  <2>1. added = Len(entries)
    BY <1>1 DEF IInv, ManagerInv, Serving
  <2> QED BY <1>1, <2>1, ManagerStep DEF Serving
<1>3. PathInv'
  BY <1>1, WholeWithin DEF PathInv
<1> QED BY <1>2, <1>3 DEF IInv

\* A host or the loop goes on, with the path that is left.
LEMMA RouteStep ==
    ASSUME IInv, UNCHANGED <<entries, added, hosts, asked>>, at \in Nodes \cup {"loop"},
           at' \in Nodes \cup {"loop", "done"},
           NEW p \in Seq(Sections), Within(p, asked),
           "path" \in DOMAIN request', request'.path = p,
           at' = "done" /\ answer'.status = "response" => answer'.path = p
    PROVE  IInv'
<1>1. ManagerInv'
  <2>1. added = Len(entries)
    BY DEF IInv, ManagerInv, Serving
  <2> QED BY <2>1, ManagerStep DEF Serving
<1>2. PathInv'
  BY DEF IInv, PathInv
<1> QED BY <1>1, <1>2 DEF IInv

\* One step of process_request, of whatever host.
LEMMA RoutedStep ==
    ASSUME IInv, Route
    PROVE  IInv'
<1>0. /\ UNCHANGED <<entries, added, hosts>> /\ "path" \in DOMAIN request
      /\ asked \in Seq(Sections) /\ request.path \in Seq(Sections)
  BY DEF Route, manager, IInv, PathInv
<1>1. CASE Dispatch
  <2>1. at = "loop" /\ UNCHANGED <<request, asked>> /\ Within(request.path, asked)
    BY <1>1 DEF Dispatch, IInv, PathInv
  <2>2. at' \in Nodes \cup {"done"} /\ (at' = "done" => answer'.status # "response")
    <3>1. ASSUME NEW status \in {"bad_request", "not_found"}, Answer(status, NoHost, <<>>)
          PROVE  at' = "done" /\ answer'.status # "response"
      BY <3>1 DEF Answer
    <3>2. ASSUME request.host \in DOMAIN hosts, at' = hosts[request.host]
          PROVE  at' \in Nodes /\ at' # "done"
      BY <3>2, FoundHost, RoutingAssumption DEF IInv
    <3> QED BY <1>1, <3>1, <3>2 DEF Dispatch
  <2> QED BY <1>0, <2>1, <2>2, RouteStep
<1>2. ASSUME at \in Nodes, UNCHANGED asked PROVE Within(request.path, asked)
  BY <1>2 DEF IInv, PathInv
<1>3. CASE Descend
  <2>1. /\ at \in Nodes /\ asked' = asked /\ request.path # <<>>
        /\ request' = [request EXCEPT !.path = Strip(request.path)] /\ at' \in Nodes
    BY <1>3, RoutingAssumption DEF Descend, At
  <2>2. Strip(request.path) \in Seq(Sections) /\ Within(Strip(request.path), asked)
    BY <1>0, <1>2, <2>1, StripWithin
  <2>3. at' # "done"
    BY <2>1, RoutingAssumption
  <2> QED BY <1>0, <2>1, <2>2, <2>3, RouteStep
<1>4. ASSUME at \in Nodes, UNCHANGED <<request, asked>>, NEW status,
             Answer(status, at, request.path)
      PROVE  IInv'
  <2>1. at' = "done" /\ answer'.path = request.path
    BY <1>4 DEF Answer
  <2> QED BY <1>0, <1>2, <1>4, <2>1, RouteStep
<1>5. CASE DescendToDefault
  <2>1. /\ at \in Nodes /\ UNCHANGED <<request, asked>>
        /\ \/ at' = Default[at] /\ Default[at] # NoHost
           \/ Answer("not_found", at, request.path)
    BY <1>5 DEF DescendToDefault, At
  <2>2. CASE at' = Default[at] /\ Default[at] # NoHost
    <3>1. at' \in Nodes /\ at' # "done"
      BY <2>1, <2>2, RoutingAssumption
    <3> QED BY <1>0, <1>2, <2>1, <3>1, RouteStep
  <2> QED BY <1>4, <2>1, <2>2
<1>6. CASE BadPath
  <2>1. at \in Nodes /\ UNCHANGED <<request, asked>> /\ Answer("bad_request", at, request.path)
    BY <1>6 DEF BadPath, At
  <2> QED BY <1>4, <2>1
<1>7. ASSUME at \in Nodes, asked' = asked, NEW p \in Seq(Sections), Within(p, asked), Retry(p)
      PROVE  IInv'
  <2>1. at' = "loop" /\ request' = [request EXCEPT !.path = p]
    BY <1>7 DEF Retry
  <2> QED BY <1>0, <1>7, <2>1, RouteStep
<1>8. ASSUME at \in Nodes, asked' = asked, Respond PROVE IInv'
  BY <1>4, <1>8 DEF Respond
<1>9. CASE UserResponse
  <2>1. at \in Nodes /\ asked' = asked
    BY <1>9 DEF UserResponse, At
  <2>2. CASE request.path = <<>> /\ Respond
    BY <1>8, <2>1, <2>2
  <2>3. CASE request.path # <<>>
    <3>1. PICK p \in Seq(Sections) : p = UserPath(request.path) /\ Within(p, asked)
      BY <1>0, <1>2, <2>1, <2>3, UserPathWithin
    <3>2. CASE Retry(p)
      BY <1>7, <2>1, <3>1, <3>2
    <3>3. CASE request' = [request EXCEPT !.path = p] /\ Answer("response", at, p)
      <4>1. at' = "done" /\ answer'.path = p
        BY <3>3 DEF Answer
      <4> QED BY <1>0, <2>1, <3>1, <3>3, <4>1, RouteStep
    <3> QED BY <1>9, <2>3, <3>1, <3>2, <3>3 DEF UserResponse
  <2> QED BY <1>9, <2>2, <2>3 DEF UserResponse
<1>10. CASE UsersResponse \/ LoginResponse \/ LogoutResponse
  <2>1. at \in Nodes /\ asked' = asked /\ (Respond \/ Retry(request.path))
    BY <1>10 DEF UsersResponse, LoginResponse, LogoutResponse, At
  <2> QED BY <1>0, <1>2, <1>7, <1>8, <2>1
<1>11. CASE RegistrationResponse \/ AddFriendResponse \/ RemoveFriendResponse \/ PhonyResponse
  <2>1. at \in Nodes /\ asked' = asked /\ Respond
    BY <1>11 DEF RegistrationResponse, AddFriendResponse, RemoveFriendResponse, PhonyResponse, At
  <2> QED BY <1>8, <2>1
<1>12. CASE FileResponse
  <2>1. at \in Nodes /\ UNCHANGED <<request, asked>> /\ Answer("response", at, request.path)
    BY <1>12 DEF FileResponse, At
  <2> QED BY <1>4, <2>1
<1>13. CASE Finish
  <2>1. at = "done" /\ at' = "idle" /\ request' = NoRequest /\ asked' = <<>>
    BY <1>13 DEF Finish
  <2>2. added = Len(entries)
    BY <2>1 DEF IInv, ManagerInv, Serving
  <2>3. ManagerInv'
    BY <1>0, <2>1, <2>2, ManagerStep DEF Serving
  <2>4. PathInv'
    <3>1. "path" \in DOMAIN NoRequest /\ NoRequest.path = <<>> /\ <<>> \in Seq(Sections)
      BY DEF NoRequest
    <3> QED BY <2>1, <3>1, RoutingAssumption DEF PathInv
  <2> QED BY <2>3, <2>4 DEF IInv
<1> QED BY <1>1, <1>3, <1>5, <1>6, <1>9, <1>10, <1>11, <1>12, <1>13 DEF Route

-----------------------------------------------------------------------------
(* The theorems *)

\* Nothing is built.
LEMMA InitInv == Init => IInv
<1> SUFFICES ASSUME Init PROVE IInv
  OBVIOUS
<1>1. /\ entries \in Seq(Nodes) /\ added = 0 /\ hosts = <<>> /\ at = "building"
      /\ request = NoRequest /\ asked = <<>>
  BY RoutingAssumption DEF Init
<1>2. "building" \notin Serving
  BY RoutingAssumption DEF Serving
<1>3. DOMAIN hosts = {} /\ 1..added = {} /\ added \in 0..Len(entries)
  BY <1>1
<1>4. ManagerInv
  BY <1>1, <1>2, <1>3 DEF ManagerInv
<1>5. "path" \in DOMAIN NoRequest /\ NoRequest.path = <<>> /\ <<>> \in Seq(Sections)
  BY DEF NoRequest
<1>6. PathInv
  BY <1>1, <1>5, RoutingAssumption DEF PathInv
<1> QED BY <1>4, <1>6 DEF IInv

\* Every step preserves the invariant.
LEMMA StepInv == IInv /\ [Next]_vars => IInv'
<1> SUFFICES ASSUME IInv, [Next]_vars PROVE IInv'
  OBVIOUS
<1>1. CASE ClearCache \/ UNCHANGED vars
  <2>1. UNCHANGED <<entries, added, hosts, request, at, asked, answer>>
    BY <1>1 DEF ClearCache, vars, manager
  <2> QED BY <2>1 DEF IInv, ManagerInv, PathInv
<1> QED BY <1>1, AddHostStep, BuiltStep, AcceptStep, RoutedStep DEF Next

\* The manager agrees with the configuration, and the path with what was asked.
THEOREM Invariant == Spec => []IInv
BY InitInv, StepInv, PTL DEF Spec

\* A worker that serves has every host of its configuration under its name, and no
\* two of them have one name: for any configuration.
THEOREM ManagerSafe == Spec => []HostsAsConfigured
<1>1. IInv => HostsAsConfigured
  <2> SUFFICES ASSUME IInv, at \notin {"building", "failed"} PROVE HostsAsConfigured
    BY DEF HostsAsConfigured
  <2>1. added = Len(entries) /\ DOMAIN entries = 1..Len(entries)
    BY DEF IInv, ManagerInv
  <2>2. Range(entries) = {entries[i] : i \in DOMAIN entries}
    BY DEF Range
  <2> QED BY <2>1, <2>2 DEF IInv, ManagerInv, HostsAsConfigured
<1> QED BY Invariant, <1>1, PTL

-----------------------------------------------------------------------------
(***************************************************************************)
(* The hosts below a host: Below is the least set that holds the hosts it  *)
(* is taken of and, with a host, those directly below it.                  *)
(***************************************************************************)

\* The hosts directly below a host are hosts.
LEMMA ChildrenNodes ==
    ASSUME NEW n \in Nodes
    PROVE  Children(n) \subseteq Nodes
<1>1. \A s \in DOMAIN Content[n] : Content[n][s] \in Nodes
  BY RoutingAssumption
<1>2. Default[n] \in Nodes \cup {NoHost}
  BY RoutingAssumption
<1> QED BY <1>1, <1>2 DEF Children, Range

\* It holds what it is taken of, and is closed.
LEMMA BelowHolds ==
    ASSUME NEW N \in SUBSET Nodes
    PROVE  Below(N) \subseteq Nodes /\ N \subseteq Below(N) /\ Closed(Below(N))
<1>1. N \cup Nested \subseteq Nodes
  BY ChildrenNodes DEF Nested
<1>2. Below(N) \subseteq Nodes /\ N \subseteq Below(N)
  BY <1>1 DEF Below
<1>3. ASSUME NEW n \in Below(N), NEW c \in Children(n) PROVE c \in Below(N)
  <2>1. c \in N \cup Nested
    BY <1>2 DEF Nested
  <2>2. ASSUME NEW M \in SUBSET Nested, Closed(N \cup M) PROVE c \in N \cup M
    <3>1. n \in N \cup M
      BY <2>2 DEF Below
    <3> QED BY <2>2, <3>1 DEF Closed
  <2> QED BY <2>1, <2>2 DEF Below
<1> QED BY <1>2, <1>3 DEF Closed

\* And nothing else.
LEMMA BelowLeast ==
    ASSUME NEW N \in SUBSET Nodes, NEW S \in SUBSET Nodes, N \subseteq S, Closed(S)
    PROVE  Below(N) \subseteq S
<1> DEFINE M == S \cap Nested
<1>1. M \in SUBSET Nested /\ N \cup M \subseteq S
  OBVIOUS
<1>2. Closed(N \cup M)
  <2> SUFFICES ASSUME NEW n \in N \cup M, NEW c \in Children(n) PROVE c \in M
    BY DEF Closed
  <2>1. n \in S /\ n \in Nodes
    BY <1>1
  <2> QED BY <2>1 DEF Closed, Nested
<1> QED BY <1>1, <1>2 DEF Below

\* More hosts have more below them.
LEMMA BelowGrows ==
    ASSUME NEW N \in SUBSET Nodes, NEW M \in SUBSET Nodes, N \subseteq M
    PROVE  Below(N) \subseteq Below(M)
BY BelowHolds, BelowLeast

\* A host below another is below one of those in between.
LEMMA BelowSomeone ==
    ASSUME NEW b \in Nodes, NEW c \in Below({b}), c # b
    PROVE  \E m \in Below({b}) : c \in Children(m)
<1> DEFINE S == {b} \cup {x \in Below({b}) : \E m \in Below({b}) : x \in Children(m)}
<1>1. Below({b}) \subseteq Nodes /\ b \in Below({b}) /\ Closed(Below({b}))
  BY BelowHolds
<1>2. S \subseteq Below({b}) /\ S \in SUBSET Nodes /\ {b} \subseteq S
  BY <1>1
<1>3. Closed(S)
  <2> SUFFICES ASSUME NEW n \in S, NEW x \in Children(n) PROVE x \in S
    BY DEF Closed
  <2>1. n \in Below({b})
    BY <1>2
  <2>2. x \in Below({b})
    BY <1>1, <2>1 DEF Closed
  <2> QED BY <2>1, <2>2
<1>4. c \in S
  BY <1>2, <1>3, BelowLeast
<1> QED BY <1>4

\* Different hosts that nobody holds share nothing below them.
LEMMA Apart ==
    ASSUME NEW a \in Nodes, NEW b \in Nodes, a # b,
           \A n \in Nodes : a \notin Children(n) /\ b \notin Children(n)
    PROVE  Below({a}) \cap Below({b}) = {}
<1>1. /\ Below({b}) \subseteq Nodes /\ Closed(Below({b}))
  BY BelowHolds
<1> DEFINE S == Nodes \ Below({b})
<1>2. a \in S
  <2> SUFFICES ASSUME a \in Below({b}) PROVE FALSE
    OBVIOUS
  <2> QED BY <1>1, BelowSomeone
<1>3. Closed(S)
  <2> SUFFICES ASSUME NEW n \in S, NEW c \in Children(n), c \in Below({b}) PROVE FALSE
    BY ChildrenNodes DEF Closed
  <2>1. c # b
    OBVIOUS
  <2>2. PICK m \in Below({b}) : c \in Children(m)
    BY <2>1, BelowSomeone
  <2>3. m \in Nodes /\ n \in Nodes /\ m # n
    BY <1>1
  <2>4. Children(m) \cap Children(n) = {}
    BY <2>3, RoutingAssumption
  <2> QED BY <2>2, <2>4
<1>4. Below({a}) \subseteq S
  BY <1>2, <1>3, BelowLeast
<1> QED BY <1>4

\* The hosts of a configuration share nothing.
LEMMA EntriesApart ==
    ASSUME NEW e \in HostConfigs, NEW i \in DOMAIN e, NEW k \in DOMAIN e, e[i] # e[k]
    PROVE  Below({e[i]}) \cap Below({e[k]}) = {}
<1>1. e \in Seq(Nodes)
  BY RoutingAssumption
<1>2. e[i] \in Nodes /\ e[k] \in Nodes
  BY <1>1, ElementOfSeq, LenProperties
<1>3. e[i] \in Range(e) /\ e[k] \in Range(e)
  BY DEF Range
<1>4. \A n \in Nodes : Children(n) \cap Range(e) = {}
  BY RoutingAssumption
<1>5. \A n \in Nodes : e[i] \notin Children(n) /\ e[k] \notin Children(n)
  BY <1>3, <1>4
<1> QED BY <1>2, <1>5, Apart

-----------------------------------------------------------------------------
(***************************************************************************)
(* The tree of hosts, and the request in it: what was built of an entry of *)
(* the configuration has that entry's name and ports; a request is passed  *)
(* on only below the host it names; and nothing is cached out of the reach *)
(* of the manager.                                                         *)
(***************************************************************************)

BuiltInv ==
    /\ entries \in HostConfigs /\ DOMAIN built \subseteq Nodes
    /\ \A i \in 1..added : \A n \in Below({entries[i]}) :
           n \in DOMAIN built /\ built[n] = Own[entries[i]]

\* The request asks for a host below which n is, on a port of it.
Served(n) == \E i \in 1..added :
    /\ n \in Below({entries[i]})
    /\ Own[entries[i]].name = request.host
    /\ request.port = request.server_port /\ request.port \in Own[entries[i]].ports

AskedInv ==
    /\ request \in RequestType
    /\ [request EXCEPT !.path = asked] \in Requests \cup {NoRequest}
    /\ looped \in Seq(Sections) /\ answer.path \in Seq(Sections)
    /\ answer.status \in {"none", "response", "bad_request", "not_found"}

ServedInv ==
    /\ at \in Nodes => Served(at)
    /\ at = "done" /\ answer.status = "response" => Served(answer.node)

CacheInv ==
    /\ cached \subseteq Reached /\ cached \subseteq {n \in Nodes : Kind[n] = "files"}
    /\ crashed \in BOOLEAN

TreeInv == IInv /\ BuiltInv /\ AskedInv /\ ServedInv /\ CacheInv

\* The hosts of the manager are those of the entries added.
LEMMA HostsRange ==
    ASSUME ManagerInv
    PROVE  Range(hosts) = {entries[i] : i \in 1..added} /\ Range(hosts) \subseteq Nodes
<1>1. Range(hosts) = {entries[i] : i \in 1..added}
  BY DEF ManagerInv, Range
<1>2. \A i \in 1..added : entries[i] \in Nodes
  BY ElementOfSeq DEF ManagerInv
<1> QED BY <1>1, <1>2

\* An entry that was added is a host.
LEMMA EntryNode ==
    ASSUME ManagerInv, NEW i \in 1..added
    PROVE  /\ i \in DOMAIN entries /\ entries[i] \in Nodes
           /\ Below({entries[i]}) \subseteq Nodes /\ entries[i] \in Below({entries[i]})
           /\ Closed(Below({entries[i]})) /\ Below({entries[i]}) \subseteq Reached
<1>1. i \in 1..Len(entries) /\ entries \in Seq(Nodes)
  BY DEF ManagerInv
<1>2. i \in DOMAIN entries /\ entries[i] \in Nodes
  BY <1>1, ElementOfSeq, LenProperties
<1>3. {entries[i]} \in SUBSET Nodes
  BY <1>2
<1>4. /\ Below({entries[i]}) \subseteq Nodes /\ {entries[i]} \subseteq Below({entries[i]})
      /\ Closed(Below({entries[i]}))
  BY <1>3, BelowHolds
<1>5. {entries[i]} \subseteq Range(hosts) /\ Range(hosts) \in SUBSET Nodes
  BY HostsRange
<1>6. Below({entries[i]}) \subseteq Reached
  BY <1>3, <1>5, BelowGrows DEF Reached
<1> QED BY <1>2, <1>4, <1>6

\* A host that works is passed on from only to hosts below.
LEMMA ServedBelow ==
    ASSUME ManagerInv, NEW n, Served(n), NEW c \in Children(n)
    PROVE  Served(c)
<1>1. PICK i \in 1..added :
          /\ n \in Below({entries[i]}) /\ Own[entries[i]].name = request.host
          /\ request.port = request.server_port /\ request.port \in Own[entries[i]].ports
  BY DEF Served
<1>2. c \in Below({entries[i]})
  BY <1>1, EntryNode DEF Closed
<1> QED BY <1>1, <1>2 DEF Served

\* Another host is built: it shares nothing with those that are there.
LEMMA AddHostTree ==
    ASSUME TreeInv, AddHost
    PROVE  TreeInv'
<1>1. IInv'
  BY AddHostStep DEF TreeInv
<1>2. PICK n \in Nat : n = added
  BY DEF TreeInv, IInv, ManagerInv
<1>3. PICK h : h = entries[n + 1]
  OBVIOUS
<1>4. /\ at = "building" /\ n < Len(entries) /\ added' = n + 1
      /\ UNCHANGED <<entries, request, at, asked, looped, answer, cached, crashed>>
      /\ Own[h].name \notin DOMAIN hosts
      /\ built' = [m \in DOMAIN built \cup Below({h}) |->
                      IF m \in Below({h}) THEN Own[h] ELSE built[m]]
  BY <1>2, <1>3 DEF AddHost, add_host, Given
<1>5. ManagerInv /\ BuiltInv /\ ManagerInv'
  BY <1>1 DEF TreeInv, IInv
<1>6. n + 1 \in 1..added' /\ h = entries'[n + 1]
  BY <1>2, <1>3, <1>4
<1>7. n + 1 \in DOMAIN entries /\ h \in Nodes
  <2>1. n + 1 \in 1..Len(entries) /\ entries \in Seq(Nodes)
    BY <1>2, <1>4, <1>5 DEF ManagerInv
  <2> QED BY <1>3, <2>1, ElementOfSeq, LenProperties
<1>8. Below({h}) \subseteq Nodes
  BY <1>7, BelowHolds
<1>9. BuiltInv'
  <2>1. DOMAIN built' = DOMAIN built \cup Below({h})
    BY <1>4
  <2>2. DOMAIN built' \subseteq Nodes
    BY <1>5, <1>8, <2>1 DEF BuiltInv
  <2>3. ASSUME NEW i \in 1..n + 1, NEW m \in Below({entries[i]})
        PROVE  m \in DOMAIN built' /\ built'[m] = Own[entries[i]]
    <3>1. CASE i = n + 1
      BY <1>3, <1>4, <3>1
    <3>2. CASE i # n + 1
      <4>1. i \in 1..added
        BY <1>2, <3>2
      <4>2. m \in DOMAIN built /\ built[m] = Own[entries[i]]
        BY <1>5, <4>1 DEF BuiltInv
      <4>3. Own[entries[i]].name \in DOMAIN hosts
        BY <1>5, <4>1 DEF ManagerInv
      <4>4. entries[i] # h /\ i \in DOMAIN entries /\ entries \in HostConfigs
        BY <1>4, <1>5, <4>1, <4>3, EntryNode DEF BuiltInv
      <4>5. m \notin Below({h})
        BY <1>3, <1>7, <4>4, EntriesApart
      <4> QED BY <1>4, <4>2, <4>5
    <3> QED BY <3>1, <3>2
  <2> QED BY <1>4, <1>5, <2>2, <2>3 DEF BuiltInv
<1>10. AskedInv'
  BY <1>4 DEF TreeInv, AskedInv
<1>11. ServedInv'
  BY <1>4, RoutingAssumption DEF ServedInv
<1>12. CacheInv'
  <2>1. PICK g : g = hosts'
    OBVIOUS
  <2>2. Range(g) = {entries[i] : i \in 1..n + 1}
    <3>1. /\ DOMAIN g = {Own[entries[i]].name : i \in 1..n + 1}
          /\ \A i \in 1..n + 1 : g[Own[entries[i]].name] = entries[i]
      BY <1>4, <1>5, <2>1 DEF ManagerInv
    <3> QED BY <3>1 DEF Range
  <2>3. \A i \in 1..n + 1 : entries[i] \in Nodes
    BY <1>4, <1>5, ElementOfSeq DEF ManagerInv
  <2>4. Range(hosts) = {entries[i] : i \in 1..n} /\ Range(hosts) \subseteq Nodes
    BY <1>2, <1>5, HostsRange
  <2>5. 1..n \subseteq 1..n + 1
    OBVIOUS
  <2>6. Below(Range(hosts)) \subseteq Below(Range(g))
    BY <2>2, <2>3, <2>4, <2>5, BelowGrows
  <2>7. Reached \subseteq Reached'
    BY <2>1, <2>6 DEF Reached
  <2> QED BY <1>4, <2>7 DEF TreeInv, CacheInv
<1> QED BY <1>1, <1>9, <1>10, <1>11, <1>12 DEF TreeInv

\* The building ends, the worker waits, or the cache is cleared: no request runs.
LEMMA IdleTree ==
    ASSUME TreeInv, IInv', UNCHANGED <<entries, added, hosts, built, looped, answer>>,
           request' \in Requests \cup {NoRequest}, asked' = request'.path,
           at' \notin Nodes \cup {"done"},
           cached' \subseteq cached, crashed' \in BOOLEAN
    PROVE  TreeInv'
<1>1. BuiltInv'
  BY DEF TreeInv, BuiltInv
<1>2. AskedInv'
  <2>1. request' \in RequestType /\ [request' EXCEPT !.path = request'.path] = request'
    BY RequestFacts
  <2> QED BY <2>1 DEF TreeInv, AskedInv
<1>3. ServedInv'
  BY DEF ServedInv
<1>4. CacheInv'
  <2>1. Reached' = Reached
    BY DEF Reached
  <2> QED BY <2>1 DEF TreeInv, CacheInv
<1> QED BY <1>1, <1>2, <1>3, <1>4 DEF TreeInv

\* Another path leaves the rest of the request.
LEMMA Rewritten ==
    ASSUME AskedInv, NEW p \in Seq(Sections), request' = [request EXCEPT !.path = p]
    PROVE  /\ request' \in RequestType
           /\ [request' EXCEPT !.path = asked] = [request EXCEPT !.path = asked]
           /\ request'.host = request.host /\ request'.port = request.port
           /\ request'.server_port = request.server_port
<1>1. request \in RequestType
  BY DEF AskedInv
<1> QED BY <1>1 DEF RequestType

\* A step of process_request: the loop or a host goes on.
LEMMA RouteTree ==
    ASSUME TreeInv, IInv', UNCHANGED <<entries, added, hosts, built, asked, crashed>>,
           NEW p \in Seq(Sections), request' = [request EXCEPT !.path = p],
           looped' = looped \/ looped' = request.path,
           at' \in Nodes => Served(at'),
           \/ answer' = answer /\ at' # "done"
           \/ /\ answer'.path \in Seq(Sections)
              /\ answer'.status \in {"response", "bad_request", "not_found"}
              /\ answer'.status = "response" => Served(answer'.node),
           \/ cached' = cached
           \/ At("files") /\ cached' = cached \cup {at}
    PROVE  TreeInv'
<1>1. BuiltInv'
  BY DEF TreeInv, BuiltInv
<1>2. AskedInv'
  <2>1. request.path \in Seq(Sections) /\ AskedInv
    BY DEF TreeInv, IInv, PathInv
  <2>2. request' \in RequestType
        /\ [request' EXCEPT !.path = asked] = [request EXCEPT !.path = asked]
    BY <2>1, Rewritten
  <2> QED BY <2>1, <2>2 DEF AskedInv
<1>3. ServedInv'
  <2>1. /\ request'.host = request.host /\ request'.port = request.port
        /\ request'.server_port = request.server_port
    BY Rewritten DEF TreeInv
  <2>2. \A n : Served(n) => Served(n)'
    BY <2>1 DEF Served
  <2> QED BY <2>2, RoutingAssumption DEF ServedInv
<1>4. CacheInv'
  <2>1. Reached' = Reached
    BY DEF Reached
  <2>2. CASE cached' = cached
    BY <2>1, <2>2 DEF TreeInv, CacheInv
  <2>3. CASE At("files") /\ cached' = cached \cup {at}
    <3>1. at \in Nodes /\ Kind[at] = "files"
      BY <2>3 DEF At
    <3>2. at \in Reached
      BY <3>1, EntryNode DEF TreeInv, IInv, ServedInv, Served
    <3> QED BY <2>1, <2>3, <3>1, <3>2 DEF TreeInv, CacheInv
  <2> QED BY <2>2, <2>3
<1> QED BY <1>1, <1>2, <1>3, <1>4 DEF TreeInv

\* The manager passes a request to the host it names.
LEMMA DispatchTree ==
    ASSUME TreeInv, IInv', UNCHANGED manager, Dispatch
    PROVE  TreeInv'
<1>1. /\ at = "loop" /\ UNCHANGED <<entries, added, hosts, built, request, asked, cached, crashed>>
      /\ looped' = request.path
  BY DEF Dispatch, manager
<1>2. request.path \in Seq(Sections) /\ request' = [request EXCEPT !.path = request.path]
  BY <1>1 DEF TreeInv, AskedInv, RequestType
<1>3. ASSUME NEW status \in {"bad_request", "not_found"}, Answer(status, NoHost, <<>>)
      PROVE  TreeInv'
  <2>1. /\ at' = "done" /\ answer' = [status |-> status, node |-> NoHost, path |-> <<>>]
        /\ at' \notin Nodes
    BY <1>3, RoutingAssumption DEF Answer
  <2>2. /\ answer'.path \in Seq(Sections) /\ answer'.status # "response"
        /\ answer'.status \in {"response", "bad_request", "not_found"}
    BY <2>1
  <2> QED BY <1>1, <1>2, <2>1, <2>2, RouteTree
<1>4. ASSUME request.port = request.server_port, request.host \in DOMAIN hosts,
             request.port \in built[hosts[request.host]].ports,
             at' = hosts[request.host], UNCHANGED answer
      PROVE  TreeInv'
  <2>1. PICK i \in 1..added : request.host = Own[entries[i]].name
    BY <1>4 DEF TreeInv, IInv, ManagerInv
  <2>2. at' = entries[i]
    BY <1>4, <2>1 DEF TreeInv, IInv, ManagerInv
  <2>3. entries[i] \in Below({entries[i]}) /\ entries[i] \in Nodes
    BY EntryNode DEF TreeInv, IInv
  <2>4. built[entries[i]] = Own[entries[i]]
    BY <2>3 DEF TreeInv, BuiltInv
  <2>5. Served(at')
    BY <1>4, <2>1, <2>2, <2>3, <2>4 DEF Served
  <2>6. at' # "done"
    BY <2>2, <2>3, RoutingAssumption
  <2> QED BY <1>1, <1>2, <1>4, <2>5, <2>6, RouteTree
<1> QED BY <1>3, <1>4 DEF Dispatch

\* A host passes the request to one below it.
LEMMA PassTree ==
    ASSUME TreeInv, IInv', UNCHANGED <<manager, asked, looped, answer, cached, crashed>>,
           at \in Nodes, at' \in Children(at), at' # "done",
           NEW p \in Seq(Sections), request' = [request EXCEPT !.path = p]
    PROVE  TreeInv'
<1>1. Served(at')
  BY ServedBelow DEF TreeInv, IInv, ServedInv
<1> QED BY <1>1, RouteTree DEF manager

\* A host answers.
LEMMA AnswerTree ==
    ASSUME TreeInv, IInv', UNCHANGED <<manager, asked, looped, crashed>>,
           at \in Nodes, NEW status \in {"response", "bad_request", "not_found"},
           NEW p \in Seq(Sections), request' = [request EXCEPT !.path = p],
           Answer(status, at, p),
           \/ cached' = cached
           \/ At("files") /\ cached' = cached \cup {at}
    PROVE  TreeInv'
<1>1. at' \notin Nodes /\ answer' = [status |-> status, node |-> at, path |-> p]
  BY RoutingAssumption DEF Answer
<1>2. Served(at)
  BY DEF TreeInv, ServedInv
<1> QED BY <1>1, <1>2, RouteTree DEF manager

\* A host hands the request back.
LEMMA RetryTree ==
    ASSUME TreeInv, IInv', UNCHANGED <<manager, asked, looped, cached, crashed>>,
           NEW p \in Seq(Sections), Retry(p)
    PROVE  TreeInv'
<1>1. at' = "loop" /\ request' = [request EXCEPT !.path = p] /\ answer' = answer
  BY DEF Retry
<1>2. at' \notin Nodes /\ at' # "done"
  BY <1>1, RoutingAssumption
<1> QED BY <1>1, <1>2, RouteTree DEF manager

\* One step of process_request, of whatever host.
LEMMA RoutedTree ==
    ASSUME TreeInv, IInv', Route
    PROVE  TreeInv'
<1>0. /\ UNCHANGED manager /\ request.path \in Seq(Sections)
      /\ request = [request EXCEPT !.path = request.path]
  BY DEF Route, TreeInv, AskedInv, RequestType
<1>1. CASE Dispatch
  BY <1>0, <1>1, DispatchTree
<1>2. ASSUME at \in Nodes, UNCHANGED <<asked, looped, cached, crashed>>,
             Respond \/ Retry(request.path)
      PROVE  TreeInv'
  <2>1. CASE Respond
    BY <1>0, <1>2, <2>1, AnswerTree DEF Respond
  <2>2. CASE Retry(request.path)
    BY <1>0, <1>2, <2>2, RetryTree
  <2> QED BY <1>2, <2>1, <2>2
<1>3. CASE Descend
  <2>1. /\ at \in Nodes /\ request.path # <<>> /\ UNCHANGED <<asked, looped, answer, cached, crashed>>
        /\ request' = [request EXCEPT !.path = Strip(request.path)]
        /\ at' = Content[at][First(request.path)] /\ First(request.path) \in DOMAIN Content[at]
        /\ Kind[at] = "hierarchy"
    BY <1>3 DEF Descend, At
  <2>2. at' \in Children(at)
    BY <2>1 DEF Children, Range
  <2>3. at' # "done"
    BY <2>1, <2>2, ChildrenNodes, RoutingAssumption
  <2>4. Strip(request.path) \in Seq(Sections)
    BY <1>0, <2>1, StripWithin, WholeWithin
  <2> QED BY <1>0, <2>1, <2>2, <2>3, <2>4, PassTree
<1>4. CASE DescendToDefault
  <2>1. /\ at \in Nodes /\ UNCHANGED <<request, asked, looped, cached, crashed>>
        /\ Kind[at] = "hierarchy"
        /\ \/ at' = Default[at] /\ Default[at] # NoHost /\ UNCHANGED answer
           \/ Answer("not_found", at, request.path)
    BY <1>4 DEF DescendToDefault, At
  <2>2. CASE at' = Default[at] /\ Default[at] # NoHost /\ UNCHANGED answer
    <3>1. at' \in Children(at)
      BY <2>1, <2>2 DEF Children
    <3>2. at' # "done"
      BY <2>1, <3>1, ChildrenNodes, RoutingAssumption
    <3> QED BY <1>0, <2>1, <2>2, <3>1, <3>2, PassTree
  <2>3. CASE Answer("not_found", at, request.path)
    BY <1>0, <2>1, <2>3, AnswerTree
  <2> QED BY <2>1, <2>2, <2>3
<1>5. CASE BadPath
  <2>1. /\ at \in Nodes /\ UNCHANGED <<request, asked, looped, cached, crashed>>
        /\ Answer("bad_request", at, request.path)
    BY <1>5 DEF BadPath, At
  <2> QED BY <1>0, <2>1, AnswerTree
<1>6. CASE UserResponse
  <2>1. at \in Nodes /\ UNCHANGED <<asked, looped, cached, crashed>>
    BY <1>6 DEF UserResponse, At
  <2>2. CASE request.path = <<>> /\ Respond
    BY <1>2, <2>1, <2>2
  <2>3. CASE request.path # <<>>
    <3>1. PICK p \in Seq(Sections) : p = UserPath(request.path)
      BY <1>0, <2>3, UserPathWithin, WholeWithin
    <3>2. CASE Retry(p)
      BY <1>0, <2>1, <3>2, RetryTree
    <3>3. CASE request' = [request EXCEPT !.path = p] /\ Answer("response", at, p)
      BY <1>0, <2>1, <3>3, AnswerTree
    <3> QED BY <1>6, <2>3, <3>1, <3>2, <3>3 DEF UserResponse
  <2> QED BY <1>6, <2>2, <2>3 DEF UserResponse
<1>7. CASE UsersResponse \/ LoginResponse \/ LogoutResponse
  <2>1. /\ at \in Nodes /\ UNCHANGED <<asked, looped, cached, crashed>>
        /\ Respond \/ Retry(request.path)
    BY <1>7 DEF UsersResponse, LoginResponse, LogoutResponse, At
  <2> QED BY <1>2, <2>1
<1>8. CASE RegistrationResponse \/ AddFriendResponse \/ RemoveFriendResponse \/ PhonyResponse
  <2>1. at \in Nodes /\ UNCHANGED <<asked, looped, cached, crashed>> /\ Respond
    BY <1>8 DEF RegistrationResponse, AddFriendResponse, RemoveFriendResponse, PhonyResponse, At
  <2> QED BY <1>2, <2>1
<1>9. CASE FileResponse
  <2>1. /\ at \in Nodes /\ At("files") /\ UNCHANGED <<request, asked, looped, crashed>>
        /\ Answer("response", at, request.path)
        /\ cached' = cached \/ cached' = cached \cup {at}
    BY <1>9 DEF FileResponse, At
  <2> QED BY <1>0, <2>1, AnswerTree
<1>10. CASE Finish
  <2>1. /\ request' = NoRequest /\ asked' = <<>> /\ looped' = <<>> /\ answer' = NoAnswer
        /\ at' = "idle" /\ UNCHANGED <<entries, added, hosts, built, cached, crashed>>
    BY <1>0, <1>10 DEF Finish, manager
  <2>2. at' \notin Nodes \cup {"done"}
    BY <2>1, RoutingAssumption
  <2>3. BuiltInv'
    BY <2>1 DEF TreeInv, BuiltInv
  <2>4. AskedInv'
    <3>1. /\ NoRequest \in RequestType /\ [NoRequest EXCEPT !.path = <<>>] = NoRequest
          /\ <<>> \in Seq(Sections)
      <4>1. NoRequest.path = <<>>
        BY DEF NoRequest
      <4> QED BY <4>1, RequestFacts
    <3>2. NoAnswer.path = <<>> /\ NoAnswer.status = "none"
      BY DEF NoAnswer
    <3> QED BY <2>1, <3>1, <3>2 DEF AskedInv
  <2>5. ServedInv'
    BY <2>2 DEF ServedInv
  <2>6. Reached' = Reached
    BY <2>1 DEF Reached
  <2>7. CacheInv'
    BY <2>1, <2>6 DEF TreeInv, CacheInv
  <2> QED BY <2>3, <2>4, <2>5, <2>7 DEF TreeInv
<1> QED BY <1>1, <1>3, <1>4, <1>5, <1>6, <1>7, <1>8, <1>9, <1>10 DEF Route

\* Nothing is built, asked or cached.
LEMMA InitTree == Init => TreeInv
<1> SUFFICES ASSUME Init PROVE TreeInv
  OBVIOUS
<1>1. IInv
  BY InitInv
<1>2. /\ entries \in HostConfigs /\ added = 0 /\ hosts = <<>> /\ built = <<>>
      /\ request = NoRequest /\ asked = <<>> /\ looped = <<>> /\ answer = NoAnswer
      /\ at = "building" /\ cached = {} /\ crashed = FALSE
  BY DEF Init
<1>3. BuiltInv
  BY <1>2 DEF BuiltInv
<1>4. AskedInv
  <2>1. /\ NoRequest \in RequestType /\ [NoRequest EXCEPT !.path = <<>>] = NoRequest
        /\ <<>> \in Seq(Sections)
    <3>1. NoRequest.path = <<>>
      BY DEF NoRequest
    <3> QED BY <3>1, RequestFacts
  <2>2. NoAnswer.path = <<>> /\ NoAnswer.status = "none"
    BY DEF NoAnswer
  <2> QED BY <1>2, <2>1, <2>2 DEF AskedInv
<1>5. ServedInv
  BY <1>2, RoutingAssumption DEF ServedInv
<1>6. CacheInv
  BY <1>2 DEF CacheInv
<1> QED BY <1>1, <1>3, <1>4, <1>5, <1>6 DEF TreeInv

\* Every step preserves the invariant.
LEMMA StepTree == TreeInv /\ [Next]_vars => TreeInv'
<1> SUFFICES ASSUME TreeInv, [Next]_vars PROVE TreeInv'
  OBVIOUS
<1>0. IInv'
  BY StepInv DEF TreeInv
<1>1. CASE AddHost
  BY <1>1, AddHostTree
<1>2. CASE AddHostFails \/ Serve
  <2>1. /\ UNCHANGED <<entries, added, hosts, built, request, asked, looped, answer, cached, crashed>>
        /\ at' = "failed" \/ at' = "idle"
    BY <1>2 DEF AddHostFails, Serve, manager
  <2>2. BuiltInv' /\ AskedInv' /\ CacheInv'
    BY <2>1 DEF TreeInv, BuiltInv, AskedInv, CacheInv, Reached
  <2>3. ServedInv'
    BY <2>1, RoutingAssumption DEF ServedInv
  <2> QED BY <1>0, <2>2, <2>3 DEF TreeInv
<1>3. ASSUME Accept PROVE TreeInv'
  <2>0. PICK r \in Requests : request' = r /\ asked' = r.path
    BY <1>3 DEF Accept
  <2>1. /\ UNCHANGED <<entries, added, hosts, built, looped, answer, cached, crashed>>
        /\ request' = r /\ asked' = r.path /\ at' = "loop"
    BY <1>3, <2>0 DEF Accept, manager
  <2>2. at' \notin Nodes \cup {"done"}
    BY <2>1, RoutingAssumption
  <2>3. cached' \subseteq cached /\ crashed' \in BOOLEAN
    BY <2>1 DEF TreeInv, CacheInv
  <2> QED BY <1>0, <2>1, <2>2, <2>3, IdleTree
<1>4. CASE Route
  BY <1>0, <1>4, RoutedTree
<1>5. CASE ClearCache
  <2>1. /\ UNCHANGED <<entries, added, hosts, built, request, at, asked, looped, answer>>
        /\ cached' \subseteq cached /\ crashed' \in BOOLEAN
    BY <1>5 DEF ClearCache, manager, TreeInv, CacheInv
  <2>2. BuiltInv' /\ AskedInv' /\ ServedInv'
    BY <2>1 DEF TreeInv, BuiltInv, AskedInv, ServedInv, Served
  <2>3. CacheInv'
    BY <2>1 DEF TreeInv, CacheInv, Reached
  <2> QED BY <1>0, <2>2, <2>3 DEF TreeInv
<1>6. CASE UNCHANGED vars
  BY <1>0, <1>6 DEF vars, manager, TreeInv, BuiltInv, AskedInv, ServedInv, Served, CacheInv, Reached
<1> QED BY <1>1, <1>2, <1>3, <1>4, <1>5, <1>6 DEF Next

\* What was built, what is asked, who serves and what is cached agree.
THEOREM TreeSafe == Spec => []TreeInv
BY InitTree, StepTree, PTL DEF Spec

\* Every variable holds what the code stores in it; of a request only the path is
\* ever rewritten.
THEOREM TypeCorrect == Spec => []TypeOK
<1>1. TreeInv => TypeOK
  <2> SUFFICES ASSUME TreeInv PROVE TypeOK
    OBVIOUS
  <2>1. request.path \in Seq(Sections)
    BY DEF TreeInv, AskedInv, RequestType
  <2>2. \A x \in Range(hosts) : x \in DOMAIN built
    <3>1. \A i \in 1..added : entries[i] \in DOMAIN built
      BY EntryNode DEF TreeInv, IInv, BuiltInv
    <3> QED BY <3>1, HostsRange DEF TreeInv, IInv
  <2> QED BY <2>1, <2>2 DEF TreeInv, IInv, ManagerInv, Serving, BuiltInv, AskedInv, CacheInv, TypeOK
<1> QED BY TreeSafe, <1>1, PTL

\* However hosts are nested and however often a request is handed back, only a host
\* of the name and on the port that were asked for answers it, and for an end of the
\* path that was asked for, or "/".
THEOREM ServedSafe == Spec => []ServedAsAsked
<1>1. TreeInv => ServedAsAsked
  <2> SUFFICES ASSUME TreeInv, at = "done", answer.status = "response" PROVE ServedAsAsked
    BY DEF ServedAsAsked
  <2>1. answer.path = <<"">> \/ IsTail(answer.path, asked)
    BY DEF TreeInv, IInv, PathInv, Within
  <2>2. PICK i \in 1..added :
            /\ answer.node \in Below({entries[i]})
            /\ Own[entries[i]].name = request.host
            /\ request.port = request.server_port /\ request.port \in Own[entries[i]].ports
    BY DEF TreeInv, ServedInv, Served
  <2>3. built[answer.node] = Own[entries[i]]
    BY <2>2 DEF TreeInv, BuiltInv
  <2> QED BY <2>1, <2>2, <2>3 DEF ServedAsAsked
<1> QED BY TreeSafe, <1>1, PTL

\* SIGUSR1 leaves nothing mapped: whatever a file host keeps, the manager reaches it.
THEOREM ClearSafe == Spec => ClearReachesAll
<1>1. TreeInv /\ [Next]_vars => [UNCHANGED at /\ cached' # cached => cached' = {}]_vars
  <2> SUFFICES ASSUME TreeInv, Next, at' = at, cached' # cached PROVE cached' = {}
    BY DEF vars
  <2>1. CASE ClearCache
    BY <2>1 DEF ClearCache, TreeInv, CacheInv
  <2>2. CASE FileResponse
    <3>1. at \in Nodes /\ at' = "done"
      BY <2>2 DEF FileResponse, At, Answer
    <3> QED BY <3>1, RoutingAssumption
  <2>3. CASE ~ClearCache /\ ~FileResponse
    BY <2>3 DEF Next, AddHost, AddHostFails, Serve, Accept, Route, Dispatch, Descend,
       DescendToDefault, BadPath, UserResponse, UsersResponse, LoginResponse, LogoutResponse,
       RegistrationResponse, AddFriendResponse, RemoveFriendResponse, PhonyResponse, Finish
  <2> QED BY <2>1, <2>2, <2>3
<1> QED BY TreeSafe, <1>1, PTL DEF Spec, ClearReachesAll

-----------------------------------------------------------------------------
(***************************************************************************)
(* Handing a request back.  The code does not rule out a host that hands   *)
(* the request back as it got it: session::process_request would find the  *)
(* same host again, for ever.  It is the configuration that does, when it  *)
(* keeps such hosts under sections.                                        *)
(***************************************************************************)

\* A section or more has been taken off q.
Shorter(p, q) == Passes(p) < Passes(q)

\* A host that may hand the request back has lost at least its own section.
RetryInv ==
    at \in Nodes =>
        /\ looped \in Seq(Sections)
        /\ request.path = looped \/ Shorter(request.path, looped)
        /\ Kind[at] \in RetryKinds => Shorter(request.path, looped)

\* The passes left are counted from 1.
LEMMA PassesOf ==
    ASSUME NEW p \in Seq(Sections)
    PROVE  /\ Passes(p) \in Nat /\ 1 <= Passes(p) /\ Passes(p) <= Len(p) + 1
           /\ p # <<"">> => Passes(p) = Len(p) + 1
<1>1. PICK m \in Nat : m = Len(p)
  BY LenProperties
<1>2. m + 1 \in Nat /\ 1 <= m + 1 /\ m + 1 <= m + 1
  BY ONLY m \in Nat
<1>3. CASE p = <<"">>
  <2>1. Passes(p) = 1
    BY <1>3 DEF Passes
  <2>2. Len(<<"">>) = 1
    OBVIOUS
  <2>3. 1 <= m + 1 /\ 1 \in Nat /\ 1 <= 1
    BY ONLY m \in Nat
  <2> QED BY <1>1, <1>3, <2>1, <2>2, <2>3
<1>4. CASE p # <<"">>
  <2>1. Passes(p) = m + 1
    BY <1>1, <1>4 DEF Passes
  <2> QED BY <1>1, <1>2, <2>1
<1> QED BY <1>3, <1>4

\* A shorter path gets no longer.
LEMMA StripShorter ==
    ASSUME NEW p \in Seq(Sections), NEW q \in Seq(Sections), p # <<>>,
           Shorter(p, q) \/ (p = q /\ p # <<"">>)
    PROVE  Strip(p) \in Seq(Sections) /\ Strip(p) # <<>> /\ Shorter(Strip(p), q)
<1>1. Strip(p) \in Seq(Sections) /\ Strip(p) # <<>>
  BY StripWithin, WholeWithin
<1>2. PICK m \in Nat : m = Len(p)
  BY LenProperties
<1>3. PICK a \in Nat : a = Passes(p) /\ 1 <= a
  BY PassesOf
<1>4. PICK b \in Nat : b = Passes(q)
  BY PassesOf
<1>5. PICK c \in Nat : c = Passes(Strip(p)) /\ c <= Len(Strip(p)) + 1
  BY <1>1, PassesOf
<1>6. m # 0
  BY <1>2, EmptySeq
<1>7. p # <<"">> => a = m + 1
  BY <1>2, <1>3, PassesOf
<1>8. a < b \/ (a = b /\ p # <<"">>)
  BY <1>3, <1>4 DEF Shorter
<1>9. CASE m = 1
  <2>1. c = 1
    BY <1>2, <1>5, <1>9 DEF Strip, Passes
  <2>2. a < b \/ (a = b /\ a = m + 1)
    BY <1>7, <1>8
  <2>3. 1 <= a
    BY <1>3
  <2>4. c < b
    BY ONLY a \in Nat, b \in Nat, m \in Nat, <1>9, <2>1, <2>2, <2>3
  <2> QED BY <1>1, <1>4, <1>5, <2>4 DEF Shorter
<1>10. CASE m # 1
  <2>1. Len(Strip(p)) = m - 1
    BY <1>2, <1>10, HeadTailProperties DEF Strip
  <2>2. c <= (m - 1) + 1
    BY <1>5, <2>1
  <2>3. p # <<"">>
    <3>1. Len(<<"">>) = 1
      OBVIOUS
    <3> QED BY <1>2, <1>10, <3>1
  <2>4. a = m + 1 /\ (a < b \/ a = b)
    BY <1>7, <1>8, <2>3
  <2>5. c < b
    BY ONLY a \in Nat, b \in Nat, c \in Nat, m \in Nat, <2>2, <2>4
  <2> QED BY <1>1, <1>4, <1>5, <2>5 DEF Shorter
<1> QED BY <1>9, <1>10

\* A host of the manager hands nothing back at once.
LEMMA TopAnswers ==
    ASSUME RetryUnderSections, ManagerInv, entries \in HostConfigs, NEW h \in DOMAIN hosts
    PROVE  Kind[hosts[h]] \notin RetryKinds
<1>1. PICK i \in 1..added : h = Own[entries[i]].name
  BY DEF ManagerInv
<1>2. hosts[h] = entries[i]
  BY <1>1 DEF ManagerInv
<1>3. i \in DOMAIN entries /\ entries[i] \in Nodes
  BY EntryNode
<1>4. entries[i] \in Range(entries)
  BY <1>3 DEF Range
<1> QED BY <1>2, <1>3, <1>4 DEF RetryUnderSections

\* Every step keeps that, and hands back only what it has rewritten.
LEMMA StepRetry ==
    ASSUME RetryUnderSections, TreeInv, RetryInv, [Next]_vars
    PROVE  RetryInv' /\ ((at \in Nodes) /\ at' = "loop" => Shorter(request'.path, looped))
<1>0. /\ request.path \in Seq(Sections) /\ looped \in Seq(Sections) /\ request \in RequestType
      /\ "done" \notin Nodes /\ "loop" \notin Nodes /\ "idle" \notin Nodes
      /\ "building" \notin Nodes /\ "failed" \notin Nodes
  BY RoutingAssumption DEF TreeInv, AskedInv, RequestType
<1>1. ASSUME UNCHANGED <<at, request, looped>>
      PROVE  RetryInv' /\ ((at \in Nodes) /\ at' = "loop" => Shorter(request'.path, looped))
  BY <1>0, <1>1 DEF RetryInv
<1>2. ASSUME at' \notin Nodes \cup {"loop"}
      PROVE  RetryInv' /\ ((at \in Nodes) /\ at' = "loop" => Shorter(request'.path, looped))
  BY <1>2 DEF RetryInv
<1>3. ASSUME at \notin Nodes, at' \notin Nodes
      PROVE  RetryInv' /\ ((at \in Nodes) /\ at' = "loop" => Shorter(request'.path, looped))
  BY <1>3 DEF RetryInv
<1>4. CASE AddHost \/ AddHostFails \/ Serve \/ ClearCache \/ UNCHANGED vars
  BY <1>0, <1>1, <1>2, <1>4 DEF AddHost, AddHostFails, Serve, ClearCache, vars
<1>5. ASSUME Accept
      PROVE  RetryInv' /\ ((at \in Nodes) /\ at' = "loop" => Shorter(request'.path, looped))
  BY <1>0, <1>3, <1>5 DEF Accept
<1>6. CASE Dispatch
  <2>1. at = "loop" /\ looped' = request.path /\ UNCHANGED request
    BY <1>6 DEF Dispatch
  <2>2. CASE at' = "done"
    BY <1>0, <1>2, <2>2
  <2>3. CASE request.host \in DOMAIN hosts /\ at' = hosts[request.host]
    <3>1. Kind[at'] \notin RetryKinds
      BY <2>3, TopAnswers DEF TreeInv, IInv, BuiltInv
    <3> QED BY <1>0, <2>1, <3>1 DEF RetryInv
  <2> QED BY <1>6, <2>2, <2>3 DEF Dispatch, Answer
<1>7. CASE Descend
  <2>1. /\ at \in Nodes /\ request.path # <<>> /\ looped' = looped
        /\ request'.path = Strip(request.path)
        /\ First(request.path) \in DOMAIN Content[at]
        /\ at' = Content[at][First(request.path)]
    BY <1>0, <1>7 DEF Descend, At, RequestType
  <2>2. request.path # <<"">>
    <3>1. First(<<"">>) = ""
      BY DEF First
    <3>2. "" \notin DOMAIN Content[at]
      BY <2>1 DEF RetryUnderSections
    <3> QED BY <2>1, <3>1, <3>2
  <2>3. Shorter(Strip(request.path), looped)
    BY <1>0, <2>1, <2>2, StripShorter DEF RetryInv
  <2>4. at' \in Nodes
    BY <2>1, RoutingAssumption
  <2> QED BY <1>0, <2>1, <2>3, <2>4 DEF RetryInv
<1>8. CASE DescendToDefault
  <2>1. CASE at' = "done"
    BY <1>0, <1>2, <2>1
  <2>2. CASE at' = Default[at] /\ Default[at] # NoHost
    <3>1. at \in Nodes /\ UNCHANGED <<request, looped>>
      BY <1>8 DEF DescendToDefault, At
    <3>2. at' \in Nodes /\ Kind[at'] \notin RetryKinds
      <4>1. Default[at] \in Nodes
        BY <2>2, <3>1, RoutingAssumption
      <4> QED BY <2>2, <3>1, <4>1 DEF RetryUnderSections
    <3> QED BY <1>0, <3>1, <3>2 DEF RetryInv
  <2> QED BY <1>8, <2>1, <2>2 DEF DescendToDefault, Answer
<1>9. CASE BadPath \/ RegistrationResponse \/ AddFriendResponse \/ RemoveFriendResponse
           \/ PhonyResponse \/ FileResponse \/ Finish
  <2>1. at' = "done" \/ at' = "idle"
    BY <1>9 DEF BadPath, RegistrationResponse, AddFriendResponse, RemoveFriendResponse,
                PhonyResponse, FileResponse, Finish, Respond, Answer
  <2> QED BY <1>0, <1>2, <2>1
<1>10. ASSUME at \in Nodes, Kind[at] \in RetryKinds,
              NEW p \in Seq(Sections), Shorter(p, looped), Retry(p)
       PROVE  RetryInv' /\ ((at \in Nodes) /\ at' = "loop" => Shorter(request'.path, looped))
  <2>1. at' = "loop" /\ request'.path = p
    BY <1>0, <1>10 DEF Retry, RequestType
  <2> QED BY <1>0, <1>10, <2>1 DEF RetryInv
<1>11. CASE UserResponse
  <2>1. at \in Nodes /\ Kind[at] \in RetryKinds /\ Shorter(request.path, looped)
    BY <1>11 DEF UserResponse, At, RetryInv, RetryKinds
  <2>2. CASE at' = "done"
    BY <1>0, <1>2, <2>2
  <2>3. CASE request.path # <<>> /\ Retry(UserPath(request.path))
    <3>1. PICK s \in Seq(Sections) : s = Strip(request.path) /\ s # <<>> /\ Shorter(s, looped)
      BY <1>0, <2>1, <2>3, StripShorter
    <3>2. Strip(s) \in Seq(Sections) /\ Shorter(Strip(s), looped)
      BY <1>0, <3>1, StripShorter
    <3>3. UserPath(request.path) \in Seq(Sections) /\ Shorter(UserPath(request.path), looped)
      BY <1>0, <2>1, <3>1, <3>2 DEF UserPath
    <3> QED BY <1>10, <2>1, <2>3, <3>3
  <2> QED BY <1>11, <2>2, <2>3 DEF UserResponse, Respond, Answer
<1>12. CASE UsersResponse \/ LoginResponse \/ LogoutResponse
  <2>1. at \in Nodes /\ Kind[at] \in RetryKinds /\ Shorter(request.path, looped)
    BY <1>12 DEF UsersResponse, LoginResponse, LogoutResponse, At, RetryInv, RetryKinds
  <2>2. CASE at' = "done"
    BY <1>0, <1>2, <2>2
  <2>3. CASE Retry(request.path)
    BY <1>0, <1>10, <2>1, <2>3
  <2> QED BY <1>12, <2>2, <2>3 DEF UsersResponse, LoginResponse, LogoutResponse, Respond, Answer
<1> QED BY <1>4, <1>5, <1>6, <1>7, <1>8, <1>9, <1>11, <1>12 DEF Next, Route

\* session.cpp: "request was rewrote => process it again".  With such a configuration
\* it has lost sections: each pass of the loop has fewer left before it.
THEOREM RewrittenSafe ==
    ASSUME RetryUnderSections
    PROVE  Spec => RewrittenOnRetry
<1>1. Init => RetryInv
  BY RoutingAssumption DEF Init, RetryInv
<1>2. TreeInv /\ RetryInv /\ [Next]_vars =>
          RetryInv' /\ [(at \in Nodes) /\ at' = "loop" => Shorter(request'.path, looped)]_vars
  BY StepRetry
<1> QED BY <1>1, <1>2, TreeSafe, PTL DEF Spec, RewrittenOnRetry, Shorter
=============================================================================
