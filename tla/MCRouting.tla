------------------------------ MODULE MCRouting ------------------------------
\* Configurations: the one of config/server.json, with a section that is closed
\* and a second host on another port; some that cannot be built; and the first
\* one without a default host.
EXTENDS Routing

LogicKinds == {"user", "users", "login", "logout", "registration",
               "add_friend", "remove_friend"}

\* The node of a logic host is named for its kind, its section too.
SomeNested  == LogicKinds \cup {"phony", "files"}
ServerNodes == {"root", "admin", "twin", "unnamed", "rootless", "odd", "misspelt"} \cup SomeNested
ServerKind  == [n \in ServerNodes |-> CASE n \in {"root", "odd"} -> "hierarchy"
                                        [] n \in {"admin", "twin", "unnamed", "rootless"} -> "files"
                                        [] OTHER -> n]
Named(name, ports) == [name |-> name, ports |-> ports]
\* A nested host may have a name and ports of its own, which do not count.
ServerOwn   == [n \in ServerNodes |-> CASE n = "root"  -> Named("localhost", {8080})
                                        [] n = "admin" -> Named("admin", {8081})
                                        [] n = "twin"  -> Named("localhost", {8081})
                                        [] n = "rootless" -> Named("rootless", {8081})
                                        [] n = "odd"   -> Named("odd", {8080})
                                        [] n = "users" -> Named("users", {80})
                                        [] OTHER       -> Named("none", {})]
Sites       == [s \in LogicKinds \cup {"phony"} |-> s]
ServerContent == [n \in ServerNodes |-> CASE n = "root" -> Sites
                                          [] n = "odd"  -> [s \in {"css"} |-> "misspelt"]
                                          [] OTHER      -> <<>>]
ServerDefault == [n \in ServerNodes |-> IF n = "root" THEN "files" ELSE "none"]
NoDefault     == [n \in ServerNodes |-> "none"]
ServerHosts   == {<<"root", "admin">>, <<"root", "twin">>, <<"admin", "odd">>, <<"unnamed">>,
                  <<"rootless">>}
WithRoot      == ServerNodes \ {"rootless"}
OnlyLocalhost == {<<"root">>}

\* "ab" stands for a user reference, "css" for any other section.
SomeSections == LogicKinds \cup {"phony", "", "ab", "css"}
Paths == {<<>>} \cup UNION {[1..n -> SomeSections] : n \in 1..3}
         \cup [1..4 -> {"user", "users", "logout", "ab", "css"}]

AllRequests ==
    [host : {"localhost"}, port : {8080}, server_port : {8080}, path : Paths,
     post : BOOLEAN, json : BOOLEAN]
    \cup [host : {"localhost", "admin", "nowhere"}, port : {80, 8080, 8081},
          server_port : {8080, 8081}, path : {<<"">>, <<"users", "css">>},
          post : BOOLEAN, json : {FALSE}]

FewRequests ==
    [host : {"localhost"}, port : {8080}, server_port : {8080},
     path : UNION {[1..n -> SomeSections] : n \in 1..2},
     post : BOOLEAN, json : BOOLEAN]

\* What the proof that requests are rewritten asks of a configuration.
ASSUME RetryUnderSections
=============================================================================
