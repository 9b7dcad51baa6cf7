--------------------------- MODULE McpGatewayProofs ---------------------------
(***************************************************************************)
(* Proofs about McpGateway, for every configuration file, whatever the     *)
(* servers publish and return and the API says of a text, and for every    *)
(* number of requests at a time.                                           *)
(*                                                                         *)
(* Beside what the properties say, the invariant has to know that the      *)
(* routing table names every tool once (a verdict is remembered by name),  *)
(* and that a verdict which was settled when a listing began is neither    *)
(* overwritten nor being judged again while the listing goes on.           *)
(***************************************************************************)
EXTENDS McpGateway, FiniteSetTheorems, SequenceTheorems, WellFoundedInduction, TLAPS

USE McpAssumption

-----------------------------------------------------------------------------
(* The order of the routing table *)

\* A set of natural numbers that is not empty has a least element.
LEMMA Least ==
    ASSUME NEW T, T \subseteq Nat, T # {}
    PROVE  \E n \in T : \A m \in T : n <= m
<1>1. \E R : IsWellFoundedOn(R, Nat) /\ \A x, y \in Nat : <<x, y>> \in R <=> x < y
  <2>1. IsWellFoundedOn(OpToRel(<, Nat), Nat)
    BY NatLessThanWellFounded
  <2>2. \A x, y \in Nat : <<x, y>> \in OpToRel(<, Nat) <=> x < y
    BY DEF OpToRel
  <2> QED BY <2>1, <2>2
<1>2. PICK R : IsWellFoundedOn(R, Nat) /\ \A x, y \in Nat : <<x, y>> \in R <=> x < y
  BY <1>1
<1>3. IsWellFoundedOn(R, Nat)
  BY <1>2
<1>4. PICK x \in T : \A y \in T : ~(<<y, x>> \in R)
  BY <1>3, WFMin, Zenon
<1>5. ASSUME NEW y \in T PROVE x <= y
  <2>1. x \in Nat /\ y \in Nat
    OBVIOUS
  <2>2. ~(y < x)
    BY <1>2, <1>4, <2>1, Zenon
  <2> QED BY <2>1, <2>2
<1> QED BY <1>5

LEMMA Greatest ==
    ASSUME NEW n \in Nat, NEW S \in SUBSET (1..n), S # {}
    PROVE  \E m \in S : \A x \in S : x <= m
<1>1. {n - x : x \in S} \subseteq Nat /\ {n - x : x \in S} # {}
  OBVIOUS
<1>2. PICK k \in {n - x : x \in S} : \A l \in {n - x : x \in S} : k <= l
  BY <1>1, Least
<1>3. PICK m \in S : k = n - m
  BY <1>2
<1>4. \A x \in S : n - m <= n - x
  BY <1>2, <1>3
<1> QED BY <1>3, <1>4

LEMMA FiniteIndices ==
    ASSUME NEW n \in Nat, NEW U \in SUBSET (1..n)
    PROVE  IsFiniteSet(U) /\ Cardinality(U) \in Nat
<1>1. 1 \in Int /\ n \in Int
  OBVIOUS
<1>2. IsFiniteSet(1..n)
  BY <1>1, FS_Interval, Zenon
<1>3. IsFiniteSet(U)
  BY <1>2, FS_Subset
<1> QED BY <1>3, FS_CardinalityType

Ascending(q, S) ==
    q \in [1..Cardinality(S) -> S] /\ \A i, j \in DOMAIN q : i < j => q[i] < q[j]

\* By induction on the size of the set: its greatest element comes last.
LEMMA OrderExists ==
    ASSUME NEW n \in Nat, NEW S \in SUBSET (1..n)
    PROVE  \E q : Ascending(q, S)
<1> DEFINE Without == {k \in Nat : \E U \in SUBSET (1..n) : Cardinality(U) = k /\ ~\E q : Ascending(q, U)}
<1>1. \A U \in SUBSET (1..n) : IsFiniteSet(U) /\ Cardinality(U) \in Nat
  BY FiniteIndices
<1>2. SUFFICES ASSUME Without # {} PROVE FALSE
  BY <1>1
<1>3. PICK k \in Without : \A l \in Without : k <= l
  BY <1>2, Least
<1>4. PICK U \in SUBSET (1..n) : Cardinality(U) = k /\ ~\E q : Ascending(q, U)
  BY <1>3
<1>5. CASE U = {}
  <2>1. Cardinality(U) = 0
    BY <1>5, FS_EmptySet
  <2>2. Ascending([i \in 1..0 |-> 0], U)
    BY <1>5, <2>1 DEF Ascending
  <2> QED BY <1>4, <2>2
<1>6. CASE U # {}
  <2>1. PICK m \in U : \A x \in U : x <= m
    BY <1>6, Greatest
  <2>2. /\ U \ {m} \in SUBSET (1..n) /\ Cardinality(U \ {m}) = Cardinality(U) - 1
        /\ Cardinality(U \ {m}) \in Nat /\ Cardinality(U) \in Nat
    BY <1>1, FS_RemoveElement
  <2>3. Cardinality(U \ {m}) \notin Without
    <3> SUFFICES ASSUME Cardinality(U \ {m}) \in Without PROVE FALSE
      OBVIOUS
    <3>1. k <= Cardinality(U \ {m})
      BY <1>3
    <3> QED BY <1>4, <2>2, <3>1
  <2>4. PICK q : Ascending(q, U \ {m})
    BY <2>2, <2>3
  <2>5. PICK c \in Nat : c = Cardinality(U) /\ c # 0 /\ Cardinality(U \ {m}) = c - 1
    BY <2>2
  <2>6. q \in [1..(c - 1) -> U \ {m}] /\ \A i, j \in 1..(c - 1) : i < j => q[i] < q[j]
    BY <2>4, <2>5 DEF Ascending
  <2>7. PICK p : p = [i \in 1..c |-> IF i = c THEN m ELSE q[i]]
    OBVIOUS
  <2>8. p \in [1..c -> U]
    BY <2>6, <2>7
  <2>9. ASSUME NEW i \in 1..c, NEW j \in 1..c, i < j PROVE p[i] < p[j]
    <3>1. i \in 1..(c - 1) /\ p[i] = q[i] /\ q[i] \in U \ {m}
      BY <2>6, <2>7, <2>9
    <3>2. CASE j = c
      BY <2>1, <2>7, <3>1, <3>2
    <3>3. CASE j # c
      BY <2>6, <2>7, <2>9, <3>1, <3>3
    <3> QED BY <3>2, <3>3
  <2>10. Ascending(p, U)
    BY <2>5, <2>8, <2>9 DEF Ascending
  <2> QED BY <1>4, <2>10
<1> QED BY <1>5, <1>6

LEMMA InOrderAscends ==
    ASSUME NEW n \in Nat, NEW S \in SUBSET (1..n)
    PROVE  /\ InOrder(S) \in [1..Cardinality(S) -> S] /\ Cardinality(S) \in Nat
           /\ \A i, j \in 1..Cardinality(S) : InOrder(S)[i] = InOrder(S)[j] => i = j
<1>1. Cardinality(S) \in Nat
  BY FiniteIndices
<1>2. \E q \in [1..Cardinality(S) -> S] : \A i, j \in DOMAIN q : i < j => q[i] < q[j]
  BY OrderExists DEF Ascending
<1>3. /\ InOrder(S) \in [1..Cardinality(S) -> S]
      /\ \A i, j \in DOMAIN InOrder(S) : i < j => InOrder(S)[i] < InOrder(S)[j]
  BY <1>2 DEF InOrder
<1>4. PICK q \in [1..Cardinality(S) -> S] : q = InOrder(S) /\ \A i, j \in DOMAIN q : i < j => q[i] < q[j]
  BY <1>3
<1>5. ASSUME NEW i \in 1..Cardinality(S), NEW j \in 1..Cardinality(S), q[i] = q[j], i # j PROVE FALSE
  <2>1. q[i] \in Nat /\ q[j] \in Nat /\ i \in Nat /\ j \in Nat
    BY <1>1
  <2>2. q[i] < q[j] \/ q[j] < q[i]
    BY <1>4, <1>5, <2>1
  <2> QED BY <1>5, <2>1, <2>2
<1> QED BY <1>1, <1>4, <1>5

-----------------------------------------------------------------------------
(* The invariant *)

Tools(s) == DOMAIN Published[s]
Routes == UNION {{Route(s, Published[s][i]) : i \in Tools(s)} : s \in DOMAIN Published}
Answers == [kind : {"refusal", "tools", "result"}, texts : SUBSET (Texts \cup {Redacted}),
            binary : BOOLEAN, meta : BOOLEAN]
Verdicts == BOOLEAN \cup {None}
Requests ==
    [pc : {"idle", "list", "judge", "arguments", "forward", "called", "result", "answered"},
     call : Calls \cup {None}, turn : Nat, at : Nat, tools : SUBSET Names,
     known : [Names -> Verdicts] \cup {<<>>}, result : Results \cup {None}, answer : Answers \cup {None}]

Types ==
    /\ config \in Configs
    /\ phase \in Phases
    /\ connected \in 0..Len(config.servers)
    /\ routes \in Seq(Routes)
    /\ seen \in [Names -> Verdicts]
    /\ turn \in Nat
    /\ req \in [Clients -> Requests]
    /\ received \subseteq Calls

\* What startup has established, and what has not begun before it ends.
Loaded == phase \in {"connect", "serving"} => load_config(config) /\ require_enforcement(config)
NotBegun ==
    phase \notin {"serving", "closed"} =>
        /\ \A key \in Names : seen[key] = None
        /\ \A c \in Clients : req[c].pc = "idle"
        /\ received = {}

\* A tool in the table is of a configured server, and no tool is in it twice.
Owned ==
    \A i \in DOMAIN routes : \E j \in DOMAIN config.servers :
        config.servers[j].name = routes[i].server /\ (phase \in {"start", "connect"} => j <= connected)
KeysUnique == \A i, j \in DOMAIN routes : Key(routes[i]) = Key(routes[j]) => i = j

Startups == Loaded /\ NotBegun /\ Owned /\ KeysUnique /\ ServesInFull

\* A definition without a text that is refused.
Clean(route) ==
    \A part \in route.prose : part.depth <= MaxDepth => Judge[part.text] \notin {"block", "large"}
ScansDefinitions == Enforcing /\ config.scan.definitions
SeenOK ==
    /\ \A i \in DOMAIN routes : seen[Key(routes[i])] = TRUE => Clean(routes[i])
    /\ ~ScansDefinitions => \A key \in Names : seen[key] = None

\* A listing: the tools before r.at are decided, those from r.at on are not.
Listing(r) == r.pc \in {"list", "judge"} \/ (r.pc = "answered" /\ r.answer.kind = "tools")
ListOK(r) ==
    Listing(r) =>
        /\ r.at # 0
        /\ r.known \in [Names -> Verdicts]
        /\ \A i \in DOMAIN routes : r.at <= i => Key(routes[i]) \notin r.tools
        /\ ScansDefinitions => \A i \in DOMAIN routes : Key(routes[i]) \in r.tools => Clean(routes[i])
        /\ \A i \in DOMAIN routes : (i < r.at /\ r.known[Key(routes[i])] # None)
              => (r.known[Key(routes[i])] = TRUE <=> Key(routes[i]) \in r.tools)
        /\ \A key \in Names : r.known[key] # None => seen[key] = r.known[key]
        /\ r.pc = "judge" => r.at \in DOMAIN routes /\ ScansDefinitions
        /\ r.pc = "answered" => \A i \in DOMAIN routes : i < r.at

\* A definition whose verdict was settled when a listing began is not judged
\* again while it goes on.
Settled ==
    \A c, d \in Clients : Listing(req[c]) /\ req[d].pc = "judge"
        => req[c].known[Key(routes[req[d].at])] = None

\* A call that has passed the policy, and one whose arguments have passed too.
Permits(call) == resolve(call) /\ ~policy_refusal(call.server, call.raw)
Passes(call) == Permits(call) /\ (config.scan.arguments => Judge[call.args] \notin {"block", "large"})
CallOK(r) ==
    /\ r.pc \in {"arguments", "forward", "called", "result"} => r.call \in Calls
    /\ Enforcing /\ r.pc = "arguments" => Permits(r.call)
    /\ Enforcing /\ r.pc = "forward" => Passes(r.call)
ReceivedOK == Enforcing => \A call \in received : Passes(call)

\* An answer shows what was looked at.
AnswerOK(r) ==
    /\ r.pc = "result" => r.result \in Results
    /\ r.pc = "answered" =>
         /\ r.answer \in Answers
         /\ Enforcing => ~r.answer.meta
         /\ (Enforcing /\ config.scan.results /\ r.answer.kind = "result") =>
               r.answer = sanitized_result \/ \A t \in r.answer.texts : Judge[t] \in {"allow", "flag", "empty"}

RequestOK(r) == ListOK(r) /\ CallOK(r) /\ AnswerOK(r)
RequestsOK == \A c \in Clients : RequestOK(req[c])

Inv == Types /\ Startups /\ SeenOK /\ Settled /\ ReceivedOK /\ RequestsOK

-----------------------------------------------------------------------------
(* Types of the parts *)

LEMMA RouteType ==
    ASSUME NEW s \in DOMAIN Published, NEW i \in Tools(s)
    PROVE  /\ Route(s, Published[s][i]) \in Routes /\ Route(s, Published[s][i]).server = s
           /\ Route(s, Published[s][i]).raw = Published[s][i].raw
           /\ Route(s, Published[s][i]).prose = Published[s][i].prose
           /\ Key(Route(s, Published[s][i])) = <<s, Published[s][i].raw>>
BY DEF Routes, Route, Key

LEMMA RouteIs ==
    ASSUME NEW r \in Routes
    PROVE  \E s \in DOMAIN Published : \E i \in Tools(s) : r = Route(s, Published[s][i])
BY DEF Routes

LEMMA RouteKey ==
    ASSUME NEW r \in Routes
    PROVE  Key(r) \in Names /\ \A part \in r.prose : part.text \in Texts /\ part.depth \in Nat
<1>1. PICK s \in DOMAIN Published : \E i \in Tools(s) : r = Route(s, Published[s][i])
  BY RouteIs
<1>1a. PICK i \in Tools(s) : r = Route(s, Published[s][i])
  BY <1>1
<1>2. Key(r) = <<s, Published[s][i].raw>> /\ r.prose = Published[s][i].prose
  BY <1>1a, RouteType
<1>3. <<s, Published[s][i].raw>> \in Names
  BY DEF Names, Tools
<1> QED BY <1>2, <1>3 DEF McpAssumption, Tools

LEMMA NoReqType ==
    /\ NoReq \in Requests /\ NoReq.pc = "idle"
    /\ NoReq.at = 1 /\ NoReq.tools = {}
BY DEF NoReq, Requests

LEMMA IdleOK ==
    ASSUME NEW r, r.pc = "idle"
    PROVE  RequestOK(r) /\ ~Listing(r)
BY DEF RequestOK, ListOK, CallOK, AnswerOK, Listing

LEMMA InvInit == Init => Inv
<1> SUFFICES ASSUME Init PROVE Inv
  OBVIOUS
<1>1. Types
  BY NoReqType DEF Init, Types, Phases, Verdicts, McpAssumption
<1>2. Startups
  BY NoReqType DEF Init, Startups, Loaded, NotBegun, Owned, KeysUnique, ServesInFull
<1>3. SeenOK /\ Settled /\ ReceivedOK
  BY NoReqType DEF Init, SeenOK, Settled, ReceivedOK
<1>4. RequestsOK
  BY NoReqType, IdleOK DEF Init, RequestsOK
<1> QED BY <1>1, <1>2, <1>3, <1>4 DEF Inv

-----------------------------------------------------------------------------
(* Startup *)

\* add_server appends tools of its server, each name once.
LEMMA TableGrows ==
    ASSUME NEW table \in Seq(Routes), NEW s \in DOMAIN Published
    PROVE  \E grown \in Seq(Routes) :
             /\ grown = add_server(table, s, Published[s])
             /\ \A i \in DOMAIN table : i \in DOMAIN grown /\ grown[i] = table[i]
             /\ \A i \in DOMAIN grown \ DOMAIN table : grown[i].server = s
             /\ \A i, j \in DOMAIN grown \ DOMAIN table : Key(grown[i]) = Key(grown[j]) => i = j
<1> DEFINE tools == Published[s]
           kept == {i \in DOMAIN tools : tools[i].conforms /\ \A j \in 1..(i - 1) :
                       tools[j].conforms => tools[j].raw # tools[i].raw}
<1>1. DOMAIN tools = 1..Len(tools) /\ Len(tools) \in Nat
  BY DEF McpAssumption
<1>2. kept \in SUBSET (1..Len(tools))
  BY <1>1
<1>3. PICK S \in SUBSET (1..Len(tools)) : S = kept
  BY <1>2
<1>4. PICK n \in Nat : n = Cardinality(S)
  BY <1>1, FiniteIndices
<1>5. PICK q \in [1..n -> S] : q = InOrder(S) /\ \A i, j \in 1..n : q[i] = q[j] => i = j
  BY <1>1, <1>4, InOrderAscends, SMTT(30)
<1>6. PICK added : added = [k \in 1..n |-> Route(s, tools[q[k]])]
  OBVIOUS
<1>7. add_server(table, s, tools) = table \o added
  BY <1>3, <1>4, <1>5, <1>6 DEF add_server
<1>8. \A k \in 1..n : /\ added[k] \in Routes /\ added[k].server = s
                      /\ added[k].raw = tools[q[k]].raw /\ q[k] \in kept
  <2> SUFFICES ASSUME NEW k \in 1..n
               PROVE  /\ added[k] \in Routes /\ added[k].server = s
                      /\ added[k].raw = tools[q[k]].raw /\ q[k] \in kept
    OBVIOUS
  <2>1. q[k] \in kept /\ q[k] \in Tools(s)
    BY <1>3, <1>5 DEF Tools
  <2>2. added[k] = Route(s, Published[s][q[k]])
    BY <1>6
  <2> HIDE DEF kept
  <2> QED BY <2>1, <2>2, RouteType
<1>9. added \in Seq(Routes) /\ Len(added) = n
  <2>1. \A k \in 1..n : added[k] \in Routes
    BY <1>8
  <2>2. added \in [1..n -> Routes] /\ n \in Nat
    BY <1>6, <2>1
  <2> HIDE DEF kept, tools
  <2>3. added \in Seq(Routes)
    BY <2>2, SeqDef
  <2>4. Len(added) \in Nat /\ 1..Len(added) = 1..n
    BY <2>2, <2>3, LenProperties
  <2> QED BY <2>2, <2>3, <2>4
<1>10. ASSUME NEW i \in 1..n, NEW j \in 1..n, Key(added[i]) = Key(added[j]) PROVE i = j
  <2>1. tools[q[i]].raw = tools[q[j]].raw
    BY <1>8, <1>10 DEF Key
  <2>2. q[i] \in kept /\ q[j] \in kept /\ q[i] \in Nat /\ q[j] \in Nat
    BY <1>1, <1>8
  <2>3. ~(q[i] < q[j]) /\ ~(q[j] < q[i])
    <3>1. \A x, y \in kept : x < y => tools[x].raw # tools[y].raw
      BY <1>1
    <3> QED BY <2>1, <2>2, <3>1
  <2>4. q[i] = q[j]
    BY <2>2, <2>3
  <2> QED BY <1>5, <2>4
<1> HIDE DEF kept, tools
<1>10a. table \o added \in Seq(Routes) /\ Len(table \o added) = Len(table) + Len(added)
  BY <1>9, ConcatProperties
<1>11. PICK grown \in Seq(Routes) : grown = table \o added /\ Len(grown) = Len(table) + n
  BY <1>9, <1>10a
<1>12. PICK m \in Nat : m = Len(table) /\ DOMAIN table = 1..m /\ DOMAIN grown = 1..(m + n)
  BY <1>11, LenProperties
<1>13. /\ \A i \in 1..m : grown[i] = table[i]
       /\ \A i \in (1..(m + n)) \ (1..m) : i - m \in 1..n /\ grown[i] = added[i - m]
  <2> HIDE DEF kept, tools
  <2> QED BY <1>9, <1>11, <1>12, ConcatProperties
<1>14. \A i \in (1..(m + n)) \ (1..m) : grown[i].server = s
  BY <1>8, <1>13, SMTT(30)
<1>15. ASSUME NEW i \in (1..(m + n)) \ (1..m), NEW j \in (1..(m + n)) \ (1..m), Key(grown[i]) = Key(grown[j])
       PROVE  i = j
  <2>1. PICK x \in 1..n : x = i - m /\ grown[i] = added[x]
    BY <1>13
  <2>2. PICK y \in 1..n : y = j - m /\ grown[j] = added[y]
    BY <1>13
  <2>3. x = y
    BY <1>10, <1>15, <2>1, <2>2
  <2> QED BY <2>1, <2>2, <2>3
<1>16. grown = add_server(table, s, Published[s])
  BY <1>7, <1>11 DEF tools
<1>17. \A i \in DOMAIN table : i \in DOMAIN grown /\ grown[i] = table[i]
  BY <1>12, <1>13
<1>18. \A i \in DOMAIN grown \ DOMAIN table : grown[i].server = s
  BY <1>12, <1>14
<1>19. \A i, j \in DOMAIN grown \ DOMAIN table : Key(grown[i]) = Key(grown[j]) => i = j
  BY <1>12, <1>15
<1> QED BY <1>16, <1>17, <1>18, <1>19, Zenon

\* Nothing is under way before the gateway serves, so that a step of startup
\* leaves nothing to show about requests.
LEMMA QuietOK ==
    ASSUME NotBegun, phase \notin {"serving", "closed"}, Types', Startup
    PROVE  SeenOK' /\ Settled' /\ ReceivedOK' /\ RequestsOK'
<1>1. /\ \A c \in Clients : req[c].pc = "idle"
      /\ \A key \in Names : seen[key] = None
      /\ req' = req /\ seen' = seen /\ received' = {}
  BY DEF NotBegun, Startup
<1>2. \A i \in DOMAIN routes' : Key(routes'[i]) \in Names
  BY RouteKey DEF Types
<1>3. \A i \in DOMAIN routes' : seen'[Key(routes'[i])] = None
  BY <1>1, <1>2
<1>4. SeenOK'
  BY <1>1, <1>3 DEF SeenOK, McpAssumption, Key
<1>5. RequestsOK'
  BY <1>1 DEF RequestsOK, RequestOK, ListOK, CallOK, AnswerOK, Listing
<1>6. Settled' /\ ReceivedOK'
  BY <1>1 DEF Settled, ReceivedOK
<1> QED BY <1>4, <1>5, <1>6

LEMMA StartStep ==
    ASSUME Inv, NEW package \in Packages, start(package)
    PROVE  Types' /\ Startups' /\ phase' \notin {"serving", "closed"}
<1> USE DEF Inv, start, Startup
<1>1. Types' /\ phase' \in {"connect", "refused"}
  BY DEF Types, Phases
<1>2. Loaded' /\ ServesInFull'
  BY <1>1 DEF Loaded, ServesInFull, load_config, require_enforcement, server_ok, wrapsec_ok, scan_ok, config_ok
<1>3. NotBegun' /\ KeysUnique' /\ Owned'
  BY <1>1 DEF Startups, NotBegun, KeysUnique, Owned, Key
<1> QED BY <1>1, <1>2, <1>3 DEF Startups

LEMMA ConnectStep ==
    ASSUME Inv, connect
    PROVE  Types' /\ Startups' /\ phase' \notin {"serving", "closed"}
<1> USE DEF Inv, Startup
<1>1. PICK k \in Nat : k = connected + 1 /\ k \in DOMAIN config.servers /\ connected \in Nat
  BY DEF connect, Types, McpAssumption
<1>2. PICK s \in DOMAIN Published : s = config.servers[k].name
  BY <1>1 DEF Types, McpAssumption
<1>3. routes \in Seq(Routes)
  BY DEF Types
<1>4. PICK grown \in Seq(Routes) :
        /\ grown = add_server(routes, s, Published[s])
        /\ \A i \in DOMAIN routes : i \in DOMAIN grown /\ grown[i] = routes[i]
        /\ \A i \in DOMAIN grown \ DOMAIN routes : grown[i].server = s
        /\ \A i, j \in DOMAIN grown \ DOMAIN routes : Key(grown[i]) = Key(grown[j]) => i = j
  BY <1>3, TableGrows
<1>5. /\ routes' = grown /\ connected' = k /\ config' = config /\ phase' = phase /\ phase = "connect"
      /\ seen' = seen /\ req' = req /\ received' = received /\ turn' = turn
  BY <1>1, <1>2, <1>4 DEF connect
<1>6. Types'
  BY <1>1, <1>5 DEF Types, McpAssumption
<1>7. Loaded' /\ ServesInFull' /\ NotBegun'
  BY <1>5 DEF Startups, Loaded, ServesInFull, NotBegun, load_config, require_enforcement, server_ok, wrapsec_ok,
              scan_ok, config_ok
<1>8. Owned'
  <2> SUFFICES ASSUME NEW i \in DOMAIN grown
               PROVE  \E j \in DOMAIN config.servers : config.servers[j].name = grown[i].server /\ j <= k
    BY <1>5 DEF Owned
  <2>1. CASE i \in DOMAIN routes
    <3>1. PICK j \in DOMAIN config.servers : config.servers[j].name = routes[i].server /\ j <= connected
      BY <1>5, <2>1 DEF Startups, Owned
    <3>2. j \in Nat
      BY DEF Types, McpAssumption
    <3> QED BY <1>1, <1>4, <2>1, <3>1, <3>2
  <2>2. CASE i \notin DOMAIN routes
    BY <1>1, <1>2, <1>4, <2>2
  <2> QED BY <2>1, <2>2
<1>9. KeysUnique'
  <2>1. ASSUME NEW i \in DOMAIN routes, NEW j \in DOMAIN grown \ DOMAIN routes PROVE Key(grown[i]) # Key(grown[j])
    <3>1. PICK l \in DOMAIN config.servers : config.servers[l].name = routes[i].server /\ l <= connected
      BY <1>5 DEF Startups, Owned
    <3>2. l # k
      BY <1>1, <3>1 DEF Types, McpAssumption
    <3>3. config.servers[l].name # config.servers[k].name
      BY <1>1, <1>5, <3>2 DEF Startups, Loaded, load_config, config_ok
    <3> QED BY <1>2, <1>4, <3>1, <3>3, SMTT(30) DEF Key
  <2>2. \A i, j \in DOMAIN routes : Key(grown[i]) = Key(grown[j]) => i = j
    BY <1>4 DEF Startups, KeysUnique
  <2> QED BY <1>4, <1>5, <2>1, <2>2 DEF KeysUnique
<1> QED BY <1>5, <1>6, <1>7, <1>8, <1>9 DEF Startups

LEMMA RefusedStep ==
    ASSUME Inv, connect_fails
    PROVE  Types' /\ Startups' /\ phase' \notin {"serving", "closed"}
<1> USE DEF Inv, connect_fails, Startup
<1>1. Types' /\ phase' = "refused"
  BY DEF Types, Phases
<1>2. Startups'
  BY <1>1 DEF Startups, Loaded, ServesInFull, NotBegun, KeysUnique, Owned, Key
<1> QED BY <1>1, <1>2

LEMMA ServeStep ==
    ASSUME Inv, serve
    PROVE  Types' /\ Startups'
<1> USE DEF Inv, serve, Startup
<1>1. Types' /\ phase' \in {"refused", "serving"} /\ config' = config /\ routes' = routes
  BY DEF Types, Phases
<1>2. Loaded'
  BY <1>1 DEF Startups, Loaded, load_config, require_enforcement, server_ok, wrapsec_ok, scan_ok, config_ok
<1>3. NotBegun' /\ KeysUnique' /\ Owned'
  BY <1>1 DEF Startups, NotBegun, KeysUnique, Owned, Key
<1>4. ServesInFull'
  <2> SUFFICES ASSUME phase' = "serving" PROVE ServesInFull'
    BY DEF ServesInFull
  <2>1. require_enforcement(config) /\ connected' = Len(config.servers)
    BY DEF Startups, Loaded
  <2>2. \A i \in DOMAIN routes : ~Shadows(routes[i])
    OBVIOUS
  <2> QED BY <1>1, <2>1, <2>2 DEF ServesInFull, Shadows, Enforcing, require_enforcement, inspects_anything
<1> QED BY <1>1, <1>2, <1>3, <1>4 DEF Startups

LEMMA CloseStep ==
    ASSUME Inv, aclose
    PROVE  Types' /\ Startups'
<1> USE DEF Inv, aclose, Startup
<1>1. Types' /\ phase' = "closed" /\ config' = config /\ routes' = routes
  BY DEF Types, Phases, McpAssumption
<1> QED BY <1>1 DEF Startups, Loaded, NotBegun, KeysUnique, Owned, Key, ServesInFull

\* What is said of a request is about the configuration, the table and the
\* remembered verdicts; only what is said of a listing is about the verdicts.
LEMMA PolicyKept ==
    ASSUME config' = config, routes' = routes, NEW call
    PROVE  (Permits(call)' <=> Permits(call)) /\ (Passes(call)' <=> Passes(call))
<1>1. resolve(call)' <=> resolve(call)
  BY DEF resolve
<1>2. policy_refusal(call.server, call.raw)' <=> policy_refusal(call.server, call.raw)
  BY DEF policy_refusal, matches, by_name
<1>3. Permits(call)' <=> Permits(call)
  BY <1>1, <1>2 DEF Permits
<1> QED BY <1>3 DEF Passes

LEMMA ForwardKept ==
    ASSUME config' = config, routes' = routes, NEW r
    PROVE  (CallOK(r)' <=> CallOK(r)) /\ (AnswerOK(r)' <=> AnswerOK(r))
<1>1. AnswerOK(r)' <=> AnswerOK(r)
  BY DEF AnswerOK, Enforcing, sanitized_result
<1>2. /\ Permits(r.call)' <=> Permits(r.call)
      /\ Passes(r.call)' <=> Passes(r.call)
  BY PolicyKept
<1> QED BY <1>1, <1>2 DEF CallOK, Enforcing

LEMMA RequestKept ==
    ASSUME config' = config, routes' = routes, seen' = seen, NEW r
    PROVE  RequestOK(r)' <=> RequestOK(r)
<1>1. ListOK(r)' <=> ListOK(r)
  BY DEF ListOK, Listing, ScansDefinitions, Enforcing, Clean, Key
<1> QED BY <1>1, ForwardKept DEF RequestOK

LEMMA SeenKept ==
    ASSUME config' = config, routes' = routes, seen' = seen, SeenOK
    PROVE  SeenOK'
BY DEF SeenOK, ScansDefinitions, Enforcing, Clean, Key

LEMMA ReceivedKept ==
    ASSUME config' = config, routes' = routes, Enforcing => \A call \in received' : Passes(call)
    PROVE  ReceivedOK'
<1> SUFFICES ASSUME Enforcing', NEW call \in received' PROVE Passes(call)'
  BY DEF ReceivedOK
<1>1. Passes(call)
  BY DEF Enforcing
<1> QED BY <1>1, PolicyKept

LEMMA RequestsKept ==
    ASSUME config' = config, routes' = routes, seen' = seen, req' = req, received' = received,
           SeenOK, Settled, ReceivedOK, RequestsOK
    PROVE  SeenOK' /\ Settled' /\ ReceivedOK' /\ RequestsOK'
<1>1. SeenOK'
  BY SeenKept
<1>2. ReceivedOK'
  BY ReceivedKept DEF ReceivedOK
<1>3. ASSUME NEW c \in Clients PROVE RequestOK(req[c])'
  <2>1. PICK r : r = req[c]
    OBVIOUS
  <2>2. RequestOK(r)'
    BY <2>1, RequestKept DEF RequestsOK
  <2> QED BY <2>1, <2>2
<1>4. Settled'
  BY DEF Settled, Listing, Key
<1> QED BY <1>1, <1>2, <1>3, <1>4 DEF RequestsOK

LEMMA StartupSteps ==
    ASSUME Inv,
           \/ \E package \in Packages : start(package)
           \/ connect \/ connect_fails \/ serve \/ aclose
    PROVE  Inv'
<1>1. CASE \E package \in Packages : start(package)
  <2>1. PICK package \in Packages : start(package)
    BY <1>1
  <2>2. Types' /\ Startups'
    BY <2>1, StartStep
  <2> QED BY <2>1, <2>2, QuietOK DEF Inv, Startups, start
<1>2. CASE connect
  <2>1. Types' /\ Startups'
    BY <1>2, ConnectStep
  <2> QED BY <1>2, <2>1, QuietOK DEF Inv, Startups, connect
<1>3. CASE connect_fails
  <2>1. Types' /\ Startups'
    BY <1>3, RefusedStep
  <2> QED BY <1>3, <2>1, QuietOK DEF Inv, Startups, connect_fails
<1>4. CASE serve
  <2>1. Types' /\ Startups'
    BY <1>4, ServeStep
  <2> QED BY <1>4, <2>1, QuietOK DEF Inv, Startups, serve
<1>5. CASE aclose
  <2>1. Types' /\ Startups'
    BY <1>5, CloseStep
  <2>2. config' = config /\ routes' = routes /\ seen' = seen /\ req' = req /\ received' = received
    BY <1>5 DEF aclose, Startup
  <2> QED BY <2>1, <2>2, RequestsKept DEF Inv
<1> QED BY <1>1, <1>2, <1>3, <1>4, <1>5

-----------------------------------------------------------------------------
(* Requests *)

LEMMA StartupKept ==
    ASSUME Startups, Handle, phase = "serving"
    PROVE  Startups'
<1> USE DEF Startups, Handle
<1>1. Loaded'
  BY DEF Loaded, load_config, require_enforcement, server_ok, wrapsec_ok, scan_ok, config_ok
<1>2. NotBegun' /\ Owned' /\ KeysUnique'
  BY DEF NotBegun, Owned, KeysUnique, Key
<1>3. ServesInFull'
  BY DEF ServesInFull, Enforcing
<1> QED BY <1>1, <1>2, <1>3

\* A request of one client goes on and no verdict changes: what has to be shown
\* is about this request alone, and that it agrees with the scans under way.
Agrees(c, r) ==
    \A d \in Clients \ {c} :
        /\ Listing(r) /\ req[d].pc = "judge" => r.known[Key(routes[req[d].at])] = None
        /\ r.pc = "judge" /\ Listing(req[d]) => req[d].known[Key(routes[r.at])] = None

LEMMA RequestStep ==
    ASSUME Inv, phase = "serving", Handle, seen' = seen, turn' \in Nat,
           received' \subseteq Calls, Enforcing => \A call \in received' : Passes(call),
           NEW c \in Clients, NEW r \in Requests, Goto(c, r), RequestOK(r), Agrees(c, r),
           Listing(r) /\ r.pc = "judge" => r.known[Key(routes[r.at])] = None
    PROVE  Inv'
<1>1. /\ config' = config /\ routes' = routes /\ phase' = phase /\ connected' = connected
      /\ req \in [Clients -> Requests]
      /\ req' \in [Clients -> Requests] /\ req'[c] = r /\ \A d \in Clients \ {c} : req'[d] = req[d]
  BY DEF Handle, Inv, Types, Goto
<1>2. Types'
  BY <1>1 DEF Inv, Types
<1>3. Startups' /\ SeenOK' /\ ReceivedOK'
  BY <1>1, StartupKept, SeenKept, ReceivedKept DEF Inv
<1>4. ASSUME NEW d \in Clients PROVE RequestOK(req[d])'
  <2>1. PICK q \in Requests : q = req'[d]
    BY <1>1
  <2>2. RequestOK(q)
    BY <1>1, <2>1 DEF Inv, RequestsOK
  <2>3. RequestOK(q)'
    BY <1>1, <2>2, RequestKept
  <2> QED BY <2>1, <2>3
<1>5. ASSUME NEW d \in Clients, NEW e \in Clients, Listing(req'[d]), req'[e].pc = "judge"
      PROVE  req'[d].known[Key(routes[req'[e].at])] = None
  <2>1. CASE d # c /\ e # c
    BY <1>1, <1>5, <2>1 DEF Inv, Settled
  <2>2. CASE d = c /\ e # c
    BY <1>1, <1>5, <2>2 DEF Agrees
  <2>3. CASE d # c /\ e = c
    BY <1>1, <1>5, <2>3 DEF Agrees
  <2>4. CASE d = c /\ e = c
    BY <1>1, <1>5, <2>4
  <2> QED BY <2>1, <2>2, <2>3, <2>4
<1>6. Settled'
  BY <1>1, <1>5 DEF Settled, Listing, Key
<1> QED BY <1>2, <1>3, <1>4, <1>6 DEF Inv, RequestsOK

\* The same for a request that is no listing.
LEMMA CallStep ==
    ASSUME Inv, phase = "serving", Handle, seen' = seen, turn' \in Nat,
           received' \subseteq Calls, Enforcing => \A call \in received' : Passes(call),
           NEW c \in Clients, NEW r \in Requests, Goto(c, r), CallOK(r), AnswerOK(r), ~Listing(r)
    PROVE  Inv'
<1>1. RequestOK(r)
  BY DEF RequestOK, ListOK
<1>2. r.pc # "judge"
  BY DEF Listing
<1>3. Agrees(c, r)
  BY <1>2 DEF Agrees
<1> QED BY <1>1, <1>2, <1>3, RequestStep

-----------------------------------------------------------------------------
(* Scans *)

LEMMA NotBlocked ==
    ASSUME NEW texts, texts \subseteq Texts, NEW fails \in BOOLEAN, ~Blocked(texts, fails)
    PROVE  \A t \in texts : Judge[t] \notin {"block", "large"}
<1>1. Verdict(texts) \notin {"block", "large"}
  BY DEF Blocked
<1> QED BY <1>1 DEF Verdict

LEMMA NotRedacted ==
    ASSUME NEW texts, texts \subseteq Texts, NEW fails \in BOOLEAN, ~Blocked(texts, fails),
           Verdict(texts) # "redact"
    PROVE  \A t \in texts : Judge[t] \in {"allow", "flag", "empty"}
<1>1. Verdict(texts) \notin {"block", "large", "redact"}
  BY DEF Blocked
<1>2. \A t \in texts : Judge[t] \in {"allow", "block", "redact", "flag", "large", "empty"}
  BY DEF McpAssumption
<1> QED BY <1>1, <1>2 DEF Verdict

LEMMA PartsType ==
    ASSUME NEW result \in Results
    PROVE  text_parts_of(result) \subseteq Texts
<1>1. \A b \in result.blocks : b.text \in Texts
  BY DEF McpAssumption
<1>2. result.structured \in Texts \cup {None}
  BY DEF McpAssumption
<1> QED BY <1>1, <1>2 DEF text_parts_of, _block_text

LEMMA AnswerTypes ==
    /\ Refusal \in Answers /\ Refusal.kind = "refusal" /\ Refusal.meta = FALSE
    /\ sanitized_result \in Answers /\ sanitized_result.kind = "result" /\ sanitized_result.meta = FALSE
    /\ Answer("tools", {}, FALSE, FALSE) \in Answers
    /\ Answer("tools", {}, FALSE, FALSE).kind = "tools" /\ Answer("tools", {}, FALSE, FALSE).meta = FALSE
BY DEF Refusal, sanitized_result, Answer, Answers

LEMMA ForwardedType ==
    ASSUME NEW result \in Results, NEW meta \in BOOLEAN
    PROVE  /\ Forwarded(result, meta) \in Answers /\ Forwarded(result, meta).kind = "result"
           /\ Forwarded(result, meta).meta = meta
           /\ Forwarded(result, meta).texts = text_parts_of(result)
<1>1. (\E b \in result.blocks : b.kind = "binary") \in BOOLEAN
  OBVIOUS
<1>2. text_parts_of(result) \in SUBSET (Texts \cup {Redacted})
  BY PartsType
<1>3. PICK b \in BOOLEAN : b = \E x \in result.blocks : x.kind = "binary"
  BY <1>1
<1> QED BY <1>2, <1>3 DEF Forwarded, Answer, Answers

-----------------------------------------------------------------------------
(* tools/call *)

\* A request that is answered with a refusal, whatever was refused.
LEMMA RefusalStep ==
    ASSUME Inv, phase = "serving", Handle, seen' = seen, turn' = turn, received' = received,
           NEW c \in Clients, Goto(c, Reply(c, Refusal))
    PROVE  Inv'
<1>1. req[c] \in Requests
  BY DEF Inv, Types
<1>2. PICK r \in Requests : r = [req[c] EXCEPT !.pc = "answered", !.answer = Refusal]
  BY <1>1, AnswerTypes DEF Requests
<1>3. r.pc = "answered" /\ r.answer = Refusal
  BY <1>1, <1>2 DEF Requests
<1>4. CallOK(r) /\ AnswerOK(r) /\ ~Listing(r)
  BY <1>3, AnswerTypes DEF CallOK, AnswerOK, Listing
<1>5. Goto(c, r)
  BY <1>2 DEF Reply
<1> QED BY <1>4, <1>5, CallStep DEF Inv, Types, ReceivedOK

LEMMA CallBegins ==
    ASSUME Inv, NEW c \in Clients, NEW call \in Calls, on_call_tool(c, call)
    PROVE  Inv'
<1> DEFINE refused == ~resolve(call) \/ (Enforcing /\ policy_refusal(call.server, call.raw))
           scans == Enforcing /\ config.scan.arguments /\ Judge[call.args] # "empty"
<1>1. PICK pc : pc = IF refused THEN "answered" ELSE IF scans THEN "arguments" ELSE "forward"
  OBVIOUS
<1>2. PICK answer : answer = IF refused THEN Refusal ELSE None
  OBVIOUS
<1>3. PICK m \in Requests : m = [NoReq EXCEPT !.call = call, !.pc = pc, !.answer = answer]
  BY <1>1, <1>2, NoReqType, AnswerTypes, ZenonT(60) DEF Requests
<1>3a. PICK k \in Nat : k = turn + 1
  BY DEF Inv, Types
<1>4. PICK r \in Requests : r = [m EXCEPT !.turn = k]
  BY DEF Requests
<1>5. r.pc = pc /\ r.call = call /\ r.answer = answer
  BY <1>3, <1>4, NoReqType DEF Requests
<1>6. Goto(c, r) /\ Handle /\ seen' = seen /\ received' = received /\ turn' = turn + 1 /\ phase = "serving"
  BY <1>1, <1>2, <1>3, <1>3a, <1>4 DEF on_call_tool, begin_turn, At
<1>7. CallOK(r)
  BY <1>1, <1>5 DEF CallOK, Passes, Permits
<1>8. AnswerOK(r) /\ ~Listing(r)
  <2>1. pc # "answered" \/ answer = Refusal
    BY <1>1, <1>2
  <2>2. pc \notin {"result", "list", "judge"}
    BY <1>1
  <2> HIDE DEF refused, scans
  <2> QED BY <1>5, <2>1, <2>2, AnswerTypes DEF AnswerOK, Listing
<1> HIDE DEF refused, scans
<1> QED BY <1>6, <1>7, <1>8, CallStep DEF Inv, Types, ReceivedOK

LEMMA ArgumentsScanned ==
    ASSUME Inv, NEW c \in Clients, NEW fails \in BOOLEAN, scan_arguments(c, fails)
    PROVE  Inv'
<1>1. /\ phase = "serving" /\ req[c].pc = "arguments" /\ Handle
      /\ seen' = seen /\ turn' = turn /\ received' = received
  BY DEF scan_arguments, At
<1>2. CASE Blocked({req[c].call.args}, fails)
  BY <1>1, <1>2, RefusalStep DEF scan_arguments
<1>3. CASE ~Blocked({req[c].call.args}, fails)
  <2>1. req[c] \in Requests /\ CallOK(req[c])
    BY DEF Inv, Types, RequestsOK, RequestOK
  <2>2. PICK r \in Requests : r = [req[c] EXCEPT !.pc = "forward"]
    BY <2>1 DEF Requests
  <2>3. r.pc = "forward" /\ r.call = req[c].call
    BY <2>1, <2>2 DEF Requests
  <2>4. req[c].call \in Calls /\ (Enforcing => Permits(req[c].call))
    BY <1>1, <2>1 DEF CallOK
  <2>5. {req[c].call.args} \subseteq Texts
    BY <2>4 DEF McpAssumption
  <2>6. Judge[req[c].call.args] \notin {"block", "large"}
    BY <1>3, <2>5, NotBlocked
  <2>7. CallOK(r) /\ AnswerOK(r) /\ ~Listing(r)
    BY <2>3, <2>4, <2>6 DEF CallOK, AnswerOK, Listing, Passes
  <2>8. Goto(c, r)
    BY <1>3, <2>2 DEF scan_arguments
  <2> QED BY <1>1, <2>7, <2>8, CallStep DEF Inv, Types, ReceivedOK
<1> QED BY <1>2, <1>3

LEMMA ToolCalled ==
    ASSUME Inv, NEW c \in Clients, call_tool(c)
    PROVE  Inv'
<1>1. /\ phase = "serving" /\ req[c].pc = "forward" /\ Handle
      /\ seen' = seen /\ turn' = turn /\ received' = received \cup {req[c].call}
  BY DEF call_tool, At
<1>2. req[c] \in Requests /\ CallOK(req[c])
  BY DEF Inv, Types, RequestsOK, RequestOK
<1>3. req[c].call \in Calls /\ (Enforcing => Passes(req[c].call))
  BY <1>1, <1>2 DEF CallOK
<1>4. PICK r \in Requests : r = [req[c] EXCEPT !.pc = "called"]
  BY <1>2 DEF Requests
<1>5. r.pc = "called" /\ r.call = req[c].call
  BY <1>2, <1>4 DEF Requests
<1>6. CallOK(r) /\ AnswerOK(r) /\ ~Listing(r)
  BY <1>3, <1>5 DEF CallOK, AnswerOK, Listing
<1>7. Goto(c, r)
  BY <1>4 DEF call_tool
<1>8. received' \subseteq Calls /\ (Enforcing => \A call \in received' : Passes(call))
  BY <1>1, <1>3 DEF Inv, Types, ReceivedOK
<1>9. turn' \in Nat
  BY <1>1 DEF Inv, Types
<1> QED BY <1>1, <1>6, <1>7, <1>8, <1>9, CallStep

\* A result is forwarded: nothing in it is refused or to be redacted where
\* results are scanned.
LEMMA ForwardStep ==
    ASSUME Inv, phase = "serving", Handle, seen' = seen, turn' = turn, received' = received,
           NEW c \in Clients, NEW result \in Results, NEW meta \in BOOLEAN,
           Goto(c, Reply(c, Forwarded(result, meta))), Enforcing => meta = FALSE,
           Enforcing /\ config.scan.results => \A t \in text_parts_of(result) : Judge[t] \in {"allow", "flag", "empty"}
    PROVE  Inv'
<1>1. req[c] \in Requests
  BY DEF Inv, Types
<1>2. PICK a \in Answers : /\ a = Forwarded(result, meta) /\ a.kind = "result" /\ a.meta = meta
                           /\ a.texts = text_parts_of(result)
  BY ForwardedType
<1>3. PICK r \in Requests : r = [req[c] EXCEPT !.pc = "answered", !.answer = a]
  BY <1>1 DEF Requests
<1>4. r.pc = "answered" /\ r.answer = a
  BY <1>1, <1>3 DEF Requests
<1>5. CallOK(r) /\ AnswerOK(r) /\ ~Listing(r)
  BY <1>2, <1>4 DEF CallOK, AnswerOK, Listing
<1>6. Goto(c, r)
  BY <1>2, <1>3 DEF Reply
<1> QED BY <1>5, <1>6, CallStep DEF Inv, Types, ReceivedOK

LEMMA ToolReturned ==
    ASSUME Inv, NEW c \in Clients, NEW result \in Results, tool_returns(c, result)
    PROVE  Inv'
<1>1. /\ phase = "serving" /\ req[c].pc = "called" /\ Handle
      /\ seen' = seen /\ turn' = turn /\ received' = received
  BY DEF tool_returns, At
<1>2. CASE Enforcing /\ config.scan.results /\ text_parts_of(result) # {}
  <2>1. req[c] \in Requests
    BY DEF Inv, Types
  <2>2. PICK r \in Requests : r = [req[c] EXCEPT !.pc = "result", !.result = result]
    BY <2>1 DEF Requests
  <2>3. r.pc = "result" /\ r.result = result /\ r.call = req[c].call
    BY <2>1, <2>2 DEF Requests
  <2>4. req[c].call \in Calls
    BY <1>1 DEF Inv, RequestsOK, RequestOK, CallOK
  <2>5. CallOK(r) /\ AnswerOK(r) /\ ~Listing(r)
    BY <2>3, <2>4 DEF CallOK, AnswerOK, Listing
  <2>6. Goto(c, r)
    BY <1>2, <2>2 DEF tool_returns
  <2> QED BY <1>1, <2>5, <2>6, CallStep DEF Inv, Types, ReceivedOK
<1>3. CASE ~(Enforcing /\ config.scan.results /\ text_parts_of(result) # {})
  <2>1. result.meta \in BOOLEAN
    BY DEF McpAssumption
  <2>2. CASE Enforcing
    <3>1. Goto(c, Reply(c, Forwarded(result, FALSE)))
      BY <1>3, <2>2 DEF tool_returns, without_unscanned_metadata
    <3> QED BY <1>1, <1>3, <3>1, ForwardStep
  <2>3. CASE ~Enforcing
    <3>1. Goto(c, Reply(c, Forwarded(result, result.meta)))
      BY <1>3, <2>3 DEF tool_returns
    <3> QED BY <1>1, <2>1, <2>3, <3>1, ForwardStep
  <2> QED BY <2>2, <2>3
<1> QED BY <1>2, <1>3

LEMMA ResultScanned ==
    ASSUME Inv, NEW c \in Clients, NEW fails \in BOOLEAN, scan_result(c, fails)
    PROVE  Inv'
<1>1. /\ phase = "serving" /\ req[c].pc = "result" /\ Handle
      /\ seen' = seen /\ turn' = turn /\ received' = received
  BY DEF scan_result, At
<1>2. PICK result \in Results : result = req[c].result
  BY <1>1 DEF Inv, RequestsOK, RequestOK, AnswerOK
<1>3. PICK parts \in SUBSET Texts : parts = text_parts_of(result)
  BY PartsType
<1>4. CASE Blocked(parts, fails)
  BY <1>1, <1>2, <1>3, <1>4, RefusalStep DEF scan_result
<1>5. CASE ~Blocked(parts, fails) /\ Verdict(parts) = "redact"
  <2>1. req[c] \in Requests
    BY DEF Inv, Types
  <2>2. PICK a \in Answers : a = sanitized_result /\ a.kind = "result" /\ a.meta = FALSE
    BY AnswerTypes
  <2>3. PICK r \in Requests : r = [req[c] EXCEPT !.pc = "answered", !.answer = a]
    BY <2>1 DEF Requests
  <2>4. r.pc = "answered" /\ r.answer = a
    BY <2>1, <2>3 DEF Requests
  <2>5. CallOK(r) /\ AnswerOK(r) /\ ~Listing(r)
    BY <2>2, <2>4 DEF CallOK, AnswerOK, Listing
  <2>6. Goto(c, r)
    BY <1>2, <1>3, <1>5, <2>2, <2>3 DEF scan_result, Reply
  <2> QED BY <1>1, <2>5, <2>6, CallStep DEF Inv, Types, ReceivedOK
<1>6. CASE ~Blocked(parts, fails) /\ Verdict(parts) # "redact"
  <2>1. \A t \in parts : Judge[t] \in {"allow", "flag", "empty"}
    BY <1>6, NotRedacted
  <2>2. Goto(c, Reply(c, Forwarded(result, FALSE)))
    BY <1>2, <1>3, <1>6 DEF scan_result, without_unscanned_metadata
  <2> QED BY <1>1, <1>3, <2>1, <2>2, ForwardStep
<1> QED BY <1>4, <1>5, <1>6

LEMMA Finished ==
    ASSUME Inv, NEW c \in Clients, finish(c)
    PROVE  Inv'
<1>1. /\ phase = "serving" /\ Handle /\ Goto(c, NoReq)
      /\ seen' = seen /\ turn' = turn /\ received' = received
  BY DEF finish, At
<1>2. PICK r \in Requests : r = NoReq /\ r.pc = "idle"
  BY NoReqType
<1>3. CallOK(r) /\ AnswerOK(r) /\ ~Listing(r)
  BY <1>2, IdleOK DEF RequestOK
<1> QED BY <1>1, <1>2, <1>3, CallStep DEF Inv, Types, ReceivedOK

-----------------------------------------------------------------------------
(* tools/list *)

LEMMA ListBegins ==
    ASSUME Inv, NEW c \in Clients, on_list_tools(c)
    PROVE  Inv'
<1>1. seen \in [Names -> Verdicts] /\ turn \in Nat /\ routes \in Seq(Routes)
  BY DEF Inv, Types
<1>2. PICK known \in [Names -> Verdicts] :
        known = [key \in Names |-> IF Judging(key) = {} THEN seen[key] ELSE None]
  BY <1>1 DEF Verdicts
<1>3. PICK k \in Nat : k = turn + 1
  BY <1>1
<1>4. PICK m \in Requests : m = [NoReq EXCEPT !.pc = "list", !.known = known]
  BY NoReqType DEF Requests
<1>5. PICK r \in Requests : r = [m EXCEPT !.turn = k]
  BY DEF Requests
<1>6. r.pc = "list" /\ r.known = known /\ r.at = 1 /\ r.tools = {}
  BY <1>4, <1>5, NoReqType DEF Requests
<1>7. Goto(c, r) /\ Handle /\ seen' = seen /\ received' = received /\ turn' = k /\ phase = "serving"
  BY <1>2, <1>3, <1>4, <1>5 DEF on_list_tools, begin_turn, At
<1>8. ListOK(r)
  <2>1. \A key \in Names : known[key] # None => seen[key] = known[key]
    BY <1>2
  <2>2. \A i \in DOMAIN routes : i \in Nat /\ ~(i < 1)
    BY <1>1
  <2> QED BY <1>6, <2>1, <2>2 DEF ListOK, Listing
<1>9. CallOK(r) /\ AnswerOK(r)
  BY <1>6 DEF CallOK, AnswerOK
<1>10. Agrees(c, r)
  <2> SUFFICES ASSUME NEW d \in Clients \ {c}, req[d].pc = "judge"
               PROVE  known[Key(routes[req[d].at])] = None
    BY <1>6 DEF Agrees
  <2>1. req[d].at \in DOMAIN routes
    BY DEF Inv, RequestsOK, RequestOK, ListOK, Listing
  <2>2. PICK key \in Names : key = Key(routes[req[d].at])
    BY <1>1, <2>1, RouteKey
  <2>3. d \in Judging(key)
    BY <2>2 DEF Judging
  <2> QED BY <1>2, <2>2, <2>3
<1>11. received' \subseteq Calls /\ (Enforcing => \A call \in received' : Passes(call))
  BY <1>7 DEF Inv, Types, ReceivedOK
<1> QED BY <1>6, <1>7, <1>8, <1>9, <1>10, <1>11, RequestStep DEF RequestOK

\* A tool is decided, and the listing goes on with the next one: what has to
\* be known is that a tool that is kept has a clean definition, and that the
\* decision is the verdict that was known.
LEMMA ListedOK ==
    ASSUME Inv, NEW c \in Clients, req[c].pc \in {"list", "judge"}, req[c].at \in DOMAIN routes,
           NEW keep \in BOOLEAN,
           keep = TRUE /\ ScansDefinitions => Clean(routes[req[c].at]),
           req[c].known[Key(routes[req[c].at])] # None => (req[c].known[Key(routes[req[c].at])] = keep)
    PROVE  \E r \in Requests :
             /\ r = Listed(c, keep) /\ RequestOK(r) /\ r.pc = "list" /\ r.known = req[c].known
<1>1. req[c] \in Requests /\ routes \in Seq(Routes) /\ RequestOK(req[c]) /\ KeysUnique
  BY DEF Inv, Types, RequestsOK, Startups
<1>2. PICK q \in Requests : q = req[c] /\ q.at \in Nat /\ q.at \in DOMAIN routes /\ q.pc \in {"list", "judge"}
  BY <1>1 DEF Requests
<1>3. PICK key \in Names : key = Key(routes[q.at])
  BY <1>1, <1>2, RouteKey
<1>4. PICK tools \in SUBSET Names : tools = IF keep THEN q.tools \cup {key} ELSE q.tools
  BY DEF Requests
<1>5. PICK n \in Nat : n = q.at + 1
  BY <1>2
<1>6. PICK r \in Requests : r = [q EXCEPT !.pc = "list", !.at = n, !.tools = tools]
  BY DEF Requests
<1>7. r.pc = "list" /\ r.at = n /\ r.tools = tools /\ r.known = q.known
  BY <1>6 DEF Requests
<1>8. r = Listed(c, keep)
  BY <1>2, <1>3, <1>4, <1>5, <1>6 DEF Listed, Requests
<1>9. ListOK(q)
  BY <1>1, <1>2 DEF RequestOK
<1>10. /\ q.known \in [Names -> Verdicts]
       /\ \A i \in DOMAIN routes : q.at <= i => Key(routes[i]) \notin q.tools
       /\ ScansDefinitions => \A i \in DOMAIN routes : Key(routes[i]) \in q.tools => Clean(routes[i])
       /\ \A i \in DOMAIN routes : (i < q.at /\ q.known[Key(routes[i])] # None)
              => (q.known[Key(routes[i])] = TRUE <=> Key(routes[i]) \in q.tools)
       /\ \A k \in Names : q.known[k] # None => seen[k] = q.known[k]
  BY <1>2, <1>9 DEF ListOK, Listing
<1>11. \A i \in DOMAIN routes : i \in Nat /\ (Key(routes[i]) = key <=> i = q.at)
  BY <1>1, <1>2, <1>3 DEF KeysUnique
<1>12. \A i \in DOMAIN routes : Key(routes[i]) \in tools <=>
          (Key(routes[i]) \in q.tools \/ (keep = TRUE /\ i = q.at))
  BY <1>4, <1>11
<1>13. \A i \in DOMAIN routes : n <= i => Key(routes[i]) \notin tools
  BY <1>2, <1>5, <1>10, <1>11, <1>12
<1>14. ScansDefinitions => \A i \in DOMAIN routes : Key(routes[i]) \in tools => Clean(routes[i])
  BY <1>2, <1>10, <1>12
<1>15. ASSUME NEW i \in DOMAIN routes, i < n, q.known[Key(routes[i])] # None
       PROVE  q.known[Key(routes[i])] = TRUE <=> Key(routes[i]) \in tools
  <2>1. CASE i = q.at
    <3>1. Key(routes[i]) \notin q.tools /\ q.known[Key(routes[i])] = keep
      BY <1>2, <1>10, <1>15, <2>1
    <3> QED BY <1>12, <2>1, <3>1
  <2>2. CASE i # q.at
    <3>1. i < q.at
      BY <1>2, <1>5, <1>11, <1>15, <2>2
    <3> QED BY <1>10, <1>12, <1>15, <2>2, <3>1
  <2> QED BY <2>1, <2>2
<1>16. ListOK(r)
  <2>1. \A i \in DOMAIN routes : (i < n /\ q.known[Key(routes[i])] # None)
           => (q.known[Key(routes[i])] = TRUE <=> Key(routes[i]) \in tools)
    BY <1>15
  <2>2. n # 0
    BY <1>2, <1>5
  <2>3. r.pc # "judge" /\ r.pc # "answered"
    BY <1>7
  <2> QED BY <1>7, <1>10, <1>13, <1>14, <2>1, <2>2, <2>3 DEF ListOK
<1>17. CallOK(r) /\ AnswerOK(r)
  BY <1>7 DEF CallOK, AnswerOK
<1> QED BY <1>2, <1>7, <1>8, <1>16, <1>17 DEF RequestOK

LEMMA DefinitionLookedUp ==
    ASSUME Inv, NEW c \in Clients, inspect_definition(c)
    PROVE  Inv'
<1>1. /\ phase = "serving" /\ req[c].pc = "list" /\ req[c].at <= Len(routes) /\ Handle
      /\ seen' = seen /\ turn' = turn /\ received' = received
  BY DEF inspect_definition, At
<1>2. /\ req[c] \in Requests /\ routes \in Seq(Routes) /\ seen \in [Names -> Verdicts] /\ turn' \in Nat
      /\ received' \subseteq Calls /\ (Enforcing => \A call \in received' : Passes(call))
  BY <1>1 DEF Inv, Types, ReceivedOK
<1>3. ListOK(req[c]) /\ Listing(req[c])
  BY <1>1 DEF Inv, RequestsOK, RequestOK, Listing
<1>4. req[c].at \in DOMAIN routes
  BY <1>1, <1>2, <1>3 DEF ListOK, Requests
<1>5. PICK key \in Names : key = Key(routes[req[c].at])
  BY <1>2, <1>4, RouteKey
<1>6. PICK known \in [Names -> Verdicts] : /\ known = req[c].known
                                           /\ \A k \in Names : known[k] # None => seen[k] = known[k]
  BY <1>3 DEF ListOK
<1>7. \A d \in Clients : req[d].pc = "judge" => known[Key(routes[req[d].at])] = None
  BY <1>3, <1>6 DEF Inv, Settled
\* The listing goes on with a tool decided.
<1>8. ASSUME NEW keep \in BOOLEAN, Goto(c, Listed(c, keep)),
             keep = TRUE /\ ScansDefinitions => Clean(routes[req[c].at]),
             known[key] # None => known[key] = keep
      PROVE  Inv'
  <2>1. PICK r \in Requests : /\ r = Listed(c, keep) /\ RequestOK(r) /\ r.pc = "list" /\ r.known = known
    BY <1>1, <1>4, <1>5, <1>6, <1>8, ListedOK
  <2>2. Agrees(c, r)
    BY <1>7, <2>1 DEF Agrees
  <2> QED BY <1>1, <1>2, <1>8, <2>1, <2>2, RequestStep
<1>9. CASE ~ScansDefinitions
  <2>1. Goto(c, Listed(c, TRUE))
    BY <1>9 DEF inspect_definition, ScansDefinitions
  <2>2. known[key] = None
    BY <1>5, <1>6, <1>9 DEF Inv, SeenOK
  <2> QED BY <1>8, <1>9, <2>1, <2>2
<1>10. CASE ScansDefinitions /\ seen[key] # None
  <2>1. PICK keep \in BOOLEAN : keep = seen[key]
    BY <1>2, <1>10 DEF Verdicts
  <2>2. Goto(c, Listed(c, keep))
    BY <1>5, <1>10, <2>1 DEF inspect_definition, ScansDefinitions
  <2>3. keep = TRUE => Clean(routes[req[c].at])
    BY <1>4, <1>5, <2>1 DEF Inv, SeenOK
  <2>4. known[key] # None => known[key] = keep
    BY <1>5, <1>6, <2>1
  <2> QED BY <1>8, <2>2, <2>3, <2>4
<1>11. CASE ScansDefinitions /\ seen[key] = None
  <2>1. PICK r \in Requests : r = [req[c] EXCEPT !.pc = "judge"]
    BY <1>2 DEF Requests
  <2>2. /\ r.pc = "judge" /\ r.at = req[c].at /\ r.tools = req[c].tools /\ r.known = req[c].known
    BY <1>2, <2>1 DEF Requests
  <2>3. Goto(c, r)
    BY <1>5, <1>11, <2>1 DEF inspect_definition, ScansDefinitions
  <2>4. ListOK(r)
    BY <1>1, <1>3, <1>4, <1>11, <2>2 DEF ListOK, Listing
  <2>5. CallOK(r) /\ AnswerOK(r)
    BY <2>2 DEF CallOK, AnswerOK
  <2>6. known[key] = None
    BY <1>5, <1>6, <1>11
  <2>7. ASSUME NEW d \in Clients, Listing(req[d]) PROVE req[d].known[key] = None
    <3>1. ListOK(req[d])
      BY DEF Inv, RequestsOK, RequestOK
    <3>2. req[d].known[key] # None => seen[key] = req[d].known[key]
      BY <1>5, <2>7, <3>1 DEF ListOK
    <3> QED BY <1>11, <3>2
  <2>8. Agrees(c, r)
    BY <1>5, <1>6, <1>7, <2>2, <2>7 DEF Agrees
  <2>9. r.known[Key(routes[r.at])] = None
    BY <1>5, <1>6, <2>2, <2>6
  <2> QED BY <1>1, <1>2, <2>3, <2>4, <2>5, <2>8, <2>9, RequestStep DEF RequestOK
<1> QED BY <1>9, <1>10, <1>11

LEMMA ListEnds ==
    ASSUME Inv, NEW c \in Clients, list_ends(c)
    PROVE  Inv'
<1>1. /\ phase = "serving" /\ req[c].pc = "list" /\ req[c].at > Len(routes) /\ Handle
      /\ seen' = seen /\ turn' = turn /\ received' = received
  BY DEF list_ends, At
<1>2. /\ req[c] \in Requests /\ routes \in Seq(Routes) /\ turn' \in Nat
      /\ received' \subseteq Calls /\ (Enforcing => \A call \in received' : Passes(call))
  BY <1>1 DEF Inv, Types, ReceivedOK
<1>3. ListOK(req[c]) /\ Listing(req[c])
  BY <1>1 DEF Inv, RequestsOK, RequestOK, Listing
<1>4. PICK a \in Answers : a = Answer("tools", {}, FALSE, FALSE) /\ a.kind = "tools" /\ a.meta = FALSE
  BY AnswerTypes
<1>5. PICK r \in Requests : r = [req[c] EXCEPT !.pc = "answered", !.answer = a]
  BY <1>2 DEF Requests
<1>6. /\ r.pc = "answered" /\ r.answer = a
      /\ r.at = req[c].at /\ r.tools = req[c].tools /\ r.known = req[c].known
  BY <1>2, <1>5 DEF Requests
<1>7. Goto(c, r)
  BY <1>4, <1>5 DEF list_ends, Reply
<1>8. \A i \in DOMAIN routes : i < r.at
  BY <1>1, <1>2, <1>6 DEF Requests
<1>9. ListOK(r)
  BY <1>3, <1>6, <1>8 DEF ListOK
<1>10. CallOK(r) /\ AnswerOK(r)
  BY <1>4, <1>6 DEF CallOK, AnswerOK
<1>11. Agrees(c, r)
  BY <1>3, <1>6 DEF Agrees, Inv, Settled
<1> QED BY <1>1, <1>2, <1>6, <1>7, <1>9, <1>10, <1>11, RequestStep DEF RequestOK

LEMMA ListKept ==
    ASSUME config' = config, routes' = routes, NEW key \in Names, NEW b \in BOOLEAN,
           seen \in [Names -> Verdicts], seen' = [seen EXCEPT ![key] = b],
           NEW r, ListOK(r), Listing(r) => r.known[key] = None
    PROVE  ListOK(r)'
<1>1. SUFFICES ASSUME Listing(r) PROVE ListOK(r)'
  BY DEF ListOK, Listing
<1>2. \A k \in Names : r.known[k] # None => seen'[k] = r.known[k]
  BY <1>1 DEF ListOK
<1> QED BY <1>1, <1>2 DEF ListOK, Listing, ScansDefinitions, Enforcing, Clean, Key

LEMMA CleanText ==
    ASSUME NEW route \in Routes, NEW fails \in BOOLEAN, ~Blocked(definition_text(route), fails)
    PROVE  Clean(route)
<1>1. \A part \in route.prose : part.text \in Texts
  BY RouteKey
<1>2. definition_text(route) \subseteq Texts
  BY <1>1 DEF definition_text
<1>3. \A t \in definition_text(route) : Judge[t] \notin {"block", "large"}
  BY <1>2, NotBlocked
<1> QED BY <1>3 DEF Clean, definition_text

LEMMA DefinitionJudged ==
    ASSUME Inv, NEW c \in Clients, NEW fails \in BOOLEAN, judge_definition(c, fails)
    PROVE  Inv'
<1>1. phase = "serving" /\ req[c].pc = "judge" /\ Handle /\ turn' = turn /\ received' = received
  BY DEF judge_definition, At
<1>2. /\ req \in [Clients -> Requests] /\ routes \in Seq(Routes) /\ seen \in [Names -> Verdicts]
      /\ config' = config /\ routes' = routes /\ phase' = phase /\ connected' = connected
  BY <1>1 DEF Inv, Types, Handle
<1>3. ListOK(req[c]) /\ Listing(req[c])
  BY <1>1 DEF Inv, RequestsOK, RequestOK, Listing
<1>4. req[c].at \in DOMAIN routes /\ ScansDefinitions
  BY <1>1, <1>3 DEF ListOK
<1>5. PICK route \in Routes : route = routes[req[c].at]
  BY <1>2, <1>4
<1>6. PICK key \in Names : key = Key(route)
  BY RouteKey
<1>7. PICK b \in BOOLEAN : b = ~Blocked(definition_text(route), fails)
  OBVIOUS
<1>8. seen' = [seen EXCEPT ![key] = b] /\ Goto(c, Listed(c, b))
  BY <1>5, <1>6, <1>7 DEF judge_definition
<1>9. b = TRUE => Clean(route)
  BY <1>7, CleanText
\* No listing knew a verdict on this definition.
<1>10. \A d \in Clients : Listing(req[d]) => req[d].known[key] = None
  BY <1>1, <1>5, <1>6 DEF Inv, Settled
<1>11. PICK r \in Requests : r = Listed(c, b) /\ RequestOK(r) /\ r.pc = "list" /\ r.known = req[c].known
  BY <1>1, <1>3, <1>4, <1>5, <1>6, <1>9, <1>10, ListedOK
<1>12. /\ req' \in [Clients -> Requests] /\ req'[c] = r /\ \A d \in Clients \ {c} : req'[d] = req[d]
  BY <1>2, <1>8, <1>11 DEF Goto
<1>13. seen' \in [Names -> Verdicts]
  BY <1>2, <1>8 DEF Verdicts
<1>14. Types'
  BY <1>1, <1>2, <1>12, <1>13 DEF Inv, Types
<1>15. Startups'
  BY <1>1, StartupKept DEF Inv
<1>16. ReceivedOK'
  BY <1>1, <1>2, ReceivedKept DEF Inv, ReceivedOK
<1>17. SeenOK'
  <2>1. ASSUME NEW i \in DOMAIN routes, seen'[Key(routes[i])] = TRUE PROVE Clean(routes[i])
    <3>1. Key(routes[i]) \in Names
      BY <1>2, RouteKey
    <3>2. CASE Key(routes[i]) = key
      <4>1. i = req[c].at
        BY <1>4, <1>5, <1>6, <3>2 DEF Inv, Startups, KeysUnique
      <4>2. b = TRUE
        BY <1>2, <1>8, <2>1, <3>1, <3>2
      <4> QED BY <1>5, <1>9, <4>1, <4>2
    <3>3. CASE Key(routes[i]) # key
      <4>1. seen[Key(routes[i])] = TRUE
        BY <1>2, <1>8, <2>1, <3>1, <3>3
      <4> QED BY <4>1 DEF Inv, SeenOK
    <3> QED BY <3>2, <3>3
  <2> QED BY <1>2, <1>4, <2>1 DEF SeenOK, ScansDefinitions, Enforcing, Clean, Key
<1>18. ASSUME NEW d \in Clients PROVE RequestOK(req[d])'
  <2>1. PICK q \in Requests : q = req'[d]
    BY <1>12
  <2>2. RequestOK(q) /\ (Listing(q) => q.known[key] = None)
    <3>1. CASE d = c
      BY <1>3, <1>10, <1>11, <1>12, <2>1, <3>1
    <3>2. CASE d # c
      BY <1>10, <1>12, <2>1, <3>2 DEF Inv, RequestsOK
    <3> QED BY <3>1, <3>2
  <2>3. ListOK(q)'
    BY <1>2, <1>8, <2>2, ListKept DEF RequestOK
  <2>4. CallOK(q)' /\ AnswerOK(q)'
    BY <1>2, <2>2, ForwardKept DEF RequestOK
  <2> QED BY <2>1, <2>3, <2>4 DEF RequestOK
<1>19. ASSUME NEW d \in Clients, NEW e \in Clients, Listing(req'[d]), req'[e].pc = "judge"
       PROVE  req'[d].known[Key(routes[req'[e].at])] = None
  <2>1. e # c /\ req'[e] = req[e]
    BY <1>11, <1>12, <1>19
  <2>2. Listing(req[d]) /\ req'[d].known = req[d].known
    BY <1>3, <1>11, <1>12, <1>19
  <2> QED BY <1>19, <2>1, <2>2 DEF Inv, Settled
<1>20. Settled'
  BY <1>2, <1>19 DEF Settled, Listing, Key
<1> QED BY <1>14, <1>15, <1>16, <1>17, <1>18, <1>20 DEF Inv, RequestsOK

-----------------------------------------------------------------------------
(* The theorems *)

LEMMA InvNext == Inv /\ [Next]_vars => Inv'
<1> SUFFICES ASSUME Inv, [Next]_vars PROVE Inv'
  OBVIOUS
<1>1. CASE \/ \E package \in Packages : start(package)
           \/ connect \/ connect_fails \/ serve \/ aclose
  BY <1>1, StartupSteps
<1>2. ASSUME NEW c \in Clients, Serve(c) PROVE Inv'
  <2>1. CASE inspect_definition(c)
    BY <2>1, DefinitionLookedUp
  <2>2. CASE list_ends(c)
    BY <2>2, ListEnds
  <2>3. CASE call_tool(c)
    BY <2>3, ToolCalled
  <2>4. CASE call_times_out(c)
    BY <2>4, RefusalStep DEF call_times_out, At
  <2>5. CASE finish(c)
    BY <2>5, Finished
  <2>6. ASSUME NEW fails \in BOOLEAN,
               judge_definition(c, fails) \/ scan_arguments(c, fails) \/ scan_result(c, fails)
        PROVE  Inv'
    BY <2>6, DefinitionJudged, ArgumentsScanned, ResultScanned
  <2> QED BY <1>2, <2>1, <2>2, <2>3, <2>4, <2>5, <2>6 DEF Serve
<1>3. ASSUME NEW c \in Clients, on_list_tools(c) PROVE Inv'
  BY <1>3, ListBegins
<1>4. ASSUME NEW c \in Clients, NEW call \in Calls, on_call_tool(c, call) PROVE Inv'
  BY <1>4, CallBegins
<1>5. ASSUME NEW c \in Clients, NEW result \in Results, tool_returns(c, result) PROVE Inv'
  BY <1>5, ToolReturned
<1>6. ASSUME NEW c \in Clients, tool_fails(c) PROVE Inv'
  BY <1>6, RefusalStep DEF tool_fails, At
<1>7. CASE UNCHANGED vars
  <2>1. config' = config /\ routes' = routes /\ seen' = seen /\ req' = req /\ received' = received
    BY <1>7 DEF vars
  <2>2. Types' /\ Startups'
    BY <1>7 DEF vars, Inv, Types, Startups, Loaded, NotBegun, Owned, KeysUnique, ServesInFull, Key, Enforcing,
                load_config, require_enforcement, server_ok, wrapsec_ok, scan_ok, config_ok
  <2> QED BY <2>1, <2>2, RequestsKept DEF Inv
<1> QED BY <1>1, <1>2, <1>3, <1>4, <1>5, <1>6, <1>7 DEF Next

LEMMA InvHolds == Spec => []Inv
BY InvInit, InvNext, PTL DEF Spec

\* A gateway serves only in full (McpGateway's ServesInFull): no order of
\* connecting and failing to connect takes it past require_enforcement,
\* connect_all or assert_no_cross_server_shadowing.
THEOREM FullService == Spec => []ServesInFull
<1>1. Inv => ServesInFull
  BY DEF Inv, Startups
<1> QED BY <1>1, InvHolds, PTL

LEMMA Screened == Inv => AgentSeesScreened
<1> SUFFICES ASSUME Inv, NEW c \in Clients, Enforcing, req[c].pc = "answered"
             PROVE  LET a == req[c].answer IN
                    /\ ~a.meta
                    /\ (a.kind = "result" /\ config.scan.results) =>
                         a = sanitized_result \/ \A t \in a.texts : Judge[t] \in {"allow", "flag", "empty"}
                    /\ (a.kind = "tools" /\ config.scan.definitions) =>
                         \A i \in DOMAIN routes :
                            Key(routes[i]) \in req[c].tools =>
                                \A part \in routes[i].prose :
                                    part.depth <= MaxDepth => Judge[part.text] \notin {"block", "large"}
  BY DEF AgentSeesScreened
<1>1. ListOK(req[c]) /\ AnswerOK(req[c])
  BY DEF Inv, RequestsOK, RequestOK
<1>2. ~req[c].answer.meta
  BY <1>1 DEF AnswerOK
<1>3. req[c].answer.kind = "tools" /\ config.scan.definitions =>
        \A i \in DOMAIN routes : Key(routes[i]) \in req[c].tools => Clean(routes[i])
  BY <1>1 DEF ListOK, Listing, ScansDefinitions
<1> QED BY <1>1, <1>2, <1>3 DEF AnswerOK, Clean

\* What reaches the agent was looked at (McpGateway's AgentSeesScreened), for
\* every result and definition and whichever scan fails.
THEOREM AnswersScreened == Spec => []AgentSeesScreened
BY Screened, InvHolds, PTL

LEMMA Permitted == Inv => ServerSeesPermitted
<1> SUFFICES ASSUME Inv, Enforcing, NEW call \in received
             PROVE  LET policy == config.servers[by_name(call.server)]
                        entries == {[server |-> call.server, raw |-> call.raw],
                                    [server |-> None, raw |-> call.raw]} IN
                    /\ \E i \in DOMAIN Published[call.server] : Published[call.server][i].raw = call.raw
                    /\ policy.deny \cap entries = {}
                    /\ policy.allow # {} => policy.allow \cap entries # {}
                    /\ config.scan.arguments => Judge[call.args] \notin {"block", "large"}
  BY DEF ServerSeesPermitted
<1> DEFINE policy == config.servers[by_name(call.server)]
           entries == {[server |-> call.server, raw |-> call.raw], [server |-> None, raw |-> call.raw]}
<1>1. Passes(call)
  BY DEF Inv, ReceivedOK
<1>2. PICK i \in DOMAIN routes : routes[i].server = call.server /\ routes[i].raw = call.raw
  BY <1>1 DEF Passes, Permits, resolve
<1>3. \E k \in DOMAIN Published[call.server] : Published[call.server][k].raw = call.raw
  <2>1. routes[i] \in Routes
    BY DEF Inv, Types
  <2>2. PICK s \in DOMAIN Published : \E k \in Tools(s) : routes[i] = Route(s, Published[s][k])
    BY <2>1, RouteIs
  <2>3. PICK k \in Tools(s) : routes[i] = Route(s, Published[s][k])
    BY <2>2
  <2>4. routes[i].server = s /\ routes[i].raw = Published[s][k].raw
    BY <2>3, RouteType
  <2> QED BY <1>2, <2>3, <2>4 DEF Tools
\* The server of the call is configured, so that its policy is looked up.
<1>4. \E j \in DOMAIN config.servers : config.servers[j].name = call.server
  BY <1>2 DEF Inv, Startups, Owned
<1>5. PICK j \in DOMAIN config.servers : j = by_name(call.server)
  BY <1>4 DEF by_name
<1>6. \A entry \in policy.allow : entry = [server |-> entry.server, raw |-> entry.raw]
  BY <1>5 DEF McpAssumption, Inv, Types
<1>7. /\ ~matches(policy.deny, call.server, call.raw)
      /\ policy.allow = {} \/ matches(policy.allow, call.server, call.raw)
  BY <1>1 DEF Passes, Permits, policy_refusal
<1>8. policy.deny \cap entries = {}
  BY <1>7 DEF matches
<1>9. ASSUME policy.allow # {} PROVE policy.allow \cap entries # {}
  <2>1. PICK entry \in policy.allow : entry.server \in {None, call.server} /\ entry.raw = call.raw
    BY <1>7, <1>9 DEF matches
  <2>2. entry \in entries
    BY <1>6, <2>1
  <2> QED BY <2>1, <2>2
<1>10. config.scan.arguments => Judge[call.args] \notin {"block", "large"}
  BY <1>1 DEF Passes
<1> QED BY <1>3, <1>8, <1>9, <1>10

\* What reaches a server was permitted (McpGateway's ServerSeesPermitted), for
\* every policy and every set of tools.
THEOREM CallsPermitted == Spec => []ServerSeesPermitted
BY Permitted, InvHolds, PTL

LEMMA Sticks == Inv => VerdictSticks
<1> SUFFICES ASSUME Inv, NEW c \in Clients, req[c].pc = "answered", req[c].answer.kind = "tools",
                    NEW i \in DOMAIN routes, req[c].known[Key(routes[i])] # None
             PROVE  req[c].known[Key(routes[i])] <=> Key(routes[i]) \in req[c].tools
  BY DEF VerdictSticks
<1>1. ListOK(req[c]) /\ Listing(req[c])
  BY DEF Inv, RequestsOK, RequestOK, Listing
<1>2. PICK key \in Names : key = Key(routes[i])
  BY RouteKey DEF Inv, Types
<1>3. req[c].known[key] = TRUE <=> key \in req[c].tools
  BY <1>1, <1>2 DEF ListOK
<1>4. req[c].known[key] \in BOOLEAN
  BY <1>1, <1>2 DEF ListOK, Verdicts
<1>5. CASE req[c].known[key] = TRUE
  BY <1>2, <1>3, <1>5
<1>6. CASE req[c].known[key] = FALSE
  BY <1>2, <1>3, <1>6
<1> QED BY <1>4, <1>5, <1>6

\* A settled verdict is what every later listing reports (McpGateway's
\* VerdictSticks), whatever other listings judge in between.
THEOREM SettledVerdictStands == Spec => []VerdictSticks
BY Sticks, InvHolds, PTL
=============================================================================
