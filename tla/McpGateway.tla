----------------------------- MODULE McpGateway -----------------------------
(***************************************************************************)
(* The MCP gateway (mcp_gateway/): one process between one agent and the   *)
(* tool servers it launches.  Startup reads the configuration, connects    *)
(* every server and builds the routing table, or refuses to serve.  Then   *)
(* the agent's requests are handled concurrently: tools are listed with    *)
(* every definition scanned once and its verdict remembered, a tool call   *)
(* is checked against the policy, its arguments are scanned, the server is *)
(* called under a timeout and its result is scanned.                       *)
(*                                                                         *)
(* A scan is a call of the WrapSec API; what that API says of a text is    *)
(* its Judge.  A step is what happens between two awaits.  A composed tool *)
(* name is the pair of server and raw name: a server name holds no         *)
(* underscore, so that no two pairs compose to one name.                   *)
(***************************************************************************)
EXTENDS Naturals, Sequences, FiniteSets

CONSTANTS
    Configs,    \* configuration files, with the environment variables read beside them
    Published,  \* Published[s]: the tools server s lists, in order
    Packages,   \* Packages: the APIs of the MCP packages that may be installed
    Texts,      \* definition texts, argument texts and result texts
    Judge,      \* Judge[t]: "allow", "block", "large" (over max_chars), "empty", and of the two
                \* ways to be sanitized: "redact", with a rewritten text, "flag", without one
    Calls,      \* tool calls an agent may make: [server, raw, args]
    Results,    \* results a server may return: [blocks, structured, meta]
    Redacted,   \* the text a sanitized result is replaced by
    Clients,    \* requests of the agent served at a time
    None,
    MaxTurns,   \* bound: requests of the agent
    MaxFaults   \* bound: scans that cannot be made

ASSUME McpAssumption ==
    /\ Judge \in [Texts -> {"allow", "block", "redact", "flag", "large", "empty"}]
    /\ \A r \in Results :
         /\ \A b \in r.blocks : b.kind \in {"text", "link", "resource", "binary"} /\ b.text \in Texts
         /\ r.structured \in Texts \cup {None} /\ r.meta \in BOOLEAN
    /\ \A s \in DOMAIN Published : \A i \in DOMAIN Published[s] :
         \A part \in Published[s][i].prose : part.text \in Texts /\ part.depth \in Nat
    /\ \A s \in DOMAIN Published : DOMAIN Published[s] = 1..Len(Published[s]) /\ Len(Published[s]) \in Nat
    /\ \A raw \in Configs :
         /\ DOMAIN raw.servers = 1..Len(raw.servers) /\ Len(raw.servers) \in Nat
         /\ \A i \in DOMAIN raw.servers :
              /\ raw.servers[i].name \in DOMAIN Published
              /\ \A entry \in raw.servers[i].allow : entry = [server |-> entry.server, raw |-> entry.raw]
    /\ \A call \in Calls : call.args \in Texts
    /\ None \notin BOOLEAN \cup Texts
    /\ MaxTurns \in Nat /\ MaxFaults \in Nat

VARIABLES
    config,     \* the configuration this process was started with
    phase,      \* "start", "connect", "serving", "refused" or "closed"
    connected,  \* number of configured servers connected so far
    routes,     \* the routing table: a sequence of [server, raw, prose, claims]
    seen,       \* seen[s, raw]: the remembered verdict, TRUE for published
    turn,       \* requests begun
    req,        \* req[c]: how far the agent's request c is
    received,   \* calls that reached a server
    faults

vars == <<config, phase, connected, routes, seen, turn, req, received, faults>>

Names == UNION {{<<s, Published[s][i].raw>> : i \in DOMAIN Published[s]} : s \in DOMAIN Published}
Answer(kind, texts, binary, meta) == [kind |-> kind, texts |-> texts, binary |-> binary, meta |-> meta]
Refusal == Answer("refusal", {}, FALSE, FALSE)
NoReq == [pc |-> "idle", call |-> None, turn |-> 0, at |-> 1, tools |-> {}, known |-> <<>>,
          result |-> None, answer |-> None]
Phases == {"start", "connect", "serving", "refused", "closed"}

At(c, pc) == phase = "serving" /\ req[c].pc = pc
Goto(c, r) == req' = [req EXCEPT ![c] = r]
Reply(c, answer) == [req[c] EXCEPT !.pc = "answered", !.answer = answer]
Startup == UNCHANGED <<config, turn, req, received, seen, faults>>
-----------------------------------------------------------------------------
(* Configuration *)

\* ServerConfig: a name that can be a prefix, and a timeout that lets a call end.
ServerConfig(entry) == entry.usable /\ entry.call_timeout_s > 0

\* _server_from and _policy_from: the entry has the keys and types it may have.
server_ok(entry) == entry.wellformed /\ ServerConfig(entry)
wrapsec_ok(raw) == raw.wrapsec # "bad"
scan_ok(raw) == raw.scan.wellformed

\* A bare entry of allow or deny is taken only where one server is configured.
validate_against(raw) ==
    Len(raw.servers) = 1 \/ \A i \in DOMAIN raw.servers :
        \A entry \in raw.servers[i].allow \cup raw.servers[i].deny : entry.server # None

config_ok(raw) ==
    /\ raw.servers # <<>>
    /\ \A i, j \in DOMAIN raw.servers : raw.servers[i].name = raw.servers[j].name => i = j
    /\ validate_against(raw)

load_config(raw) ==
    /\ \A i \in DOMAIN raw.servers : server_ok(raw.servers[i])
    /\ wrapsec_ok(raw)
    /\ scan_ok(raw)
    /\ config_ok(raw)

by_name(s) == CHOOSE i \in DOMAIN config.servers : config.servers[i].name = s

\* Without a scanning endpoint nothing is intercepted; with one, its key must
\* be in the environment.
Enforcing == config.wrapsec = "ok"
build_interceptor(raw) == raw.wrapsec = "ok" => raw.key
inspects_anything(scan) == scan.definitions \/ scan.results \/ scan.arguments

require_enforcement(raw) ==
    raw.env = "development" \/ (raw.wrapsec = "ok" /\ inspects_anything(raw.scan))
-----------------------------------------------------------------------------
(* Startup *)

\* What the gateway relies on: the two hooks of the server, both guards of
\* call_tool off by default, no sampling by default, and the transports.
API == {"Server", "on_list_tools", "on_call_tool", "add_request_handler", "ClientSession",
        "allow_input_required=False", "allow_claimed=False", "sampling_callback=None",
        "_default_sampling_callback", "stdio_client", "stdio_server"}

_missing_apis(package) == IF "Server" \in package THEN API \ package ELSE {"Server"}

\* Another version is only warned of; a missing API refuses the start.
verify_mcp_package(package) == _missing_apis(package) = {}

start(package) ==
    /\ phase = "start"
    /\ phase' = IF /\ verify_mcp_package(package) /\ load_config(config) /\ build_interceptor(config)
                   /\ require_enforcement(config)
                THEN "connect" ELSE "refused"
    /\ UNCHANGED <<connected, routes>>
    /\ Startup

\* The numbers of a finite set, ascending.
InOrder(S) == CHOOSE q \in [1..Cardinality(S) -> S] : \A i, j \in DOMAIN q : i < j => q[i] < q[j]

Route(s, tool) == [server |-> s, raw |-> tool.raw, prose |-> tool.prose, claims |-> tool.claims]

\* add_server: a name that is no string, too long, outside the permitted set
\* or published before is left out.
add_server(table, s, tools) ==
    LET kept == {i \in DOMAIN tools : tools[i].conforms /\ \A j \in 1..(i - 1) :
                     tools[j].conforms => tools[j].raw # tools[i].raw}
        order == InOrder(kept) IN
    table \o [n \in 1..Cardinality(kept) |-> Route(s, tools[order[n]])]

\* A server is launched and initialised, its tools are listed.
connect ==
    LET s == config.servers[connected + 1].name IN
    /\ phase = "connect"
    /\ connected < Len(config.servers)
    /\ connected' = connected + 1
    /\ routes' = add_server(routes, s, Published[s])
    /\ UNCHANGED phase
    /\ Startup

connect_fails ==
    /\ phase = "connect"
    /\ connected < Len(config.servers)
    /\ phase' = "refused"
    /\ UNCHANGED <<connected, routes>>
    /\ Startup

\* assert_no_cross_server_shadowing: a raw name that reads as another
\* configured server's refuses the start.
Shadows(route) ==
    /\ route.claims \in {config.servers[i].name : i \in DOMAIN config.servers}
    /\ route.claims # route.server

\* Mutant of serve: the table is not looked at.
serve_Unchecked ==
    /\ phase = "connect"
    /\ connected = Len(config.servers)
    /\ phase' = "serving"
    /\ UNCHANGED <<connected, routes>>
    /\ Startup

serve ==
    /\ phase = "connect"
    /\ connected = Len(config.servers)
    /\ phase' = IF \E i \in DOMAIN routes : Shadows(routes[i]) THEN "refused" ELSE "serving"
    /\ UNCHANGED <<connected, routes>>
    /\ Startup

\* The agent closes its end; every server is closed too.
aclose ==
    /\ phase = "serving"
    /\ phase' = "closed"
    /\ connected' = 0
    /\ UNCHANGED routes
    /\ Startup
-----------------------------------------------------------------------------
(* Scans *)

\* The API's verdict on several texts joined into one.  A text is rewritten where
\* there is something to redact; sanitized for its score alone, it has no
\* rewritten form.
Verdict(texts) ==
    LET judged == {Judge[t] : t \in texts} IN
    CASE "large" \in judged -> "large"
      [] "block" \in judged /\ "large" \notin judged -> "block"
      [] "redact" \in judged /\ judged \cap {"large", "block"} = {} -> "redact"
      [] "flag" \in judged /\ judged \cap {"large", "block", "redact"} = {} -> "flag"
      [] OTHER -> IF "allow" \in judged THEN "allow" ELSE "empty"

\* Scanner.scan and _verdict_from: what cannot be scanned counts as blocked.
Blocked(texts, fails) ==
    (Verdict(texts) # "empty" /\ fails) \/ Verdict(texts) \in {"block", "large"}
Fails(fails) == IF fails THEN faults < MaxFaults /\ faults' = faults + 1 ELSE UNCHANGED faults

begin_turn(c, r) ==
    /\ At(c, "idle")
    /\ turn < MaxTurns
    /\ turn' = turn + 1
    /\ Goto(c, [r EXCEPT !.turn = turn + 1])

Handle == UNCHANGED <<config, phase, connected, routes>>
-----------------------------------------------------------------------------
(* tools/list *)

\* _schema_prose: descriptions nested deeper are not looked for.
MaxDepth == 12

\* definition_text: name, title, description and the prose of the schema.
definition_text(definition) ==
    {part.text : part \in {p \in definition.prose : p.depth <= MaxDepth}}

Key(route) == <<route.server, route.raw>>
Judging(key) == {c \in Clients : req[c].pc = "judge" /\ Key(routes[req[c].at]) = key}

\* known: the verdicts that are settled when the listing starts (no scan of
\* the definition under way), for the property about them.
on_list_tools(c) ==
    /\ begin_turn(c, [NoReq EXCEPT !.pc = "list",
                        !.known = [key \in Names |-> IF Judging(key) = {} THEN seen[key] ELSE None]])
    /\ Handle
    /\ UNCHANGED <<seen, received, faults>>

Listed(c, keep) ==
    LET r == req[c] IN
    [r EXCEPT !.pc = "list", !.at = @ + 1,
              !.tools = IF keep THEN @ \cup {Key(routes[r.at])} ELSE @]

\* Mutant of inspect_definition: a definition that was withheld is scanned again.
inspect_definition_Again(c) ==
    LET remembered == seen[Key(routes[req[c].at])] IN
    /\ At(c, "list")
    /\ req[c].at <= Len(routes)
    /\ Goto(c, IF ~(Enforcing /\ config.scan.definitions) \/ remembered = TRUE
               THEN Listed(c, TRUE)
               ELSE [req[c] EXCEPT !.pc = "judge"])
    /\ Handle
    /\ UNCHANGED <<seen, turn, received, faults>>

\* ToolDefinitionScanner.inspect up to the scan: a remembered verdict stands.
\* A route's definition never changes, so its fingerprint always matches.
inspect_definition(c) ==
    LET remembered == seen[Key(routes[req[c].at])] IN
    /\ At(c, "list")
    /\ req[c].at <= Len(routes)
    /\ Goto(c, IF ~(Enforcing /\ config.scan.definitions) THEN Listed(c, TRUE)
               ELSE IF remembered # None THEN Listed(c, remembered)
               ELSE [req[c] EXCEPT !.pc = "judge"])
    /\ Handle
    /\ UNCHANGED <<seen, turn, received, faults>>

\* The scan returns; the verdict is remembered over any other.
judge_definition(c, fails) ==
    LET route == routes[req[c].at]
        published == ~Blocked(definition_text(route), fails) IN
    /\ At(c, "judge")
    /\ Fails(fails)
    /\ seen' = [seen EXCEPT ![Key(route)] = published]
    /\ Goto(c, Listed(c, published))
    /\ Handle
    /\ UNCHANGED <<turn, received>>

list_ends(c) ==
    /\ At(c, "list")
    /\ req[c].at > Len(routes)
    /\ Goto(c, Reply(c, Answer("tools", {}, FALSE, FALSE)))
    /\ Handle
    /\ UNCHANGED <<seen, turn, received, faults>>
-----------------------------------------------------------------------------
(* tools/call *)

\* Mutant of matches: an entry is compared by its raw name.
matches_Raw(entries, s, raw) == \E entry \in entries : entry.raw = raw

matches(entries, s, raw) == \E entry \in entries : entry.server \in {None, s} /\ entry.raw = raw

policy_refusal(s, raw) ==
    LET policy == config.servers[by_name(s)] IN
    \/ matches(policy.deny, s, raw)
    \/ policy.allow # {} /\ ~matches(policy.allow, s, raw)

resolve(call) == \E i \in DOMAIN routes : routes[i].server = call.server /\ routes[i].raw = call.raw

\* A route is looked up, then the policy; arguments are scanned if there are any.
on_call_tool(c, call) ==
    LET refused == ~resolve(call) \/ (Enforcing /\ policy_refusal(call.server, call.raw))
        scans == Enforcing /\ config.scan.arguments /\ Judge[call.args] # "empty" IN
    /\ begin_turn(c, [NoReq EXCEPT !.call = call,
                        !.pc = IF refused THEN "answered" ELSE IF scans THEN "arguments" ELSE "forward",
                        !.answer = IF refused THEN Refusal ELSE None])
    /\ Handle
    /\ UNCHANGED <<seen, received, faults>>

\* Arguments that would be sanitized are forwarded as they are.
scan_arguments(c, fails) ==
    /\ At(c, "arguments")
    /\ Fails(fails)
    /\ Goto(c, IF Blocked({req[c].call.args}, fails) THEN Reply(c, Refusal)
               ELSE [req[c] EXCEPT !.pc = "forward"])
    /\ Handle
    /\ UNCHANGED <<seen, turn, received>>

call_tool(c) ==
    /\ At(c, "forward")
    /\ received' = received \cup {req[c].call}
    /\ Goto(c, [req[c] EXCEPT !.pc = "called"])
    /\ Handle
    /\ UNCHANGED <<seen, turn, faults>>

\* _block_text: what a model reads of a block; a binary one is not looked at.
_block_text(block) ==
    IF block.kind = "binary" \/ Judge[block.text] = "empty" THEN {} ELSE {block.text}

\* text_parts_of: the text of every block, and the structured content.
text_parts_of(result) ==
    (UNION {_block_text(block) : block \in result.blocks})
        \cup (IF result.structured = None THEN {} ELSE {result.structured})

\* What reaches the agent of a result that is forwarded.
Forwarded(result, meta) ==
    Answer("result", text_parts_of(result), \E b \in result.blocks : b.kind = "binary", meta)

\* The metadata of a result is removed, its sanitized form is one text.
without_unscanned_metadata(result) == Forwarded(result, FALSE)
sanitized_result == Answer("result", {Redacted}, FALSE, FALSE)

\* A result without any text is not scanned.
tool_returns(c, result) ==
    LET scans == Enforcing /\ config.scan.results /\ text_parts_of(result) # {} IN
    /\ At(c, "called")
    /\ Goto(c, IF scans THEN [req[c] EXCEPT !.pc = "result", !.result = result]
               ELSE Reply(c, IF Enforcing THEN without_unscanned_metadata(result)
                             ELSE Forwarded(result, result.meta)))
    /\ Handle
    /\ UNCHANGED <<seen, turn, received, faults>>

\* An answer that cannot be used, a request of the server to the client, an
\* error of the server or a broken connection.
tool_fails(c) ==
    /\ At(c, "called")
    /\ Goto(c, Reply(c, Refusal))
    /\ Handle
    /\ UNCHANGED <<seen, turn, received, faults>>

\* Mutant of call_times_out: the call has no timeout.
call_times_out_Never(c) ==
    /\ At(c, "called")
    /\ FALSE
    /\ Goto(c, Reply(c, Refusal))
    /\ Handle
    /\ UNCHANGED <<seen, turn, received, faults>>

\* call_timeout_s without an answer.
call_times_out(c) ==
    /\ At(c, "called")
    /\ Goto(c, Reply(c, Refusal))
    /\ Handle
    /\ UNCHANGED <<seen, turn, received, faults>>

\* Mutant of scan_result: a scan that cannot be made lets the result pass.
scan_result_Open(c, fails) ==
    LET parts == text_parts_of(req[c].result) IN
    /\ At(c, "result")
    /\ Fails(fails)
    /\ Goto(c, Reply(c, IF ~fails /\ Verdict(parts) \in {"block", "large"} THEN Refusal
                        ELSE IF ~fails /\ Verdict(parts) = "redact" THEN sanitized_result
                        ELSE without_unscanned_metadata(req[c].result)))
    /\ Handle
    /\ UNCHANGED <<seen, turn, received>>

\* A result the API has rewritten is replaced; one it sanitizes without rewriting
\* it is forwarded like one it allows.
scan_result(c, fails) ==
    LET parts == text_parts_of(req[c].result) IN
    /\ At(c, "result")
    /\ Fails(fails)
    /\ Goto(c, Reply(c, IF Blocked(parts, fails) THEN Refusal
                        ELSE IF Verdict(parts) = "redact" THEN sanitized_result
                        ELSE without_unscanned_metadata(req[c].result)))
    /\ Handle
    /\ UNCHANGED <<seen, turn, received>>

\* The answer is on its way to the agent.
finish(c) ==
    /\ At(c, "answered")
    /\ Goto(c, NoReq)
    /\ Handle
    /\ UNCHANGED <<seen, turn, received, faults>>
-----------------------------------------------------------------------------
Init ==
    /\ config \in Configs
    /\ phase = "start"
    /\ connected = 0
    /\ routes = <<>>
    /\ seen = [key \in Names |-> None]
    /\ turn = 0
    /\ req = [c \in Clients |-> NoReq]
    /\ received = {}
    /\ faults = 0

\* What the gateway does by itself once a request is in; a tool server may
\* never answer.
Serve(c) ==
    \/ inspect_definition(c) \/ list_ends(c) \/ call_tool(c) \/ call_times_out(c) \/ finish(c)
    \/ \E fails \in BOOLEAN : judge_definition(c, fails) \/ scan_arguments(c, fails)
                              \/ scan_result(c, fails)

Next ==
    \/ \E package \in Packages : start(package)
    \/ connect \/ connect_fails \/ serve \/ aclose
    \/ \E c \in Clients :
         \/ Serve(c)
         \/ on_list_tools(c)
         \/ \E call \in Calls : on_call_tool(c, call)
         \/ \E result \in Results : tool_returns(c, result)
         \/ tool_fails(c)

Spec == Init /\ [][Next]_vars

\* Tasks of the event loop go on, the client of the WrapSec API has a timeout
\* and so has a call of a server; nothing is assumed of a server.
FairSpec == Spec /\ \A c \in Clients : WF_vars(Serve(c))
-----------------------------------------------------------------------------
(* Properties *)

\* The types of the variables.
TypeOK ==
    /\ config \in Configs
    /\ phase \in Phases
    /\ connected \in 0..Len(config.servers)
    /\ \A i \in DOMAIN routes : Key(routes[i]) \in Names
    /\ seen \in [Names -> BOOLEAN \cup {None}]
    /\ turn \in 0..MaxTurns
    /\ \A c \in Clients : req[c].turn \in 0..turn /\ req[c].tools \subseteq Names
    /\ received \subseteq Calls
    /\ faults \in 0..MaxFaults

\* A gateway serves only in full: outside development it intercepts and looks
\* at something, every configured server is connected, and no tool of one
\* server reads as another's (require_enforcement, connect_all and
\* assert_no_cross_server_shadowing, in whatever order servers are connected).
ServesInFull ==
    phase = "serving" =>
        /\ config.env # "development" =>
             Enforcing /\ (config.scan.definitions \/ config.scan.results \/ config.scan.arguments)
        /\ connected = Len(config.servers)
        /\ \A i \in DOMAIN routes, j \in DOMAIN config.servers :
             routes[i].claims = config.servers[j].name => routes[i].server = routes[i].claims

\* What reaches the agent was looked at: no result and no tool whose text is
\* refused, no unscanned metadata, and a result with something to redact only in
\* its redacted form and with no unscanned block, wherever in a result or a
\* definition the text stands, whatever listings and calls run at a time and
\* whichever scan fails.  A result sanitized for its score alone passes as it is
\* (SanitizedIsReplaced).
AgentSeesScreened ==
    \A c \in Clients : (Enforcing /\ req[c].pc = "answered") =>
        LET a == req[c].answer IN
        /\ ~a.meta
        /\ (a.kind = "result" /\ config.scan.results) =>
             a = sanitized_result \/ \A t \in a.texts : Judge[t] \in {"allow", "flag", "empty"}
        /\ (a.kind = "tools" /\ config.scan.definitions) =>
             \A i \in DOMAIN routes :
                Key(routes[i]) \in req[c].tools =>
                    \A part \in routes[i].prose :
                        part.depth <= MaxDepth => Judge[part.text] \notin {"block", "large"}

\* "A sanitized result is returned as a single text block carrying the redacted
\* text; non-text blocks go with the originals, because they were not judged and
\* the result has already been found to need redaction" (scan_result).
SanitizedIsReplaced ==
    \A c \in Clients :
        (/\ req[c].pc = "answered" /\ req[c].answer.kind = "result"
         /\ req[c].result # None
         /\ Verdict(text_parts_of(req[c].result)) \in {"redact", "flag"})
            => req[c].answer.texts = {Redacted} /\ ~req[c].answer.binary

\* What reaches a server was permitted: the tool is that server's own, no deny
\* entry names it, an allow list that is not empty does, and its arguments were
\* not refused.  An entry written for one server says nothing of another's
\* tool of the same name.
ServerSeesPermitted ==
    Enforcing => \A call \in received :
        LET policy == config.servers[by_name(call.server)]
            entries == {[server |-> call.server, raw |-> call.raw], [server |-> None, raw |-> call.raw]} IN
        /\ \E i \in DOMAIN Published[call.server] : Published[call.server][i].raw = call.raw
        /\ policy.deny \cap entries = {}
        /\ policy.allow # {} => policy.allow \cap entries # {}
        /\ config.scan.arguments => Judge[call.args] \notin {"block", "large"}

\* "identical content must keep its verdict": a listing that starts when a
\* definition's verdict is settled reports that verdict, although scans of
\* other listings finish in between.
VerdictSticks ==
    \A c \in Clients : (req[c].pc = "answered" /\ req[c].answer.kind = "tools" /\ Enforcing) =>
        \A i \in DOMAIN routes :
            LET known == req[c].known[Key(routes[i])] IN
            known # None => (known <=> Key(routes[i]) \in req[c].tools)

\* Every request of the agent is answered, also when the server it calls never
\* answers, unless the agent closes the connection.
EveryRequestAnswered ==
    \A c \in Clients : (req[c].pc # "idle") ~> (req[c].pc = "answered" \/ phase = "closed")
=============================================================================
