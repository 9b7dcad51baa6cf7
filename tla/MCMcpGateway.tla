---------------------------- MODULE MCMcpGateway ----------------------------
(* An instance of McpGateway for TLC: three tool servers, of which the third *)
(* lists a tool that reads as the first's, and the ways to configure them.   *)
EXTENDS McpGateway, TLC

CONSTANTS s1, s2, s3, read, send, odd, fine, poison, secret, mild, huge, blank

AllTexts == {fine, poison, secret, mild, huge, blank}
Judgement == (fine :> "allow") @@ (poison :> "block") @@ (secret :> "redact")
             @@ (mild :> "flag") @@ (huge :> "large") @@ (blank :> "empty")

Part(text, depth) == [text |-> text, depth |-> depth]
Tool(raw, prose, claims, conforms) ==
    [raw |-> raw, prose |-> prose, claims |-> claims, conforms |-> conforms]
AllTools ==
    (s1 :> <<Tool(read, {Part(fine, 0), Part(poison, 13)}, None, TRUE),
             Tool(odd, {Part(fine, 0)}, None, FALSE),
             Tool(send, {Part(fine, 0), Part(poison, 12)}, None, TRUE),
             Tool(read, {Part(poison, 0)}, None, TRUE)>>)
    @@ (s2 :> <<Tool(read, {Part(secret, 0)}, s2, TRUE), Tool(send, {Part(huge, 1)}, None, TRUE)>>)
    @@ (s3 :> <<Tool(odd, {Part(fine, 0)}, s1, TRUE)>>)

AllPackages == {API, API \ {"allow_claimed=False"}, API \ {"Server"}}

Entry(s, raw) == [server |-> s, raw |-> raw]
Server(s, allow, deny) == [name |-> s, wellformed |-> TRUE, usable |-> TRUE, call_timeout_s |-> 60,
                          allow |-> allow, deny |-> deny]
Scan(d, r, a) == [definitions |-> d, results |-> r, arguments |-> a, wellformed |-> TRUE]
Full == [servers |-> <<Server(s1, {}, {Entry(s1, send)}), Server(s2, {Entry(s2, send), Entry(s1, read)}, {})>>,
         wrapsec |-> "ok", key |-> TRUE, scan |-> Scan(TRUE, TRUE, TRUE), env |-> "production"]
One == [Full EXCEPT !.servers = <<Server(s1, {Entry(None, read)}, {})>>,
                    !.scan = Scan(FALSE, TRUE, FALSE)]
Lax == [Full EXCEPT !.scan = Scan(TRUE, FALSE, FALSE), !.servers = <<Server(s2, {}, {})>>]
Blind == [Full EXCEPT !.scan = Scan(FALSE, FALSE, FALSE)]
Develop == [One EXCEPT !.wrapsec = "none", !.env = "development"]
Open == [Develop EXCEPT !.env = "production"]
NoKey == [Full EXCEPT !.key = FALSE]
Twice == [Full EXCEPT !.servers = <<Server(s1, {}, {}), Server(s1, {}, {})>>]
Bare == [Full EXCEPT !.servers = <<Server(s1, {Entry(None, read)}, {}), Server(s2, {}, {})>>]
Shadow == [Full EXCEPT !.servers = <<Server(s3, {}, {}), Server(s1, {}, {})>>]
Spoilt == [Full EXCEPT !.servers[1].wellformed = FALSE]
Unusable == [Full EXCEPT !.servers[2].usable = FALSE]
Endless == [Full EXCEPT !.servers[2].call_timeout_s = 0]
BadScan == [Full EXCEPT !.scan.wellformed = FALSE]
BadUrl == [Full EXCEPT !.wrapsec = "bad"]
Empty == [Full EXCEPT !.servers = <<>>]
AllConfigs == {Full, One, Lax, Blind, Develop, Open, NoKey, Twice, Bare, Shadow, Spoilt, Unusable,
               Endless, BadScan, BadUrl, Empty}

Call(s, raw, args) == [server |-> s, raw |-> raw, args |-> args]
AllCalls == {Call(s1, read, fine), Call(s1, send, blank), Call(s2, send, secret), Call(s2, read, fine),
             Call(s1, read, poison), Call(s1, odd, blank)}
Block(kind, text) == [kind |-> kind, text |-> text]
Result(blocks, structured, meta) == [blocks |-> blocks, structured |-> structured, meta |-> meta]
AllResults == {Result({Block("text", fine)}, None, TRUE),
               Result({Block("text", fine), Block("link", poison)}, None, FALSE),
               Result({Block("text", blank), Block("binary", blank)}, secret, TRUE),
               Result({Block("text", mild), Block("binary", blank)}, None, FALSE),
               Result({Block("resource", huge)}, fine, FALSE),
               Result({Block("binary", blank)}, None, TRUE)}
=============================================================================
