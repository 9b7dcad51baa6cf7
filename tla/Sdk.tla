-------------------------------- MODULE Sdk --------------------------------
(***************************************************************************)
(* `wrapsec batch FILE` and `wrapsec scan` in front of the gateway: the    *)
(* commands (sdk/python/wrapsec/cli/commands) scan one line after the      *)
(* other, or one text, through Client.scan, whose requests are retried     *)
(* (core/retry.py) under one idempotency key a call (core/http.py).  A     *)
(* request the command no longer waits for goes on in the gateway.         *)
(*                                                                         *)
(* Delays pass between steps; output and options other than --limit are    *)
(* left out.                                                               *)
(***************************************************************************)
EXTENDS Gateway

CONSTANTS
    File,        \* the lines: what each is, and the request of a prompt
    LineLimit,   \* --limit
    CliKey,      \* the API key of the configuration
    MaxAttempts  \* MAX_ATTEMPTS

ASSUME SdkAssumption ==
    /\ Len(File) \in Nat /\ DOMAIN File = 1..Len(File)
    /\ \A n \in DOMAIN File :
          /\ File[n].is \in {"prompt", "blank", "invalid"}
          /\ File[n].is = "prompt" => File[n].body \in Requests
    /\ LineLimit \in Nat \ {0}
    /\ CliKey \in Keys
    /\ MaxAttempts \in Nat \ {0}

\* verdicts: for the lines that got one, the verdict and the text it was reached
\* on; on: the request that is waited for.  The text of scan is a line of File.
NoCli == [pc |-> "off", command |-> "batch", line |-> 1, body |-> NoVal, attempt |-> 0, on |-> NoVal, processed |-> 0,
          verdicts |-> <<>>, error |-> FALSE, block |-> FALSE,
          interrupted |-> FALSE]

CliAt(pc) == cli.pc = pc
\* Neither empty, a comment, too long nor refused by validate_input.
Scannable(n) == File[n].is = "prompt"

\* Exit code priority: an error, then a block.
exit_code(r) == IF r.error THEN 1 ELSE IF r.block THEN 2 ELSE 0
Exits(r) == [r EXCEPT !.pc = "exit"]

\* scan has one text: a result or any error ends it.
scan_ends(r) == [r EXCEPT !.pc = "exit", !.on = NoVal]

NextLine(r) ==
    IF r.command = "scan" THEN scan_ends(r)
    ELSE [r EXCEPT !.pc = "next", !.line = @ + 1, !.body = NoVal, !.attempt = 0, !.on = NoVal]

\* A text that is refused before anything is sent is an error.  One scan in a
\* behaviour: what an interrupted one leaves in the gateway, batch_start meets.
scan_start(n) ==
    /\ "scan" \in scope.occurs
    /\ CliAt("off")
    /\ cli' = LET r == [NoCli EXCEPT !.pc = "next", !.command = "scan", !.line = n] IN
              IF Scannable(n) THEN r ELSE scan_ends([r EXCEPT !.error = TRUE])
    /\ UNCHANGED <<tenancyVars, gatewayVars>>

\* SIGINT ends scan at once.
scan_interrupted ==
    /\ cli.command = "scan"
    /\ cli.pc \in {"next", "send", "wait"}
    /\ "sigint" \in scope.occurs
    /\ cli' = scan_ends([cli EXCEPT !.error = TRUE])
    /\ UNCHANGED <<tenancyVars, gatewayVars>>

batch_start ==
    /\ "sdk" \in scope.occurs
    /\ cli.pc \in {"off", "exit"}
    /\ cli' = [NoCli EXCEPT !.pc = "next"]
    /\ UNCHANGED <<tenancyVars, gatewayVars>>

\* SIGINT only sets a flag of batch, which is looked at before the next line.
interrupt ==
    /\ ~cli.interrupted
    /\ cli.command = "batch"
    /\ cli.pc \notin {"off", "exit"}
    /\ "sigint" \in scope.occurs
    /\ cli' = [cli EXCEPT !.interrupted = TRUE]
    /\ UNCHANGED <<tenancyVars, gatewayVars>>

\* The end of the file, an interrupt, the limit, a line that is no prompt.
batch_skip ==
    /\ CliAt("next")
    /\ cli.command = "batch"
    /\ cli' = IF cli.line \notin DOMAIN File THEN Exits(cli)
              ELSE IF cli.interrupted THEN Exits([cli EXCEPT !.error = TRUE])
              ELSE IF cli.processed >= LineLimit THEN Exits(cli)
              ELSE NextLine(cli)
    /\ cli.line \in DOMAIN File /\ ~cli.interrupted /\ cli.processed < LineLimit
          => ~Scannable(cli.line)
    /\ UNCHANGED <<tenancyVars, gatewayVars>>

\* A key of its own for every call (uuid4), which no other request has or will
\* have, the same for all its attempts.
build_headers(i) ==
    /\ \A r \in scope.requests : r.idem # i
    /\ \A c \in {d \in Clients : ~At(d, "idle")} : req[c].body.idem # i
    /\ idem' = [idem EXCEPT ![<<CliKey, i>>] = NoIdem]

client_scan(i) ==
    /\ CliAt("next")
    /\ cli.line \in DOMAIN File /\ ~cli.interrupted /\ cli.processed < LineLimit
    /\ Scannable(cli.line)
    /\ build_headers(i)
    /\ cli' = [cli EXCEPT !.pc = "send", !.attempt = 1, !.body = [File[cli.line].body EXCEPT !.idem = i]]
    /\ UNCHANGED <<scope, req, cache, bucket, scanned, faults>>
    /\ UNCHANGED tenancyVars

execute_request(c) ==
    /\ CliAt("send")
    /\ rate_limit_dispatch(c, CliKey, cli.body)
    /\ cli' = [cli EXCEPT !.pc = "wait", !.on = c]

\* What of a response the command tells apart.
map_response_error(answer) ==
    CASE answer.kind = "verdict" -> "result"
      [] answer.kind = "limited" -> "rate limit"
      [] answer.kind \in {"error", "lost"} -> "system"
      [] OTHER -> "other"

\* Mutant of with_retry: a call that is given up is not an error.
with_retry_Silent(r) ==
    IF r.attempt < MaxAttempts THEN [r EXCEPT !.pc = "send", !.attempt = @ + 1, !.on = NoVal]
    ELSE NextLine(r)

\* Only system errors are retried.
with_retry(r) ==
    IF r.attempt < MaxAttempts THEN [r EXCEPT !.pc = "send", !.attempt = @ + 1, !.on = NoVal]
    ELSE NextLine([r EXCEPT !.error = TRUE])

\* A verdict that comes of a failed scan counts as an error.
get_scan_exit_code(answer) == IF answer.system THEN 1 ELSE IF answer.decision = "BLOCK" THEN 2 ELSE 0

batch_result(r, answer, of) ==
    LET code == get_scan_exit_code(answer)
        verdict == [decision |-> answer.decision, of |-> of] IN
    NextLine([r EXCEPT !.processed = @ + 1, !.error = @ \/ code = 1, !.block = @ \/ code = 2,
                       !.verdicts = [n \in DOMAIN @ \cup {r.line} |-> IF n = r.line THEN verdict ELSE @[n]]])

receive(c) ==
    LET answer == req[c].answer
        scanned_for == IF req[c].replay = NoIdem THEN req[c].body ELSE req[c].replay.of
        error == map_response_error(answer) IN
    /\ CliAt("wait")
    /\ cli.on = c
    /\ finish(c)
    /\ cli' = CASE error = "result" -> batch_result(cli, answer, scanned_for.items)
                [] error = "rate limit" -> Exits([cli EXCEPT !.error = TRUE, !.on = NoVal])
                [] error = "system" -> with_retry(cli)
                [] OTHER -> NextLine([cli EXCEPT !.error = TRUE])

\* No answer in time, or a connection that breaks.
times_out ==
    /\ CliAt("wait")
    /\ Fault("net")
    /\ cli' = with_retry(cli)
    /\ UNCHANGED <<scope, req, cache, idem, bucket, scanned>>
    /\ UNCHANGED tenancyVars
-----------------------------------------------------------------------------
SdkInit == Init /\ cli = NoCli

\* Other clients of the gateway, and attempts the command no longer waits for.
other_client(c) ==
    \/ /\ c \in scope.clients
       /\ \E k \in Keys, body \in scope.requests : rate_limit_dispatch(c, k, body)
       /\ UNCHANGED cli
    \/ finish(c) /\ cli.on # c /\ UNCHANGED cli

SdkNext ==
    \/ Next
    \/ batch_start \/ interrupt \/ batch_skip \/ times_out
    \/ scan_interrupted \/ \E n \in DOMAIN File : scan_start(n)
    \/ \E i \in IdemKeys : client_scan(i)
    \/ \E c \in Clients : execute_request(c) \/ receive(c) \/ other_client(c)

SdkSpec == SdkInit /\ [][SdkNext]_vars

\* A request in service goes on and its answer is taken, an administrator's
\* request goes on too; an entry of the tenant cache reaches its expiry.
\* Serve(c) is enabled wherever c is neither idle nor answered and takes c
\* through each phase at most once, so that the first conjunct is weak fairness
\* of it, in a form TLC evaluates without running the engine.
SdkFairSpec ==
    /\ SdkSpec
    /\ \A c \in Clients : []<>At(c, "idle")
    /\ \A a \in Admins : WF_vars(End(a) /\ UNCHANGED <<gatewayVars, cli>>)
    /\ WF_vars(tenant_cache_expires /\ UNCHANGED <<gatewayVars, cli>>)
-----------------------------------------------------------------------------
\* The text of scan, or the prompts --limit lets through.
Due ==
    IF cli.command = "scan" THEN {cli.line}
    ELSE {n \in DOMAIN File : /\ Scannable(n)
                              /\ Cardinality({m \in 1..n : Scannable(m)}) <= LineLimit}

\* The exit code of a command can be trusted: 0 and 2 only if its text, or
\* every prompt the limit lets through, has a verdict, 0 only if none is a BLOCK and 2
\* only if one is; and the verdict of a line was reached on the text of that
\* line, although attempts of it and of other lines still run in the gateway
\* and answers are replayed or lost.
ExitCodeHonest ==
    /\ (CliAt("exit") /\ exit_code(cli) # 1) =>
          /\ Due \subseteq DOMAIN cli.verdicts
          /\ (exit_code(cli) = 2) <=> (\E n \in Due : cli.verdicts[n].decision = "BLOCK")
    /\ \A n \in DOMAIN cli.verdicts : cli.verdicts[n].of = File[n].body.items
=============================================================================
