-------------------------------- MODULE Requests --------------------------------
(***************************************************************************)
(* The requests of a level: send_streaming_request of app/client.py, the   *)
(* stream parsers of app/protocols/ and the totals that aggregate_metrics  *)
(* of app/stats.py makes of them.  A line of a stream is abstracted to     *)
(* what a parser tells apart; the lines that every parser skips (comments, *)
(* broken JSON, empty deltas) are left out.  Times count the lines.        *)
(***************************************************************************)
EXTENDS Integers, FiniteSets

CONSTANTS RequestId,   \* requests of the level
          MaxLines     \* bound: lines of a stream

ASSUME RequestsAssumption == IsFiniteSet(RequestId) /\ MaxLines \in Nat

VARIABLES
  metrics,   \* RequestMetrics of each request
  link,      \* its connection: "idle", then the protocol, then "closed"
  told       \* history: the protocol, the kinds of lines the upstream sent, the
             \* first of them by which the upstream judged the request

requestVars == <<metrics, link, told>>

Protocol == {"anthropic", "openai_chat", "openai_responses"}
LineKind == {"text", "usage",
             "finish",       \* message_stop; response.completed
             "failed",       \* error with a message; response.failed, or completed as failed
             "blank",        \* error without a message
             "done"}         \* [DONE]
Verdict == {"finish", "failed", "blank", "done"}
Model == {"claude", "gpt-5", "other"}
Provider == {"", "anthropic", "openai", "another"}

\* start_time, first_token_time and end_time are 0 until they are set.
Metrics == [start_time: {0, 1}, first_token_time: Nat, end_time: Nat,
            texts: Nat, last_text: Nat,        \* token_timestamps: how many, the last
            output_tokens: Nat, success: BOOLEAN, error: BOOLEAN, lines: 0..MaxLines]

RequestsTypeOK ==
  /\ metrics \in [RequestId -> Metrics]
  /\ link \in [RequestId -> Protocol \cup {"idle", "closed"}]
  /\ told \in [RequestId -> [protocol: Protocol \cup {"idle"}, kinds: SUBSET LineKind,
                            first: Verdict \cup {"none"}]]
---------------------------------------------------------------------------------
detect_protocol(model, provider) ==
  CASE provider = "another"                  -> "openai_chat"
    [] provider = "anthropic"                -> "anthropic"
    [] provider = "" /\ model = "claude"     -> "anthropic"
    [] OTHER -> IF model = "gpt-5" THEN "openai_responses" ELSE "openai_chat"

Now(m) == m.lines + 2        \* after start_time = 1

Ended(m) == [m EXCEPT !.end_time = Now(m)]
Failed(m) == [Ended(m) EXCEPT !.error = TRUE]

\* The same in all three parsers: text is timed, usage is kept.
Text(m) == [m EXCEPT !.first_token_time = IF @ = 0 THEN Now(m) ELSE @,
                     !.texts = @ + 1, !.last_text = Now(m)]
Usage(m, n) == [m EXCEPT !.output_tokens = n]

\* An error event is not known to AnthropicAdapter, nor is [DONE].
anthropic(m, kind) ==
  IF kind = "finish" THEN [Ended(m) EXCEPT !.success = TRUE] ELSE m

\* Mutant: the error is read only before the end of the stream is known.
openai_chat_late(m, kind) ==
  CASE kind = "done"   -> [Ended(m) EXCEPT !.success = TRUE]
    [] kind = "failed" -> Failed(m)
    [] OTHER           -> m

openai_chat(m, kind) ==
  CASE kind = "done"   -> [Ended(m) EXCEPT !.success = @ \/ ~m.error]
    [] kind = "failed" -> Failed(m)
    [] kind = "blank"  -> [Ended(m) EXCEPT !.error = FALSE]
    [] OTHER           -> m

\* [DONE] after response.failed makes a success of the request.
openai_responses(m, kind) ==
  CASE kind \in {"done", "finish"}  -> [Ended(m) EXCEPT !.success = TRUE]
    [] kind \in {"failed", "blank"} -> [Failed(m) EXCEPT !.success = FALSE]
    [] OTHER                        -> m

Parsed(m, protocol, kind) ==
  CASE protocol = "anthropic"        -> anthropic(m, kind)
    [] protocol = "openai_chat"      -> openai_chat(m, kind)
    [] protocol = "openai_responses" -> openai_responses(m, kind)

\* Mutant: neither the parser nor the client checks how the stream ended.
StreamJustEnds(m, protocol) == m

\* The stream is over: without a final event the request failed, except that a chat
\* that brought text counts.  (What send_streaming_request checks next then holds.)
StreamEnded(m, protocol) ==
  CASE m.end_time # 0                               -> m
    [] m.end_time = 0 /\ protocol = "openai_chat" /\ m.texts > 0
                                                    -> [Ended(m) EXCEPT !.success = TRUE]
    [] OTHER                                        -> Failed(m)
---------------------------------------------------------------------------------
\* send_streaming_request: without base_url, key or model nothing is sent.
Refuse(r) ==
  /\ link[r] = "idle"
  /\ link' = [link EXCEPT ![r] = "closed"]
  /\ metrics' = [metrics EXCEPT ![r] = Failed(@)]
  /\ UNCHANGED told

Connect(r, model, provider) ==
  /\ link[r] = "idle"
  /\ link' = [link EXCEPT ![r] = detect_protocol(model, provider)]
  /\ metrics' = [metrics EXCEPT ![r].start_time = 1]
  /\ told' = [told EXCEPT ![r].protocol = detect_protocol(model, provider)]

Open(r) == link[r] \in Protocol

ReadLine(r, kind, n) ==
  /\ Open(r) /\ metrics[r].lines < MaxLines
  /\ LET m == [metrics[r] EXCEPT !.lines = @ + 1]
     IN metrics' = [metrics EXCEPT ![r] =
          CASE kind = "text"  -> Text(m)
            [] kind = "usage" -> Usage(m, n)
            [] OTHER          -> Parsed(m, link[r], kind)]
  /\ told' = [told EXCEPT ![r].kinds = @ \cup {kind},
                          ![r].first = IF @ = "none" /\ kind \in Verdict THEN kind ELSE @]
  /\ UNCHANGED link

EndOfStream(r) ==
  /\ Open(r)
  /\ metrics' = [metrics EXCEPT ![r] = StreamEnded(@, link[r])]
  /\ link' = [link EXCEPT ![r] = "closed"]
  /\ UNCHANGED told

\* A status that is not 200, a timeout, a connection that breaks, an event of another
\* shape: also after the final event, as long as the connection is open.
Interrupt(r) ==
  /\ Open(r)
  /\ metrics' = [metrics EXCEPT ![r] = Failed(@)]
  /\ link' = [link EXCEPT ![r] = "closed"]
  /\ UNCHANGED told
---------------------------------------------------------------------------------
\* RequestMetrics.ttft, e2e and tpot; tpot as a fraction.
ttft(m) == IF m.first_token_time # 0 /\ m.start_time # 0 THEN {m.first_token_time - m.start_time} ELSE {}
e2e(m) == IF m.end_time # 0 /\ m.start_time # 0 THEN {m.end_time - m.start_time} ELSE {}

\* Mutant: the time after the first token is used whatever it is.
GenerationTimesUnchecked(m) == {e - f : e \in e2e(m), f \in ttft(m)}

GenerationTimes(m) == {t \in {e - f : e \in e2e(m), f \in ttft(m)} : t > 0}

tpot(m) ==
  IF m.output_tokens > 1 /\ GenerationTimes(m) # {}
  THEN {<<t, m.output_tokens - 1>> : t \in GenerationTimes(m)}
  ELSE IF m.texts >= 2 THEN {<<m.last_text - m.first_token_time, m.texts - 1>>} ELSE {}

\* aggregate_metrics, with the requests in the place of their values.
aggregate_metrics ==
  LET succeeded == {r \in RequestId : metrics[r].success}
  IN [success_count |-> Cardinality(succeeded),
      failed_count  |-> Cardinality(RequestId) - Cardinality(succeeded),
      error_details |-> {r \in RequestId : metrics[r].error},
      ttft_values   |-> [r \in succeeded |-> ttft(metrics[r])],
      tpot_values   |-> [r \in succeeded |-> tpot(metrics[r])],
      e2e_values    |-> [r \in succeeded |-> e2e(metrics[r])]]

RequestsInit ==
  /\ metrics = [r \in RequestId |-> [start_time |-> 0, first_token_time |-> 0, end_time |-> 0,
       texts |-> 0, last_text |-> 0, output_tokens |-> 0, success |-> FALSE, error |-> FALSE,
       lines |-> 0]]
  /\ link = [r \in RequestId |-> "idle"]
  /\ told = [r \in RequestId |-> [protocol |-> "idle", kinds |-> {}, first |-> "none"]]

RequestsNext == \E r \in RequestId :
  \/ Refuse(r) \/ EndOfStream(r) \/ Interrupt(r)
  \/ \E model \in Model, provider \in Provider : Connect(r, model, provider)
  \/ \E kind \in LineKind \ {"usage"} : ReadLine(r, kind, 0)
  \/ \E n \in 1..2 : ReadLine(r, "usage", n)

RequestsSpec == RequestsInit /\ [][RequestsNext]_requestVars
---------------------------------------------------------------------------------
Closed == \A r \in RequestId : link[r] = "closed"

\* client.py and stats.py: the requests of a report that failed are listed with their
\* errors, unless the upstream reported an error and did not say which.
FailuresExplained ==
  Closed /\ (\A r \in RequestId : "blank" \notin told[r].kinds) =>
    aggregate_metrics.failed_count <= Cardinality(aggregate_metrics.error_details)

\* The parsers: a request succeeds only if the upstream said that it was finished or, in
\* a chat, sent text and was cut off; an error that a chat named first is not forgotten,
\* unless an error without a message replaces it.
SuccessIsEarned ==
  \A r \in RequestId : metrics[r].success =>
    CASE told[r].protocol = "anthropic"        -> "finish" \in told[r].kinds
      [] told[r].protocol = "openai_chat"      -> /\ told[r].kinds \cap {"text", "done"} # {}
                                                  /\ told[r].first = "failed" => "blank" \in told[r].kinds
      [] told[r].protocol = "openai_responses" -> told[r].kinds \cap {"finish", "done"} # {}

\* client.py:59: whatever the order of its lines, a request that succeeded has a duration
\* and no negative time per token, so that the percentiles of a report are of times.
SamplesAreTimes ==
  LET report == aggregate_metrics
  IN \A r \in DOMAIN report.e2e_values :
       /\ \E t \in report.e2e_values[r] : t > 0
       /\ \A sample \in report.tpot_values[r] : sample[1] >= 0 /\ sample[2] > 0
=================================================================================
