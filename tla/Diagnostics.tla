------------------------------ MODULE Diagnostics ------------------------------
(***************************************************************************)
(* The channel diagnosis: run_diagnostics of app/diagnostics/runner.py     *)
(* over its categories, run_cache_diagnostics of                           *)
(* app/channel_diagnostics.py with its six probes and the report it makes  *)
(* of them, against an upstream that caches prompts or that a proxy stands *)
(* in front of.  The upstream and its cache are the environment; it may    *)
(* serve several diagnoses at a time and may evict what it cached.         *)
(* Prompts are abstracted to the prefix they start with, numbers of tokens *)
(* to tenths of the system prompt.                                         *)
(***************************************************************************)
EXTENDS Handlers, Sequences

CONSTANTS Diagnosis,     \* diagnoses in flight (bound)
          Selections,    \* the known ones of the categories that are asked for (bound)
          MaxFaults      \* bound: probes that fail and prefixes that are evicted

Category == {"cache", "connectivity", "streaming", "context", "structured", "tool_use"}

Honest == {"native",       \* caches prefixes
           "uncached",     \* reports that it cached nothing
           "silent"}       \* reports nothing about its cache
Interfering == {"hinting",       \* adds a short stable prefix
                "stuffing",      \* adds a long one
                "truncating"}    \* forwards a part of the prompt

\* What is known of a probe, and of a diagnosis.
Probe == [status: {"passed", "failed"}, cache_read_tokens: Nat, cache_creation_tokens: Nat,
          input_tokens: Nat, fields: BOOLEAN, latency: {"sub_100ms", "sub_300ms", "slow"}]
Status == {"pending", "passed", "warning", "failed", "error", "inconclusive"}
Running == [protocol: {"anthropic", "other"}, probes: Seq(Probe),
            category: UNION {[selection -> Status] : selection \in SUBSET Category},
            overall_status: Status]

ASSUME DiagnosticsAssumption ==
  /\ IsFiniteSet(Diagnosis) /\ MaxFaults \in Nat
  /\ Selections \subseteq SUBSET Category
  /\ Null \notin Running

VARIABLES
  upstream,    \* what kind of upstream the site is
  cached,      \* its cache: prefixes
  evicted,     \* history: how many prefixes it has evicted
  diagnosis    \* per diagnosis Null or [protocol, probes, category, overall_status]

diagnosticVars == <<upstream, cached, evicted, diagnosis>>

Expected == 10             \* tokens of a system prompt, as _estimate_tokens says
Added == "added"           \* the prefix that a proxy adds

Started(d) == diagnosis[d] # Null

DiagnosticsTypeOK ==
  /\ upstream \in Honest \cup Interfering \cup {"unknown"}
  /\ cached \subseteq ((Diagnosis \cup {"any"}) \X {"long", "breaker"}) \cup {<<Added>>}
  /\ evicted \in 0..MaxFaults
  /\ diagnosis \in [Diagnosis -> Running \cup {Null}]
  /\ \A d \in Diagnosis : Started(d) => Len(diagnosis[d].probes) <= 6
--------------------------------------------------------------------------------
\* The probes of a diagnosis: cold_prefix, warm_prefix three times, breaker_prefix,
\* repeat_identical.
Cold == 1
Warm == 2..4
Breaker == 5
Repeat == 6

\* Mutant: without run_tag.
PromptUntagged(d, i) == <<"any", IF i = Breaker THEN "breaker" ELSE "long">>

\* cold_, warm_ and breaker_prefix_prompts: the prefix starts with the run's own run_tag.
Prompt(d, i) == <<d, IF i = Breaker THEN "breaker" ELSE "long">>

\* What an upstream does with a prompt: the prefixes it caches, ...
Prefixes(prompt) ==
  CASE upstream = "native"                   -> {prompt}
    [] upstream \in {"hinting", "stuffing"}  -> {prompt, <<Added>>}
    [] OTHER                                 -> {}

Tokens(prefix) ==
  IF prefix = <<Added>> THEN (IF upstream = "hinting" THEN 2 ELSE 20) ELSE Expected

TokensOf(prefixes) ==
  LET own == {p \in prefixes : p # <<Added>>}
  IN Expected * Cardinality(own) + IF <<Added>> \in prefixes THEN Tokens(<<Added>>) ELSE 0

\* ... and the usage it reports, as _extract_cache_tokens and the events of the stream give it.
UsageOf(prompt) ==
  [cache_read_tokens     |-> TokensOf(Prefixes(prompt) \cap cached),
   cache_creation_tokens |-> TokensOf(Prefixes(prompt) \ cached),
   input_tokens |-> CASE upstream \in {"uncached", "silent"} -> Expected
                      [] upstream = "truncating"             -> 2
                      [] OTHER                               -> 0,
   fields |-> upstream # "silent"]

NoUsage == [cache_read_tokens |-> 0, cache_creation_tokens |-> 0, input_tokens |-> 0, fields |-> FALSE]

Result(status, usage, latency) ==
  [status |-> status, latency |-> latency, fields |-> usage.fields,
   cache_read_tokens |-> usage.cache_read_tokens,
   cache_creation_tokens |-> usage.cache_creation_tokens, input_tokens |-> usage.input_tokens]
--------------------------------------------------------------------------------
\* build_cache_report, from six probes of which the first passed.
Passed(probe) == probe.status = "passed"
_is_cache_hit(probe) == probe.cache_read_tokens > 0
HasUsage(probe) == Passed(probe) /\ (_is_cache_hit(probe) \/ probe.cache_creation_tokens > 0)

\* Mutant: as much as the first request cached must be read.
BreakerReadAll(probes) ==
  Passed(probes[Breaker]) /\ probes[Breaker].cache_read_tokens >= probes[Cold].cache_creation_tokens

BreakerAnomaly(probes) == Passed(probes[Breaker]) /\ _is_cache_hit(probes[Breaker])

WarmPassed(probes) == {i \in Warm : Passed(probes[i])}
WarmHits(probes) == {i \in WarmPassed(probes) : _is_cache_hit(probes[i])}
AllCriticalPassed(probes) == \A i \in {Cold, Breaker} \cup Warm : Passed(probes[i])

\* What the usage says, without suspicion.
UsageStatus(probes) ==
  CASE \A i \in 1..6 : ~HasUsage(probes[i]) ->
         IF ~AllCriticalPassed(probes) THEN "inconclusive"
         ELSE IF \E i \in 1..6 : Passed(probes[i]) /\ probes[i].fields
              THEN "no_cache" ELSE "no_usage_fields"
    [] (\E i \in 1..6 : HasUsage(probes[i])) /\ WarmPassed(probes) = {} -> "inconclusive"
    [] WarmHits(probes) # {} ->
         IF BreakerAnomaly(probes) THEN "warning"
         ELSE IF ~AllCriticalPassed(probes) THEN "inconclusive"
         ELSE IF WarmHits(probes) = WarmPassed(probes) THEN "supported" ELSE "partial"
    [] OTHER -> IF probes[Cold].cache_creation_tokens > 0 THEN "warning" ELSE "inconclusive"

\* The four signs of a proxy.
ProxyFlags(probes) ==
  LET cold == probes[Cold]
      cacheable == cold.cache_creation_tokens + cold.cache_read_tokens
      total == cold.input_tokens + cacheable
  IN (IF _is_cache_hit(cold) THEN {"cold_hit"} ELSE {})
     \cup (IF cacheable * 2 > Expected * 3 THEN {"injected"} ELSE {})
     \cup (IF total > Expected * 2 THEN {"added"}
           ELSE IF total > 0 /\ total * 10 < Expected * 3 THEN {"dropped"} ELSE {})
     \cup (IF BreakerAnomaly(probes) THEN {"breaker_hit"} ELSE {})

build_cache_report(probes) ==
  [prompt_cache   |-> IF ProxyFlags(probes) # {} THEN "warning" ELSE UsageStatus(probes),
   proxy_cache    |-> ProxyFlags(probes) # {},
   response_cache |-> CASE ~Passed(probes[Repeat])                 -> "not_detected"
                        [] probes[Repeat].latency = "sub_100ms"    -> "suspected"
                        [] probes[Repeat].latency = "sub_300ms"    -> "possible"
                        [] OTHER                                   -> "not_detected"]

compute_overall_status(report) ==
  CASE report.response_cache = "suspected"                  -> "warning"
    [] report.prompt_cache \in {"supported", "partial"}     -> "passed"
    [] OTHER                                                -> report.prompt_cache

\* run_cache_probes translates the statuses it knows; "inconclusive" is left as it is.
run_cache_probes(probes) ==
  LET status == compute_overall_status(build_cache_report(probes))
  IN IF status \in {"no_usage_fields", "no_cache"} THEN "warning" ELSE status
--------------------------------------------------------------------------------
Deploy(kind) ==
  /\ upstream = "unknown"
  /\ upstream' = kind
  /\ UNCHANGED <<cached, evicted, diagnosis>>

\* create_channel_diagnostic with the site's protocol; only Anthropic's has cache probes.
create_channel_diagnostic(d, protocol, selection) ==
  /\ ~Started(d) /\ upstream # "unknown"
  /\ diagnosis' = [diagnosis EXCEPT ![d] =
       [protocol |-> protocol, probes |-> <<>>, overall_status |-> "pending",
        category |-> [c \in selection |->
          IF c = "cache" /\ protocol # "anthropic" THEN "error" ELSE "pending"]]]
  /\ UNCHANGED <<upstream, cached, evicted>>

Failures(d) == {i \in DOMAIN diagnosis[d].probes : ~Passed(diagnosis[d].probes[i])}
Faults ==
  evicted + Cardinality(UNION {{d} \X Failures(d) : d \in {e \in Diagnosis : Started(e)}})

Pending(d, c) ==
  Started(d) /\ c \in DOMAIN diagnosis[d].category /\ diagnosis[d].category[c] = "pending"

\* _run_single_probe.  A probe that fails has reached the upstream or not.  After the first
\* failed, or the last, the category has its status.
_run_single_probe(d, reached, answered, latency) ==
  LET i == Len(diagnosis[d].probes) + 1
      prompt == Prompt(d, i)
      probes == Append(diagnosis[d].probes,
                       IF answered THEN Result("passed", UsageOf(prompt), latency)
                       ELSE Result("failed", NoUsage, "slow"))
      status == IF ~Passed(probes[Cold]) THEN "error"
                ELSE IF i = Repeat THEN run_cache_probes(probes) ELSE "pending"
  IN /\ answered => reached
     /\ ~answered => Faults < MaxFaults
     /\ i # Repeat \/ ~answered => latency = "slow"
     /\ cached' = IF reached THEN cached \cup Prefixes(prompt) ELSE cached
     /\ diagnosis' = [diagnosis EXCEPT ![d].probes = probes, ![d].category["cache"] = status]
     /\ UNCHANGED <<upstream, evicted>>

Evict(prefix) ==
  /\ prefix \in cached /\ Faults < MaxFaults
  /\ cached' = cached \ {prefix}
  /\ evicted' = evicted + 1
  /\ UNCHANGED <<upstream, diagnosis>>

\* The other categories read the text events of Anthropic's protocol only.  streaming and
\* context pass an argument that aiohttp does not take: their requests are never sent.
RunCategory(d, c, good) ==
  /\ Pending(d, c) /\ c # "cache"
  /\ diagnosis' = [diagnosis EXCEPT ![d].category[c] =
       IF good /\ diagnosis[d].protocol = "anthropic" /\ c \notin {"streaming", "context"}
       THEN "passed" ELSE "failed"]
  /\ UNCHANGED <<upstream, cached, evicted>>

\* run_diagnostics: the worst status, as far as it is known.
OverallStatus(statuses) ==
  CASE statuses = {}                    -> "error"
    [] statuses = {"passed"}            -> "passed"
    [] "error" \in statuses             -> "error"
    [] "error" \notin statuses /\ "failed" \in statuses -> "failed"
    [] statuses \cap {"error", "failed"} = {} /\ "warning" \in statuses -> "warning"
    [] OTHER                            -> "passed"

\* ... once all categories are done; the diagnosis is saved with it.
run_diagnostics(d) ==
  /\ Started(d) /\ diagnosis[d].overall_status = "pending"
  /\ \A c \in DOMAIN diagnosis[d].category : ~Pending(d, c)
  /\ diagnosis' = [diagnosis EXCEPT ![d].overall_status =
       OverallStatus({diagnosis[d].category[c] : c \in DOMAIN diagnosis[d].category})]
  /\ UNCHANGED <<upstream, cached, evicted>>

DiagnosticsInit ==
  /\ upstream = "unknown" /\ cached = {} /\ evicted = 0
  /\ diagnosis = [d \in Diagnosis |-> Null]

DiagnosticsNext ==
  \/ \E kind \in Honest \cup Interfering : Deploy(kind)
  \/ \E d \in Diagnosis :
       \/ \E protocol \in {"anthropic", "other"}, selection \in Selections :
            create_channel_diagnostic(d, protocol, selection)
       \/ /\ Pending(d, "cache")
          /\ \E reached, answered \in BOOLEAN, latency \in {"sub_100ms", "sub_300ms", "slow"} :
               _run_single_probe(d, reached, answered, latency)
       \/ \E c \in Category, good \in BOOLEAN : RunCategory(d, c, good)
       \/ run_diagnostics(d)
  \/ \E prefix \in cached : Evict(prefix)

DiagnosticsSpec == DiagnosticsInit /\ [][DiagnosticsNext]_diagnosticVars
--------------------------------------------------------------------------------
Probed(d) == Started(d) /\ Len(diagnosis[d].probes) = 6 /\ evicted = 0

\* channel_diagnostics.py: however many diagnoses run, whichever of its probes failed, an
\* upstream that leaves prompts alone and evicts nothing is not taken for a proxy.
HonestNotAccused ==
  \A d \in Diagnosis : Probed(d) /\ upstream \in Honest =>
    LET report == build_cache_report(diagnosis[d].probes)
    IN ~report.proxy_cache /\ report.prompt_cache # "warning"

\* channel_diagnostics.py:753 and runner.py:71: a proxy that changes prompts does not pass,
\* if all the probes were answered.
InterferenceSeen ==
  \A d \in Diagnosis :
    Probed(d) /\ upstream \in Interfering /\ Failures(d) = {} =>
      diagnosis[d].overall_status # "passed"
================================================================================
