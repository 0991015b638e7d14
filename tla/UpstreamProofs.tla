----------------------------- MODULE UpstreamProofs -----------------------------
(***************************************************************************)
(* Theorems about what the program makes of an upstream's answers:         *)
(* Requests and Diagnostics.  They share no state; each theorem is about   *)
(* the specification of one of them.                                       *)
(***************************************************************************)
EXTENDS Requests, Diagnostics, SequenceTheorems, FiniteSetTheorems, TLAPS
---------------------------------------------------------------------------------
(***************************************************************************)
(* Requests: what a report says about the requests of a level, for any     *)
(* number of requests and streams of any length.                           *)
(***************************************************************************)
Told == [protocol: Protocol \cup {"idle"}, kinds: SUBSET LineKind, first: Verdict \cup {"none"}]

\* What the end of a request, or a line that reports it, makes of the metrics: the end is
\* now, and the outcome is that.
Outcome(m, success, error) ==
  [m EXCEPT !.end_time = Now(m), !.success = success, !.error = error]

LEMMA NowType ==
  ASSUME NEW m \in Metrics
  PROVE  Now(m) \in Nat /\ Now(m) = m.lines + 2 /\ m.texts + 1 \in Nat /\ m.first_token_time \in Nat
BY RequestsAssumption DEF Now, Metrics

LEMMA OutcomeFields ==
  ASSUME NEW m \in Metrics, NEW success \in BOOLEAN, NEW error \in BOOLEAN
  PROVE  LET w == Outcome(m, success, error)
         IN  /\ w \in Metrics
             /\ w.end_time = Now(m) /\ w.success = success /\ w.error = error
             /\ w.start_time = m.start_time /\ w.lines = m.lines /\ w.texts = m.texts
             /\ w.first_token_time = m.first_token_time /\ w.last_text = m.last_text
<1>1. Now(m) \in Nat
  BY NowType
<1> QED BY <1>1 DEF Outcome, Metrics

LEMMA EndedOutcome ==
  ASSUME NEW m \in Metrics
  PROVE  /\ m.success \in BOOLEAN /\ m.error \in BOOLEAN
         /\ Failed(m) = Outcome(m, m.success, TRUE)
         /\ \A b \in BOOLEAN : [Ended(m) EXCEPT !.success = b] = Outcome(m, b, m.error)
         /\ \A b \in BOOLEAN : [Ended(m) EXCEPT !.error = b] = Outcome(m, m.success, b)
         /\ \A b \in BOOLEAN : [Failed(m) EXCEPT !.success = b] = Outcome(m, b, TRUE)
<1>1. m.success \in BOOLEAN /\ m.error \in BOOLEAN
  BY DEF Metrics
<1>2. m = [start_time |-> m.start_time, first_token_time |-> m.first_token_time, end_time |-> m.end_time,
           texts |-> m.texts, last_text |-> m.last_text, output_tokens |-> m.output_tokens,
           success |-> m.success, error |-> m.error, lines |-> m.lines]
  BY DEF Metrics
<1> QED BY <1>1, <1>2 DEF Ended, Failed, Outcome

\* The parsers, line by line.
LEMMA Anthropic ==
  ASSUME NEW m \in Metrics, NEW kind \in LineKind
  PROVE  Parsed(m, "anthropic", kind) =
           IF kind = "finish" THEN Outcome(m, TRUE, m.error) ELSE m
BY EndedOutcome DEF Parsed, anthropic

LEMMA Chat ==
  ASSUME NEW m \in Metrics, NEW kind \in LineKind
  PROVE  Parsed(m, "openai_chat", kind) =
           CASE kind = "done"   -> Outcome(m, m.success \/ ~m.error, m.error)
             [] kind = "failed" -> Outcome(m, m.success, TRUE)
             [] kind = "blank"  -> Outcome(m, m.success, FALSE)
             [] OTHER           -> m
<1>1. Parsed(m, "openai_chat", kind) = openai_chat(m, kind)
  BY DEF Parsed
<1>2. [Ended(m) EXCEPT !.success = @ \/ ~m.error] = Outcome(m, m.success \/ ~m.error, m.error)
  <2>1. Ended(m).success = m.success
    BY DEF Ended, Metrics
  <2> QED BY <2>1, EndedOutcome
<1> QED BY <1>1, <1>2, EndedOutcome DEF openai_chat

LEMMA Responses ==
  ASSUME NEW m \in Metrics, NEW kind \in LineKind
  PROVE  Parsed(m, "openai_responses", kind) =
           CASE kind \in {"done", "finish"}  -> Outcome(m, TRUE, m.error)
             [] kind \in {"failed", "blank"} -> Outcome(m, FALSE, TRUE)
             [] OTHER                        -> m
BY EndedOutcome DEF Parsed, openai_responses
---------------------------------------------------------------------------------
\* The line that is read counts before it is parsed; the upstream remembers it.
Counted(m) == [m EXCEPT !.lines = @ + 1]

Heard(t, kind) ==
  [t EXCEPT !.kinds = @ \cup {kind}, !.first = IF @ = "none" /\ kind \in Verdict THEN kind ELSE @]

LEMMA CountedFields ==
  ASSUME NEW m \in Metrics, m.lines < MaxLines
  PROVE  LET c == Counted(m)
         IN  /\ c \in Metrics
             /\ c.lines = m.lines + 1 /\ Now(c) = m.lines + 3
             /\ c.start_time = m.start_time /\ c.end_time = m.end_time /\ c.texts = m.texts
             /\ c.first_token_time = m.first_token_time /\ c.last_text = m.last_text
             /\ c.success = m.success /\ c.error = m.error
<1>1. m.lines + 1 \in 0..MaxLines
  BY RequestsAssumption DEF Metrics
<1>2. Counted(m) \in Metrics /\ Counted(m).lines = m.lines + 1
  BY <1>1 DEF Counted, Metrics
<1>3. Now(Counted(m)) = m.lines + 3
  BY <1>2, RequestsAssumption DEF Now, Metrics
<1> QED BY <1>2, <1>3 DEF Counted, Metrics

LEMMA TextFields ==
  ASSUME NEW m \in Metrics
  PROVE  LET w == Text(m)
         IN  /\ w \in Metrics
             /\ w.lines = m.lines /\ w.start_time = m.start_time /\ w.end_time = m.end_time
             /\ w.texts = m.texts + 1 /\ w.last_text = Now(m)
             /\ w.first_token_time = IF m.first_token_time = 0 THEN Now(m) ELSE m.first_token_time
             /\ w.success = m.success /\ w.error = m.error
<1> DEFINE first == IF m.first_token_time = 0 THEN Now(m) ELSE m.first_token_time
<1>1. first \in Nat /\ m.texts + 1 \in Nat /\ Now(m) \in Nat
  BY NowType
<1>2. Text(m) = [m EXCEPT !.first_token_time = first, !.texts = m.texts + 1, !.last_text = Now(m)]
  BY DEF Text, Metrics
<1> HIDE DEF first
<1>3. /\ Text(m) \in Metrics /\ Text(m).first_token_time = first
      /\ Text(m).texts = m.texts + 1 /\ Text(m).last_text = Now(m)
  BY <1>1, <1>2 DEF Metrics
<1>4. /\ Text(m).lines = m.lines /\ Text(m).start_time = m.start_time
      /\ Text(m).end_time = m.end_time /\ Text(m).success = m.success /\ Text(m).error = m.error
  BY <1>2 DEF Metrics
<1> QED BY <1>3, <1>4 DEF first

LEMMA UsageFields ==
  ASSUME NEW m \in Metrics, NEW n \in Nat
  PROVE  LET w == Usage(m, n)
         IN  /\ w \in Metrics
             /\ w.lines = m.lines /\ w.start_time = m.start_time /\ w.end_time = m.end_time
             /\ w.texts = m.texts /\ w.last_text = m.last_text
             /\ w.first_token_time = m.first_token_time
             /\ w.success = m.success /\ w.error = m.error
BY DEF Usage, Metrics

LEMMA HeardFields ==
  ASSUME NEW t \in Told, NEW kind \in LineKind
  PROVE  /\ Heard(t, kind) \in Told /\ Heard(t, kind).protocol = t.protocol
         /\ Heard(t, kind).kinds = t.kinds \cup {kind}
         /\ Heard(t, kind).first = IF t.first = "none" /\ kind \in Verdict THEN kind ELSE t.first
BY DEF Heard, Told, Verdict
---------------------------------------------------------------------------------
\* Times: the first text and the end come after the start, the last text not before the
\* first one.
Timed(m, l) ==
  /\ l \in Protocol => m.start_time = 1
  /\ m.success => m.start_time = 1 /\ m.end_time >= 2
  /\ m.first_token_time = 0 \/ (2 <= m.first_token_time /\ m.first_token_time <= m.lines + 2)
  /\ m.texts >= 1 => m.first_token_time # 0 /\ m.first_token_time <= m.last_text

\* What the metrics say is what the upstream said: SuccessIsEarned, with what a parser
\* remembers of the lines it has read.
Earned(m, l, t) ==
  /\ l \in Protocol => t.protocol = l
  /\ l = "idle" => t.protocol = "idle" /\ m.texts = 0 /\ m.end_time = 0 /\ t.kinds = {}
                   /\ t.first = "none"
  /\ t.protocol = "idle" => ~m.success
  /\ m.texts > 0 => "text" \in t.kinds
  /\ t.protocol = "anthropic" /\ m.success => "finish" \in t.kinds
  /\ t.protocol = "openai_responses" /\ m.success => t.kinds \cap {"finish", "done"} # {}
  /\ t.protocol = "openai_chat" /\ m.success => t.kinds \cap {"text", "done"} # {}
  /\ l = "openai_chat" /\ t.first = "none" => m.end_time = 0 /\ ~m.success
  /\ t.protocol = "openai_chat" /\ t.first = "failed" /\ "blank" \notin t.kinds =>
       m.end_time # 0 /\ m.error /\ ~m.success

\* An end has a reason.
Explained(m, l, t) ==
  (l \in Protocol /\ m.end_time # 0) \/ l = "closed" => m.success \/ m.error \/ "blank" \in t.kinds

Judged(m, l, t) == Timed(m, l) /\ Earned(m, l, t) /\ Explained(m, l, t)

\* Each of the three is preserved by a line, ...
LEMMA TextJudged ==
  ASSUME NEW m \in Metrics, NEW l \in Protocol, NEW t \in Told, m.lines < MaxLines, Judged(m, l, t)
  PROVE  Judged(Text(Counted(m)), l, Heard(t, "text"))
<1> DEFINE c == Counted(m)
           w == Text(c)
           u == Heard(t, "text")
<1>1. /\ c \in Metrics /\ w \in Metrics /\ u \in Told /\ "text" \in LineKind
      /\ w.start_time = m.start_time /\ w.lines = m.lines + 1 /\ w.end_time = m.end_time
      /\ w.texts = m.texts + 1 /\ w.last_text = m.lines + 3
      /\ w.first_token_time = IF m.first_token_time = 0 THEN m.lines + 3 ELSE m.first_token_time
  BY CountedFields, TextFields, HeardFields DEF LineKind
<1>2. /\ w.success = m.success /\ w.error = m.error
  BY CountedFields, TextFields
<1>3. u.protocol = t.protocol /\ u.kinds = t.kinds \cup {"text"} /\ u.first = t.first
  BY HeardFields DEF LineKind, Verdict
<1>4. m.lines \in Nat /\ m.texts \in Nat /\ m.first_token_time \in Nat /\ m.last_text \in Nat
      /\ m.end_time \in Nat
  BY DEF Metrics
<1> HIDE DEF c, w, u
<1>5. Timed(w, l)
  <2>1. w.start_time = 1
    BY <1>1 DEF Judged, Timed
  <2>2. w.success => w.start_time = 1 /\ w.end_time >= 2
    BY <1>1, <1>2 DEF Judged, Timed
  <2>3. w.first_token_time = 0 \/ (2 <= w.first_token_time /\ w.first_token_time <= w.lines + 2)
    BY <1>1, <1>4 DEF Judged, Timed
  <2>4. w.texts >= 1 => w.first_token_time # 0 /\ w.first_token_time <= w.last_text
    BY <1>1, <1>4 DEF Judged, Timed
  <2> QED BY <2>1, <2>2, <2>3, <2>4 DEF Timed
<1>6. Earned(w, l, u)
  BY <1>1, <1>2, <1>3 DEF Judged, Earned, Protocol
<1>7. Explained(w, l, u)
  BY <1>1, <1>2, <1>3 DEF Judged, Explained
<1> QED BY <1>5, <1>6, <1>7 DEF Judged, c, w, u

LEMMA UsageJudged ==
  ASSUME NEW m \in Metrics, NEW l \in Protocol, NEW t \in Told, NEW n \in Nat,
         m.lines < MaxLines, Judged(m, l, t)
  PROVE  Judged(Usage(Counted(m), n), l, Heard(t, "usage"))
<1> DEFINE w == Usage(Counted(m), n)
           u == Heard(t, "usage")
<1>1. /\ w \in Metrics /\ u \in Told
      /\ w.start_time = m.start_time /\ w.lines = m.lines + 1 /\ w.end_time = m.end_time
      /\ w.texts = m.texts /\ w.last_text = m.last_text
      /\ w.first_token_time = m.first_token_time
  BY CountedFields, UsageFields, HeardFields DEF LineKind
<1>2. /\ w.success = m.success /\ w.error = m.error
  BY CountedFields, UsageFields
<1>3. u.protocol = t.protocol /\ u.kinds = t.kinds \cup {"usage"} /\ u.first = t.first
  BY HeardFields DEF LineKind, Verdict
<1>4. m.lines \in Nat /\ m.first_token_time \in Nat
  BY DEF Metrics
<1> HIDE DEF w, u
<1>5. Timed(w, l)
  <2>1. w.start_time = 1
    BY <1>1 DEF Judged, Timed
  <2>2. w.success => w.start_time = 1 /\ w.end_time >= 2
    BY <1>1, <1>2 DEF Judged, Timed
  <2>3. w.first_token_time = 0 \/ (2 <= w.first_token_time /\ w.first_token_time <= w.lines + 2)
    BY <1>1, <1>4 DEF Judged, Timed
  <2>4. w.texts >= 1 => w.first_token_time # 0 /\ w.first_token_time <= w.last_text
    BY <1>1, <1>4 DEF Judged, Timed
  <2> QED BY <2>1, <2>2, <2>3, <2>4 DEF Timed
<1>6. Earned(w, l, u)
  BY <1>1, <1>2, <1>3 DEF Judged, Earned, Protocol
<1>7. Explained(w, l, u)
  BY <1>1, <1>2, <1>3 DEF Judged, Explained
<1> QED BY <1>5, <1>6, <1>7 DEF Judged, w, u

\* ... by an outcome of now, whatever the line was, as far as the times go, ...
LEMMA OutcomeTimed ==
  ASSUME NEW m \in Metrics, NEW l \in Protocol, NEW k \in Protocol \cup {"closed"},
         NEW success \in BOOLEAN, NEW error \in BOOLEAN, Timed(m, l)
  PROVE  Timed(Outcome(m, success, error), k)
<1> DEFINE w == Outcome(m, success, error)
<1>1. /\ w.start_time = m.start_time /\ w.lines = m.lines /\ w.end_time = m.lines + 2
      /\ w.texts = m.texts /\ w.last_text = m.last_text
      /\ w.first_token_time = m.first_token_time
  BY OutcomeFields, NowType
<1>2. m.lines \in Nat /\ m.start_time = 1
  BY DEF Metrics, Timed
<1> HIDE DEF w
<1>3. w.end_time >= 2 /\ w.start_time = 1
  BY <1>1, <1>2
<1>4. w.first_token_time = 0 \/ (2 <= w.first_token_time /\ w.first_token_time <= w.lines + 2)
  BY <1>1, <1>2 DEF Timed
<1>5. w.texts >= 1 => w.first_token_time # 0 /\ w.first_token_time <= w.last_text
  BY <1>1 DEF Timed
<1> QED BY <1>3, <1>4, <1>5 DEF Timed, w

LEMMA CountedTimed ==
  ASSUME NEW m \in Metrics, NEW l \in Protocol, m.lines < MaxLines, Timed(m, l)
  PROVE  Timed(Counted(m), l)
<1> DEFINE c == Counted(m)
<1>1. /\ c.start_time = m.start_time /\ c.lines = m.lines + 1 /\ c.end_time = m.end_time
      /\ c.texts = m.texts /\ c.last_text = m.last_text
      /\ c.first_token_time = m.first_token_time
  BY CountedFields
<1>2. c.success = m.success
  BY CountedFields
<1>3. m.lines \in Nat /\ m.first_token_time \in Nat
  BY DEF Metrics
<1> HIDE DEF c
<1>4. c.success => c.start_time = 1 /\ c.end_time >= 2
  BY <1>1, <1>2 DEF Timed
<1>5. c.first_token_time = 0 \/ (2 <= c.first_token_time /\ c.first_token_time <= c.lines + 2)
  BY <1>1, <1>3 DEF Timed
<1>6. c.texts >= 1 => c.first_token_time # 0 /\ c.first_token_time <= c.last_text
  BY <1>1 DEF Timed
<1>7. c.start_time = 1
  BY <1>1 DEF Timed
<1> QED BY <1>4, <1>5, <1>6, <1>7 DEF Timed, c

\* ... and by what each parser makes of the other lines.
LEMMA ParsedJudged ==
  ASSUME NEW m \in Metrics, NEW l \in Protocol, NEW t \in Told, NEW kind \in Verdict,
         m.lines < MaxLines, Judged(m, l, t)
  PROVE  Judged(Parsed(Counted(m), l, kind), l, Heard(t, kind))
<1> DEFINE c == Counted(m)
           w == Parsed(c, l, kind)
           u == Heard(t, kind)
<1>1. c \in Metrics /\ c.success \in BOOLEAN /\ c.error \in BOOLEAN /\ kind \in LineKind
  BY CountedFields, EndedOutcome DEF Verdict, LineKind
<1>2. /\ c.success = m.success /\ c.error = m.error
      /\ c.texts = m.texts /\ c.end_time = m.end_time
  BY CountedFields
<1>3. /\ u.protocol = t.protocol /\ u.kinds = t.kinds \cup {kind}
      /\ u.first = IF t.first = "none" THEN kind ELSE t.first
  BY <1>1, HeardFields
<1>4. Now(c) # 0
  BY <1>1, RequestsAssumption DEF Now, Metrics
<1>5. Timed(c, l)
  BY CountedTimed DEF Judged
<1>6. \A s, e \in BOOLEAN :
        LET o == Outcome(c, s, e)
        IN  /\ Timed(o, l) /\ o.end_time # 0 /\ o.texts = m.texts
            /\ o.success = s /\ o.error = e
  <2> TAKE s, e \in BOOLEAN
  <2>1. Timed(Outcome(c, s, e), l)
    BY <1>1, <1>5, OutcomeTimed
  <2>2. /\ Outcome(c, s, e).end_time = Now(c) /\ Outcome(c, s, e).texts = c.texts
        /\ Outcome(c, s, e).success = s /\ Outcome(c, s, e).error = e
    BY <1>1, OutcomeFields
  <2> QED BY <1>2, <1>4, <2>1, <2>2
<1> HIDE DEF c, u
<1> DEFINE Becomes(success, error) ==
             /\ Timed(w, l) /\ w.texts = m.texts /\ w.end_time # 0
             /\ w.success = success /\ w.error = error
           Stays == /\ Timed(w, l) /\ w.texts = m.texts /\ w.end_time = m.end_time
                    /\ w.success = m.success /\ w.error = m.error
<1>7. ASSUME l = "anthropic"
      PROVE  IF kind = "finish" THEN Becomes(TRUE, m.error) ELSE Stays
  <2>1. w = IF kind = "finish" THEN Outcome(c, TRUE, c.error) ELSE c
    BY <1>1, <1>7, Anthropic
  <2> HIDE DEF w
  <2> QED BY <1>1, <1>2, <1>5, <1>6, <2>1
<1>8. ASSUME l = "openai_chat"
      PROVE  CASE kind = "done"   -> Becomes(m.success \/ ~m.error, m.error)
               [] kind = "failed" -> Becomes(m.success, TRUE)
               [] kind = "blank"  -> Becomes(m.success, FALSE)
               [] OTHER           -> Stays
  <2>1. w = CASE kind = "done"   -> Outcome(c, c.success \/ ~c.error, c.error)
              [] kind = "failed" -> Outcome(c, c.success, TRUE)
              [] kind = "blank"  -> Outcome(c, c.success, FALSE)
              [] OTHER           -> c
    BY <1>1, <1>8, Chat
  <2>2. (m.success \/ ~m.error) \in BOOLEAN
    OBVIOUS
  <2> HIDE DEF w
  <2> QED BY <1>1, <1>2, <1>5, <1>6, <2>1, <2>2 DEF Verdict
<1>9. ASSUME l = "openai_responses"
      PROVE  CASE kind \in {"done", "finish"}  -> Becomes(TRUE, m.error)
               [] kind \in {"failed", "blank"} -> Becomes(FALSE, TRUE)
               [] OTHER                        -> Stays
  <2>1. w = CASE kind \in {"done", "finish"}  -> Outcome(c, TRUE, c.error)
              [] kind \in {"failed", "blank"} -> Outcome(c, FALSE, TRUE)
              [] OTHER                        -> c
    BY <1>1, <1>9, Responses
  <2> HIDE DEF w
  <2> QED BY <1>1, <1>2, <1>5, <1>6, <2>1 DEF Verdict
<1> HIDE DEF w
<1>10. Timed(w, l)
  BY <1>7, <1>8, <1>9 DEF Protocol
<1>11. Earned(w, l, u)
  <2>1. CASE l = "anthropic"
    BY <1>3, <1>7, <2>1 DEF Judged, Earned, Protocol, Verdict
  <2>2. CASE l = "openai_chat"
    BY <1>3, <1>8, <2>2 DEF Judged, Earned, Protocol, Verdict
  <2>3. CASE l = "openai_responses"
    BY <1>3, <1>9, <2>3 DEF Judged, Earned, Protocol, Verdict
  <2> QED BY <2>1, <2>2, <2>3 DEF Protocol
<1>12. Explained(w, l, u)
  <2>1. CASE l = "anthropic"
    BY <1>3, <1>7, <2>1 DEF Judged, Explained, Protocol, Verdict
  <2>2. CASE l = "openai_chat"
    BY <1>3, <1>8, <2>2 DEF Judged, Explained, Protocol, Verdict
  <2>3. CASE l = "openai_responses"
    BY <1>3, <1>9, <2>3 DEF Judged, Explained, Protocol, Verdict
  <2> QED BY <2>1, <2>2, <2>3 DEF Protocol
<1> QED BY <1>10, <1>11, <1>12 DEF Judged, w, c, u

\* The end of the stream and a connection that breaks close the request.
LEMMA CloseJudged ==
  ASSUME NEW m \in Metrics, NEW l \in Protocol, NEW t \in Told, Judged(m, l, t)
  PROVE  /\ StreamEnded(m, l) \in Metrics /\ Judged(StreamEnded(m, l), "closed", t)
         /\ Failed(m) \in Metrics /\ Judged(Failed(m), "closed", t)
<1>1. m.success \in BOOLEAN /\ m.error \in BOOLEAN /\ "closed" \notin Protocol /\ l # "idle"
  BY EndedOutcome DEF Protocol
<1>2. ASSUME NEW s \in BOOLEAN, NEW e \in BOOLEAN
      PROVE  /\ Outcome(m, s, e) \in Metrics /\ Outcome(m, s, e).end_time # 0
             /\ Outcome(m, s, e).texts = m.texts
             /\ Outcome(m, s, e).success = s /\ Outcome(m, s, e).error = e
  <2>1. Now(m) # 0
    BY RequestsAssumption DEF Now, Metrics
  <2> QED BY <2>1, OutcomeFields
<1>3. \A s, e \in BOOLEAN : Timed(Outcome(m, s, e), "closed")
  BY OutcomeTimed DEF Judged
<1>4. Failed(m) \in Metrics /\ Judged(Failed(m), "closed", t)
  <2> DEFINE w == Outcome(m, m.success, TRUE)
  <2>1. Failed(m) = w
    BY EndedOutcome
  <2>2. /\ w \in Metrics /\ w.end_time # 0 /\ w.texts = m.texts
        /\ w.success = m.success /\ w.error = TRUE /\ Timed(w, "closed")
    BY <1>1, <1>2, <1>3
  <2> HIDE DEF w
  <2>3. Earned(w, "closed", t)
    BY <1>1, <2>2 DEF Judged, Earned, Protocol
  <2>4. Explained(w, "closed", t)
    BY <2>2 DEF Explained
  <2> QED BY <2>1, <2>2, <2>3, <2>4 DEF Judged
<1>5. CASE m.end_time # 0
  <2>1. StreamEnded(m, l) = m
    BY <1>5 DEF StreamEnded
  <2>2. Timed(m, "closed")
    BY <1>1 DEF Judged, Timed
  <2>3. Earned(m, "closed", t)
    BY <1>1 DEF Judged, Earned, Protocol
  <2>4. Explained(m, "closed", t)
    BY <1>5 DEF Judged, Explained
  <2> QED BY <1>4, <2>1, <2>2, <2>3, <2>4 DEF Judged
<1>6. CASE m.end_time = 0 /\ l = "openai_chat" /\ m.texts > 0
  <2> DEFINE w == Outcome(m, TRUE, m.error)
  <2>1. StreamEnded(m, l) = w
    BY <1>6, EndedOutcome DEF StreamEnded
  <2>2. /\ w \in Metrics /\ w.end_time # 0 /\ w.texts = m.texts
        /\ w.success = TRUE /\ w.error = m.error /\ Timed(w, "closed")
    BY <1>1, <1>2, <1>3
  <2> HIDE DEF w
  <2>3. Earned(w, "closed", t)
    BY <1>1, <1>6, <2>2 DEF Judged, Earned, Protocol
  <2>4. Explained(w, "closed", t)
    BY <2>2 DEF Explained
  <2> QED BY <1>4, <2>1, <2>2, <2>3, <2>4 DEF Judged
<1>7. CASE m.end_time = 0 /\ ~(l = "openai_chat" /\ m.texts > 0)
  <2>1. StreamEnded(m, l) = Failed(m)
    BY <1>7 DEF StreamEnded
  <2> QED BY <1>4, <2>1
<1> QED BY <1>5, <1>6, <1>7
---------------------------------------------------------------------------------
Sound ==
  /\ metrics \in [RequestId -> Metrics]
  /\ link \in [RequestId -> Protocol \cup {"idle", "closed"}]
  /\ told \in [RequestId -> Told]
  /\ \A r \in RequestId : Judged(metrics[r], link[r], told[r])

LEMMA SoundIsTyped == Sound => RequestsTypeOK
BY DEF Sound, RequestsTypeOK, Told

LEMMA InitSound == RequestsInit => Sound
<1> DEFINE m == [start_time |-> 0, first_token_time |-> 0, end_time |-> 0, texts |-> 0, last_text |-> 0,
                 output_tokens |-> 0, success |-> FALSE, error |-> FALSE, lines |-> 0]
           t == [protocol |-> "idle", kinds |-> {}, first |-> "none"]
<1>1. m \in Metrics /\ t \in Told
  BY RequestsAssumption DEF Metrics, Told
<1>2. Timed(m, "idle")
  BY DEF Timed, Protocol
<1>3. Earned(m, "idle", t) /\ Explained(m, "idle", t)
  BY DEF Earned, Explained, Protocol
<1> QED BY <1>1, <1>2, <1>3 DEF RequestsInit, Sound, Judged

\* One request changes, and stays sound.
LEMMA OneSound ==
  ASSUME Sound, NEW r \in RequestId, NEW m \in Metrics,
         NEW l \in Protocol \cup {"idle", "closed"}, NEW t \in Told, Judged(m, l, t),
         metrics' = [metrics EXCEPT ![r] = m], link' = [link EXCEPT ![r] = l],
         told' = [told EXCEPT ![r] = t]
  PROVE  Sound'
<1>1. /\ metrics' \in [RequestId -> Metrics] /\ told' \in [RequestId -> Told]
      /\ link' \in [RequestId -> Protocol \cup {"idle", "closed"}]
  BY DEF Sound
<1>2. \A q \in RequestId : Judged(metrics'[q], link'[q], told'[q])
  BY DEF Sound
<1> QED BY <1>1, <1>2 DEF Sound

LEMMA StepSound ==
  ASSUME Sound, [RequestsNext]_requestVars
  PROVE  Sound'
<1>1. ASSUME NEW r \in RequestId, Refuse(r)
      PROVE  Sound'
  <2>1. metrics[r] \in Metrics /\ told[r] \in Told /\ Judged(metrics[r], "idle", told[r]) /\ link[r] = "idle"
    BY <1>1 DEF Sound, Refuse
  <2>2. Failed(metrics[r]) = Outcome(metrics[r], metrics[r].success, TRUE)
    BY <2>1, EndedOutcome
  <2> DEFINE w == Outcome(metrics[r], metrics[r].success, TRUE)
  <2>9. metrics[r].success \in BOOLEAN
    BY <2>1, EndedOutcome
  <2>3. /\ w \in Metrics /\ w.success = metrics[r].success /\ w.error = TRUE
        /\ w.first_token_time = metrics[r].first_token_time /\ w.texts = metrics[r].texts
        /\ w.lines = metrics[r].lines /\ w.last_text = metrics[r].last_text
    BY <2>1, <2>9, OutcomeFields
  <2> HIDE DEF w
  <2>4. ~w.success /\ w.texts = 0
    BY <2>1, <2>3 DEF Judged, Earned
  <2>5. Timed(w, "closed")
    BY <2>1, <2>3, <2>4 DEF Judged, Timed, Protocol
  <2>6. Earned(w, "closed", told[r])
    BY <2>1, <2>4 DEF Judged, Earned, Protocol
  <2>7. Judged(w, "closed", told[r])
    BY <2>3, <2>5, <2>6 DEF Judged, Explained
  <2>8. /\ metrics' = [metrics EXCEPT ![r] = w] /\ link' = [link EXCEPT ![r] = "closed"]
        /\ told' = [told EXCEPT ![r] = told[r]]
    BY <1>1, <2>2 DEF Refuse, w, Sound
  <2> QED BY <2>1, <2>3, <2>7, <2>8, OneSound
<1>2. ASSUME NEW r \in RequestId, NEW model \in Model, NEW provider \in Provider,
             Connect(r, model, provider)
      PROVE  Sound'
  <2> DEFINE l == detect_protocol(model, provider)
             w == [metrics[r] EXCEPT !.start_time = 1]
             t == [told[r] EXCEPT !.protocol = l]
  <2>1. metrics[r] \in Metrics /\ told[r] \in Told /\ Judged(metrics[r], "idle", told[r]) /\ link[r] = "idle"
    BY <1>2 DEF Sound, Connect
  <2>2. l \in Protocol
    BY DEF detect_protocol, Protocol, Provider, Model
  <2>3. /\ metrics' = [metrics EXCEPT ![r] = w] /\ link' = [link EXCEPT ![r] = l]
        /\ told' = [told EXCEPT ![r] = t]
    BY <1>2 DEF Connect, Sound
  <2> HIDE DEF l
  <2>4. t \in Told /\ t.protocol = l /\ t.kinds = told[r].kinds /\ t.first = told[r].first
    BY <2>1, <2>2 DEF Told
  <2>5. /\ w \in Metrics /\ w.start_time = 1 /\ w.success = metrics[r].success
        /\ w.first_token_time = metrics[r].first_token_time /\ w.texts = metrics[r].texts
        /\ w.lines = metrics[r].lines /\ w.last_text = metrics[r].last_text
        /\ w.end_time = metrics[r].end_time
    BY <2>1 DEF Metrics
  <2> HIDE DEF w, t
  <2>6. ~w.success /\ w.texts = 0 /\ w.end_time = 0
    BY <2>1, <2>5 DEF Judged, Earned
  <2>7. Timed(w, l)
    BY <2>1, <2>5, <2>6 DEF Judged, Timed
  <2>8. Earned(w, l, t) /\ Explained(w, l, t)
    BY <2>1, <2>2, <2>4, <2>6 DEF Judged, Earned, Explained, Protocol
  <2> QED BY <2>1, <2>2, <2>3, <2>4, <2>5, <2>7, <2>8, OneSound DEF Judged
<1>3. ASSUME NEW r \in RequestId, NEW kind \in LineKind, NEW n \in Nat, ReadLine(r, kind, n)
      PROVE  Sound'
  <2> DEFINE m == metrics[r]
             l == link[r]
             t == told[r]
             w == CASE kind = "text"  -> Text(Counted(m))
                    [] kind = "usage" -> Usage(Counted(m), n)
                    [] OTHER          -> Parsed(Counted(m), l, kind)
  <2>1. m \in Metrics /\ l \in Protocol /\ t \in Told /\ Judged(m, l, t) /\ m.lines < MaxLines
    BY <1>3 DEF Sound, ReadLine, Open
  <2>2. /\ metrics' = [metrics EXCEPT ![r] = w] /\ link' = [link EXCEPT ![r] = l]
        /\ told' = [told EXCEPT ![r] = Heard(t, kind)]
    BY <1>3 DEF ReadLine, Sound, Counted, Heard
  <2>3. Heard(t, kind) \in Told
    BY <2>1, HeardFields
  <2> HIDE DEF m, l, t
  <2>4. w \in Metrics /\ Judged(w, l, Heard(t, kind))
    <3>1. CASE kind = "text"
      BY <2>1, <3>1, TextJudged, CountedFields, TextFields
    <3>2. CASE kind = "usage"
      BY <2>1, <3>2, UsageJudged, CountedFields, UsageFields
    <3>3. CASE kind \in Verdict
      <4>1. w = Parsed(Counted(m), l, kind)
        BY <3>3 DEF Verdict
      <4>2. Parsed(Counted(m), l, kind) \in Metrics
        <5>1. Counted(m) \in Metrics
          BY <2>1, CountedFields
        <5>2. /\ Counted(m).success \in BOOLEAN /\ Counted(m).error \in BOOLEAN
              /\ (Counted(m).success \/ ~Counted(m).error) \in BOOLEAN
          BY <5>1, EndedOutcome
        <5>3. \A s, e \in BOOLEAN : Outcome(Counted(m), s, e) \in Metrics
          BY <5>1, OutcomeFields
        <5>4. kind \in LineKind
          BY <3>3 DEF LineKind, Verdict
        <5>5. CASE l = "anthropic"
          BY <5>1, <5>2, <5>3, <5>4, <5>5, Anthropic
        <5>6. CASE l = "openai_chat"
          <6> DEFINE c == Counted(m)
          <6>1. \/ Parsed(c, l, kind) = c
                \/ Parsed(c, l, kind) = Outcome(c, c.success \/ ~c.error, c.error)
                \/ Parsed(c, l, kind) = Outcome(c, c.success, TRUE)
                \/ Parsed(c, l, kind) = Outcome(c, c.success, FALSE)
            BY <5>1, <5>4, <5>6, Chat
          <6> QED BY <5>1, <5>2, <5>3, <6>1
        <5>7. CASE l = "openai_responses"
          <6> DEFINE c == Counted(m)
          <6>1. \/ Parsed(c, l, kind) = c
                \/ Parsed(c, l, kind) = Outcome(c, TRUE, c.error)
                \/ Parsed(c, l, kind) = Outcome(c, FALSE, TRUE)
            BY <5>1, <5>4, <5>7, Responses
          <6> QED BY <5>1, <5>2, <5>3, <6>1
        <5> QED BY <2>1, <5>5, <5>6, <5>7 DEF Protocol
      <4> QED BY <2>1, <3>3, <4>1, <4>2, ParsedJudged
    <3> QED BY <3>1, <3>2, <3>3 DEF LineKind, Verdict
  <2> HIDE DEF w
  <2> QED BY <2>1, <2>2, <2>3, <2>4, OneSound
<1>4. ASSUME NEW r \in RequestId, EndOfStream(r) \/ Interrupt(r)
      PROVE  Sound'
  <2>1. metrics[r] \in Metrics /\ link[r] \in Protocol /\ told[r] \in Told
        /\ Judged(metrics[r], link[r], told[r])
    BY <1>4 DEF Sound, EndOfStream, Interrupt, Open
  <2>2. /\ StreamEnded(metrics[r], link[r]) \in Metrics
        /\ Judged(StreamEnded(metrics[r], link[r]), "closed", told[r])
        /\ Failed(metrics[r]) \in Metrics /\ Judged(Failed(metrics[r]), "closed", told[r])
    BY <2>1, CloseJudged
  <2>3. /\ \/ metrics' = [metrics EXCEPT ![r] = StreamEnded(metrics[r], link[r])]
           \/ metrics' = [metrics EXCEPT ![r] = Failed(metrics[r])]
        /\ link' = [link EXCEPT ![r] = "closed"] /\ told' = [told EXCEPT ![r] = told[r]]
    BY <1>4 DEF EndOfStream, Interrupt, Sound
  <2> QED BY <2>1, <2>2, <2>3, OneSound
<1>5. CASE UNCHANGED requestVars
  BY <1>5 DEF requestVars, Sound
<1>6. "usage" \in LineKind /\ \A n \in 1..2 : n \in Nat
  BY DEF LineKind
<1> QED BY <1>1, <1>2, <1>3, <1>4, <1>5, <1>6 DEF RequestsNext

\* Types, times, outcomes and reasons together, for streams of any length.
LEMMA AlwaysSound == RequestsSpec => []Sound
<1>1. RequestsInit => Sound
  BY InitSound
<1>2. Sound /\ [RequestsNext]_requestVars => Sound'
  BY StepSound
<1> QED BY <1>1, <1>2, PTL DEF RequestsSpec

\* The metrics of every request keep their types.
THEOREM RequestsTypeCorrect == RequestsSpec => []RequestsTypeOK
<1>1. Sound => RequestsTypeOK
  BY SoundIsTyped
<1> QED BY <1>1, AlwaysSound, PTL
---------------------------------------------------------------------------------
\* A request succeeds only if the upstream said that it was finished, or sent a chat that
\* was cut off (SuccessIsEarned).
THEOREM SuccessIsAlwaysEarned == RequestsSpec => []SuccessIsEarned
<1>1. Sound => SuccessIsEarned
  <2> SUFFICES ASSUME Sound, NEW r \in RequestId, metrics[r].success
               PROVE  CASE told[r].protocol = "anthropic"        -> "finish" \in told[r].kinds
                        [] told[r].protocol = "openai_chat"      ->
                             /\ told[r].kinds \cap {"text", "done"} # {}
                             /\ told[r].first = "failed" => "blank" \in told[r].kinds
                        [] told[r].protocol = "openai_responses" ->
                             told[r].kinds \cap {"finish", "done"} # {}
    BY DEF SuccessIsEarned
  <2>1. Earned(metrics[r], link[r], told[r]) /\ told[r].protocol \in Protocol \cup {"idle"}
    BY DEF Sound, Judged, Told
  <2>2. told[r].protocol \in Protocol
    BY <2>1 DEF Earned
  <2>3. CASE told[r].protocol = "anthropic"
    BY <2>1, <2>3 DEF Earned
  <2>4. CASE told[r].protocol = "openai_chat"
    BY <2>1, <2>4 DEF Earned
  <2>5. CASE told[r].protocol = "openai_responses"
    BY <2>1, <2>5 DEF Earned
  <2> QED BY <2>2, <2>3, <2>4, <2>5 DEF Protocol
<1> QED BY <1>1, AlwaysSound, PTL

\* The samples of a report are times: a duration of a request that succeeded is positive,
\* a time per token is not negative (SamplesAreTimes).
THEOREM SamplesAreAlwaysTimes == RequestsSpec => []SamplesAreTimes
<1>1. Sound => SamplesAreTimes
  <2> SUFFICES ASSUME Sound, NEW r \in RequestId, metrics[r].success
               PROVE  /\ \E t \in e2e(metrics[r]) : t > 0
                      /\ \A sample \in tpot(metrics[r]) : sample[1] >= 0 /\ sample[2] > 0
    BY DEF SamplesAreTimes, aggregate_metrics
  <2> DEFINE m == metrics[r]
  <2>1. m \in Metrics /\ Timed(m, link[r])
    BY DEF Sound, Judged
  <2>2. /\ m.start_time = 1 /\ m.end_time \in Nat /\ m.end_time >= 2
        /\ m.texts \in Nat /\ m.first_token_time \in Nat /\ m.last_text \in Nat
        /\ m.output_tokens \in Nat
        /\ m.texts >= 1 => m.first_token_time <= m.last_text
    BY <2>1 DEF Timed, Metrics
  <2> HIDE DEF m
  <2>3. \E t \in e2e(m) : t > 0
    BY <2>2 DEF e2e
  <2>4. ASSUME NEW sample \in tpot(m)
        PROVE  sample[1] >= 0 /\ sample[2] > 0
    <3>1. \A t \in GenerationTimes(m) : t \in Int /\ t > 0
      BY <2>2 DEF GenerationTimes, e2e, ttft
    <3>2. CASE m.output_tokens > 1 /\ GenerationTimes(m) # {}
      <4>1. PICK t \in GenerationTimes(m) : sample = <<t, m.output_tokens - 1>>
        BY <2>4, <3>2 DEF tpot
      <4> QED BY <2>2, <3>1, <3>2, <4>1
    <3>3. CASE ~(m.output_tokens > 1 /\ GenerationTimes(m) # {})
      <4>1. m.texts >= 2 /\ sample = <<m.last_text - m.first_token_time, m.texts - 1>>
        BY <2>4, <3>3 DEF tpot
      <4> QED BY <2>2, <4>1
    <3> QED BY <3>2, <3>3
  <2> QED BY <2>3, <2>4 DEF m
<1> QED BY <1>1, AlwaysSound, PTL

\* A report lists the error of every request that failed, unless the upstream reported
\* an error and did not say which (FailuresExplained).
THEOREM FailuresAlwaysExplained == RequestsSpec => []FailuresExplained
<1>1. Sound => FailuresExplained
  <2> SUFFICES ASSUME Sound, Closed, \A r \in RequestId : "blank" \notin told[r].kinds
               PROVE  aggregate_metrics.failed_count <= Cardinality(aggregate_metrics.error_details)
    BY DEF FailuresExplained
  <2> DEFINE good == {r \in RequestId : metrics[r].success}
             bad == {r \in RequestId : metrics[r].error}
  <2>1. RequestId \ good \subseteq bad
    BY DEF Sound, Judged, Explained, Closed
  <2>2. /\ IsFiniteSet(RequestId) /\ IsFiniteSet(bad) /\ IsFiniteSet(good)
        /\ good \subseteq RequestId
    BY RequestsAssumption, FS_Subset
  <2>3. aggregate_metrics.failed_count = Cardinality(RequestId) - Cardinality(good)
        /\ aggregate_metrics.error_details = bad
    BY DEF aggregate_metrics
  <2> HIDE DEF good, bad
  <2>4. /\ Cardinality(RequestId \ good) = Cardinality(RequestId) - Cardinality(RequestId \cap good)
        /\ RequestId \cap good = good
    BY <2>2, FS_Difference
  <2>5. Cardinality(RequestId \ good) <= Cardinality(bad)
    BY <2>1, <2>2, FS_Subset
  <2> QED BY <2>3, <2>4, <2>5
<1> QED BY <1>1, AlwaysSound, PTL
---------------------------------------------------------------------------------
(***************************************************************************)
(* Diagnostics: whom a report accuses, for any number of diagnoses that    *)
(* use an upstream at a time.  Left, Said and Concluded are the inductive  *)
(* invariant: what the probes of a diagnosis left in the upstream's cache, *)
(* what their answers said and what has been concluded from them.          *)
(***************************************************************************)
\* The tag of a run is not the prefix that a proxy adds.
LEMMA TagIsNotAdded ==
  ASSUME NEW owner, NEW kind
  PROVE  <<owner, kind>> # <<Added>>
<1>1. Len(<<owner, kind>>) = 2 /\ Len(<<Added>>) = 1
  OBVIOUS
<1>. QED
  BY <1>1

LEMMA TokensCounted ==
  ASSUME NEW S, IsFiniteSet(S)
  PROVE  /\ TokensOf(S) \in Nat
         /\ <<Added>> \in S => TokensOf(S) > 0
         /\ S = {} => TokensOf(S) = 0
         /\ \A p \in S : p # <<Added>> /\ S = {p} => TokensOf(S) = 10
<1> DEFINE own == {p \in S : p # <<Added>>}
           count == Cardinality(own)
           added == IF <<Added>> \in S THEN Tokens(<<Added>>) ELSE 0
<1>1. count \in Nat
  BY FS_Subset, FS_CardinalityType
<1>2. /\ added \in Nat
      /\ <<Added>> \in S => added > 0
      /\ <<Added>> \notin S => added = 0
  BY DEF Tokens
<1>3. S = {} => count = 0
  BY FS_EmptySet
<1>4. \A p \in S : p # <<Added>> /\ S = {p} => count = 1
  BY FS_Singleton
<1>5. TokensOf(S) = 10 * count + added
  BY DEF TokensOf, Expected
<1> HIDE DEF own, count, added
<1>6. TokensOf(S) \in Nat /\ (<<Added>> \in S => TokensOf(S) > 0)
  BY <1>1, <1>2, <1>5
<1>7. S = {} => TokensOf(S) = 0
  BY <1>1, <1>2, <1>3, <1>5
<1>8. ASSUME NEW p \in S, p # <<Added>>, S = {p} PROVE TokensOf(S) = 10
  BY <1>2, <1>4, <1>5, <1>8
<1>. QED
  BY <1>6, <1>7, <1>8

\* What each kind of upstream reports about a prompt.
LEMMA UsageReported ==
  ASSUME NEW d \in Diagnosis, NEW i \in 1..6,
         NEW prompt, prompt = Prompt(d, i), NEW usage, usage = UsageOf(prompt)
  PROVE  /\ usage.cache_read_tokens \in Nat /\ usage.cache_creation_tokens \in Nat
         /\ usage.input_tokens \in {0, 2, 10} /\ usage.fields \in BOOLEAN
         /\ upstream = "native" =>
              /\ usage.input_tokens = 0
              /\ prompt \in cached => usage.cache_read_tokens = 10 /\ usage.cache_creation_tokens = 0
              /\ prompt \notin cached => usage.cache_read_tokens = 0 /\ usage.cache_creation_tokens = 10
         /\ upstream \in {"uncached", "silent", "truncating"} =>
              usage.cache_read_tokens = 0 /\ usage.cache_creation_tokens = 0
         /\ upstream \in {"uncached", "silent"} => usage.input_tokens = 10
         /\ upstream = "truncating" => usage.input_tokens = 2
         /\ upstream \in {"hinting", "stuffing"} /\ <<Added>> \in cached => usage.cache_read_tokens > 0
<1>1. prompt # <<Added>>
  BY TagIsNotAdded DEF Prompt
<1> DEFINE prefixes == Prefixes(prompt)
           hit == prefixes \cap cached
           missed == prefixes \ cached
<1>2. /\ upstream = "native" => prefixes = {prompt}
      /\ upstream \in {"uncached", "silent", "truncating"} => prefixes = {}
      /\ upstream \in {"hinting", "stuffing"} => <<Added>> \in prefixes
      /\ prefixes \subseteq {prompt, <<Added>>}
  BY DEF Prefixes
<1>3. IsFiniteSet({prompt, <<Added>>})
  <2>1. IsFiniteSet({prompt})
    BY FS_Singleton
  <2>2. IsFiniteSet({prompt} \cup {<<Added>>})
    BY <2>1, FS_AddElement
  <2>3. {prompt} \cup {<<Added>>} = {prompt, <<Added>>}
    OBVIOUS
  <2>. QED
    BY <2>2, <2>3
<1>4. hit \subseteq {prompt, <<Added>>} /\ missed \subseteq {prompt, <<Added>>}
  BY <1>2
<1>5. IsFiniteSet(hit) /\ IsFiniteSet(missed)
  BY <1>3, <1>4, FS_Subset
<1>6. /\ usage.cache_read_tokens = TokensOf(hit) /\ usage.cache_creation_tokens = TokensOf(missed)
      /\ usage.input_tokens = CASE upstream \in {"uncached", "silent"} -> 10
                                [] upstream = "truncating"             -> 2
                                [] OTHER                               -> 0
      /\ usage.fields = (upstream # "silent")
  BY DEF UsageOf, Expected
<1>7. /\ upstream = "native" /\ prompt \in cached => hit = {prompt} /\ missed = {}
      /\ upstream = "native" /\ prompt \notin cached => hit = {} /\ missed = {prompt}
      /\ upstream \in {"uncached", "silent", "truncating"} => hit = {} /\ missed = {}
      /\ upstream \in {"hinting", "stuffing"} /\ <<Added>> \in cached => <<Added>> \in hit
  BY <1>2
<1> HIDE DEF prefixes, hit, missed
<1>8. usage.cache_read_tokens \in Nat /\ usage.cache_creation_tokens \in Nat
  BY <1>5, <1>6, TokensCounted
<1>9. usage.input_tokens \in {0, 2, 10} /\ usage.fields \in BOOLEAN
  BY <1>6
<1>10. /\ upstream = "native" => usage.input_tokens = 0
       /\ upstream \in {"uncached", "silent"} => usage.input_tokens = 10
       /\ upstream = "truncating" => usage.input_tokens = 2
  BY <1>6
<1>11. /\ hit = {} => usage.cache_read_tokens = 0
       /\ missed = {} => usage.cache_creation_tokens = 0
       /\ hit = {prompt} => usage.cache_read_tokens = 10
       /\ missed = {prompt} => usage.cache_creation_tokens = 10
       /\ <<Added>> \in hit => usage.cache_read_tokens > 0
  BY <1>1, <1>5, <1>6, TokensCounted
<1>. QED
  BY <1>7, <1>8, <1>9, <1>10, <1>11

\* What run_cache_probes says is a status, and never that the probes go on.
LEMMA VerdictIsStatus ==
  ASSUME NEW probes
  PROVE  run_cache_probes(probes) \in Status \ {"pending"}
<1>1. UsageStatus(probes) \in {"inconclusive", "no_cache", "no_usage_fields", "warning", "supported", "partial"}
  BY DEF UsageStatus
<1>2. build_cache_report(probes).prompt_cache \in
        {"inconclusive", "no_cache", "no_usage_fields", "warning", "supported", "partial"}
  BY <1>1 DEF build_cache_report
<1> DEFINE status == compute_overall_status(build_cache_report(probes))
<1>3. status \in {"inconclusive", "no_cache", "no_usage_fields", "warning", "passed"}
  BY <1>2 DEF compute_overall_status
<1> HIDE DEF status
<1>4. run_cache_probes(probes) = IF status \in {"no_usage_fields", "no_cache"} THEN "warning" ELSE status
  BY DEF run_cache_probes, status
<1>. QED
  BY <1>3, <1>4 DEF Status

\* A sign of a proxy makes the verdict a warning, ...
LEMMA SignsWarn ==
  ASSUME NEW probes, ProxyFlags(probes) # {}
  PROVE  run_cache_probes(probes) = "warning"
<1>1. build_cache_report(probes).prompt_cache = "warning"
  BY DEF build_cache_report
<1>2. compute_overall_status(build_cache_report(probes)) = "warning"
  BY <1>1 DEF compute_overall_status
<1>. QED
  BY <1>2 DEF run_cache_probes

\* ... and with a warning a diagnosis does not pass.
LEMMA WarningDoesNotPass ==
  ASSUME NEW statuses, "warning" \in statuses
  PROVE  OverallStatus(statuses) # "passed"
BY DEF OverallStatus
-------------------------------------------------------------------------------
\* What the probes of a diagnosis have left in the cache of the upstream, ...
Left(d) ==
  /\ upstream = "unknown" => ~Started(d) /\ cached = {}
  /\ upstream = "native" =>
       /\ ~Started(d) => <<d, "long">> \notin cached /\ <<d, "breaker">> \notin cached
       /\ Started(d) /\ Len(diagnosis[d].probes) < 1 => <<d, "long">> \notin cached
       /\ Started(d) /\ Len(diagnosis[d].probes) < 5 => <<d, "breaker">> \notin cached
       /\ evicted = 0 /\ Started(d) /\ Len(diagnosis[d].probes) >= 1 /\ Passed(diagnosis[d].probes[1]) =>
            <<d, "long">> \in cached
  /\ upstream \in {"hinting", "stuffing"} =>
       (evicted = 0 /\ Started(d) /\ Len(diagnosis[d].probes) >= 1 /\ Passed(diagnosis[d].probes[1]) =>
          <<Added>> \in cached)

\* ... what the answers said, ...
Said(d) ==
  Started(d) =>
    LET probes == diagnosis[d].probes IN
    /\ upstream = "native" =>
         /\ \A i \in 1..Len(probes) : probes[i].input_tokens = 0
         /\ Len(probes) >= 1 => /\ probes[1].cache_read_tokens = 0
                                /\ probes[1].cache_creation_tokens \in {0, 10}
                                /\ probes[1].cache_creation_tokens = 10 => Passed(probes[1])
         /\ Len(probes) >= 5 => probes[5].cache_read_tokens = 0
         /\ evicted = 0 => \A i \in Warm \cap 1..Len(probes) :
              Passed(probes[1]) /\ Passed(probes[i]) => probes[i].cache_read_tokens = 10
    /\ upstream \in {"uncached", "silent"} =>
         \A i \in 1..Len(probes) : /\ probes[i].cache_read_tokens = 0
                                   /\ probes[i].cache_creation_tokens = 0
                                   /\ probes[i].input_tokens \in {0, 10}
    /\ upstream \in {"hinting", "stuffing"} /\ evicted = 0 =>
         (Len(probes) >= 5 /\ Passed(probes[1]) /\ Passed(probes[5]) => probes[5].cache_read_tokens > 0)
    /\ upstream = "truncating" =>
         (Len(probes) >= 1 /\ Passed(probes[1]) =>
            /\ probes[1].cache_read_tokens = 0 /\ probes[1].cache_creation_tokens = 0
            /\ probes[1].input_tokens = 2)

\* ... and what has been concluded from them.
Concluded(d) ==
  Started(d) =>
    LET probes == diagnosis[d].probes
        category == diagnosis[d].category
    IN
    /\ Pending(d, "cache") => Len(probes) < 6 /\ (Len(probes) >= 1 => Passed(probes[1]))
    /\ Len(probes) = 6 => "cache" \in DOMAIN category /\ category["cache"] = run_cache_probes(probes)
    /\ diagnosis[d].overall_status = "passed" =>
         \A c \in DOMAIN category : category[c] \notin {"pending", "warning"}

Diagnosed == \A d \in Diagnosis : Left(d) /\ Said(d) /\ Concluded(d)

\* An honest upstream shows no sign of a proxy and nothing to warn of, ...
LEMMA HonestShowsNothing ==
  ASSUME DiagnosticsTypeOK, NEW d \in Diagnosis, Said(d), Probed(d), upstream \in Honest
  PROVE  LET report == build_cache_report(diagnosis[d].probes)
         IN ~report.proxy_cache /\ report.prompt_cache # "warning"
<1>1. PICK probes : probes = diagnosis[d].probes
  OBVIOUS
<1>2. probes \in Seq(Probe) /\ Len(probes) = 6 /\ evicted = 0 /\ Started(d)
  BY <1>1 DEF DiagnosticsTypeOK, Probed, Started, Running
<1>3. /\ probes[1].cache_read_tokens = 0 /\ probes[5].cache_read_tokens = 0
      /\ probes[1].cache_creation_tokens \in {0, 10} /\ probes[1].input_tokens \in {0, 10}
      /\ probes[1].cache_creation_tokens = 0 \/ probes[1].input_tokens = 0
      /\ probes[1].cache_creation_tokens = 10 =>
           \A i \in Warm : Passed(probes[i]) => probes[i].cache_read_tokens = 10
  <2>1. CASE upstream = "native"
    BY <1>1, <1>2, <2>1 DEF Said, Warm
  <2>2. CASE upstream \in {"uncached", "silent"}
    BY <1>1, <1>2, <2>2 DEF Said, Warm
  <2>. QED
    BY <2>1, <2>2 DEF Honest
<1>4. ~BreakerAnomaly(probes) /\ ~_is_cache_hit(probes[1])
  BY <1>3 DEF BreakerAnomaly, _is_cache_hit, Breaker
<1>5. ProxyFlags(probes) = {}
  BY <1>3, <1>4 DEF ProxyFlags, Cold, Expected
<1>6. UsageStatus(probes) # "warning"
  <2>1. probes[1].cache_creation_tokens = 10 /\ WarmPassed(probes) # {} => WarmHits(probes) # {}
    BY <1>3 DEF WarmPassed, WarmHits, _is_cache_hit
  <2>. QED
    BY <1>3, <1>4, <2>1 DEF UsageStatus, Cold
<1>. QED
  BY <1>1, <1>5, <1>6 DEF build_cache_report

\* ... and a proxy that changes prompts shows one if the probes were answered.
LEMMA InterferingShows ==
  ASSUME DiagnosticsTypeOK, NEW d \in Diagnosis, Said(d), Probed(d),
         upstream \in Interfering, Failures(d) = {}
  PROVE  ProxyFlags(diagnosis[d].probes) # {}
<1>1. PICK probes : probes = diagnosis[d].probes
  OBVIOUS
<1>2. probes \in Seq(Probe) /\ Len(probes) = 6 /\ evicted = 0 /\ Started(d)
  BY <1>1 DEF DiagnosticsTypeOK, Probed, Started, Running
<1>3. \A i \in 1..6 : Passed(probes[i])
  BY <1>1, <1>2 DEF Failures
<1>4. CASE upstream \in {"hinting", "stuffing"}
  <2>1. probes[5].cache_read_tokens > 0
    BY <1>1, <1>2, <1>3, <1>4 DEF Said
  <2>2. BreakerAnomaly(probes)
    BY <1>3, <2>1 DEF BreakerAnomaly, _is_cache_hit, Breaker
  <2>. QED
    BY <1>1, <2>2 DEF ProxyFlags
<1>5. CASE upstream = "truncating"
  <2>1. /\ probes[1].cache_read_tokens = 0 /\ probes[1].cache_creation_tokens = 0
        /\ probes[1].input_tokens = 2
    BY <1>1, <1>2, <1>3, <1>5 DEF Said
  <2>. QED
    BY <1>1, <2>1 DEF ProxyFlags, Cold, Expected
<1>. QED
  BY <1>4, <1>5 DEF Interfering

LEMMA DiagnosedSuffices ==
  ASSUME DiagnosticsTypeOK, Diagnosed
  PROVE  HonestNotAccused /\ InterferenceSeen
<1>1. HonestNotAccused
  BY HonestShowsNothing DEF Diagnosed, HonestNotAccused
<1>2. ASSUME NEW d \in Diagnosis, Probed(d), upstream \in Interfering, Failures(d) = {}
      PROVE  diagnosis[d].overall_status # "passed"
  <2>1. run_cache_probes(diagnosis[d].probes) = "warning"
    BY <1>2, InterferingShows, SignsWarn DEF Diagnosed
  <2>. QED
    BY <1>2, <2>1 DEF Diagnosed, Concluded, Probed
<1>. QED
  BY <1>1, <1>2 DEF InterferenceSeen
-------------------------------------------------------------------------------
LEMMA FaultsLeft ==
  ASSUME DiagnosticsTypeOK, Faults < MaxFaults
  PROVE  evicted + 1 \in 0..MaxFaults
<1> DEFINE failed == UNION {{d} \X Failures(d) : d \in {e \in Diagnosis : Started(e)}}
           count == Cardinality(failed)
<1>1. ASSUME NEW d \in Diagnosis, Started(d) PROVE {d} \X Failures(d) \subseteq Diagnosis \X (1..6)
  <2>1. diagnosis[d].probes \in Seq(Probe) /\ Len(diagnosis[d].probes) <= 6
    BY <1>1 DEF DiagnosticsTypeOK, Started, Running
  <2>2. Len(diagnosis[d].probes) \in Nat /\ DOMAIN diagnosis[d].probes = 1..Len(diagnosis[d].probes)
    BY <2>1
  <2>3. 1..Len(diagnosis[d].probes) \subseteq 1..6
    BY <2>1, <2>2
  <2>4. Failures(d) \subseteq 1..6
    BY <2>2, <2>3 DEF Failures
  <2>. QED
    BY <2>4
<1>2. failed \subseteq Diagnosis \X (1..6)
  BY <1>1
<1>3. IsFiniteSet(1..6)
  <2>1. PICK first \in Int, last \in Int : first = 1 /\ last = 6
    OBVIOUS
  <2>2. IsFiniteSet(first..last)
    BY FS_Interval
  <2>. QED
    BY <2>1, <2>2
<1>4. IsFiniteSet(Diagnosis \X (1..6))
  BY <1>3, DiagnosticsAssumption, FS_Product
<1>5. count \in Nat
  BY <1>2, <1>4, FS_Subset, FS_CardinalityType
<1>6. Faults = evicted + count
  BY DEF Faults
<1>7. MaxFaults \in Nat /\ evicted \in 0..MaxFaults
  BY DiagnosticsAssumption DEF DiagnosticsTypeOK
<1> HIDE DEF count
<1>. QED
  BY <1>5, <1>6, <1>7

\* What the next probe of a diagnosis changes.
LEMMA ProbeAdds ==
  ASSUME DiagnosticsTypeOK, NEW d \in Diagnosis, Pending(d, "cache"), Len(diagnosis[d].probes) < 6,
         NEW reached \in BOOLEAN, NEW answered \in BOOLEAN,
         NEW latency \in {"sub_100ms", "sub_300ms", "slow"},
         _run_single_probe(d, reached, answered, latency),
         NEW i, i = Len(diagnosis[d].probes) + 1,
         NEW result, result = IF answered THEN Result("passed", UsageOf(Prompt(d, i)), latency)
                              ELSE Result("failed", NoUsage, "slow")
  PROVE  /\ i \in 1..6 /\ result \in Probe
         /\ diagnosis' \in [Diagnosis -> Running \cup {Null}]
         /\ \A e \in Diagnosis \ {d} : diagnosis'[e] = diagnosis[e]
         /\ diagnosis'[d] \in Running /\ diagnosis'[d] # Null
         /\ diagnosis'[d].probes = Append(diagnosis[d].probes, result)
         /\ diagnosis'[d].overall_status = diagnosis[d].overall_status
         /\ DOMAIN diagnosis'[d].category = DOMAIN diagnosis[d].category
         /\ "cache" \in DOMAIN diagnosis[d].category
         /\ diagnosis'[d].category["cache"] =
              IF ~Passed(diagnosis'[d].probes[1]) THEN "error"
              ELSE IF i = 6 THEN run_cache_probes(diagnosis'[d].probes) ELSE "pending"
         /\ \A c \in DOMAIN diagnosis[d].category \ {"cache"} :
              diagnosis'[d].category[c] = diagnosis[d].category[c]
<1>1. diagnosis[d] \in Running /\ Started(d) /\ "cache" \in DOMAIN diagnosis[d].category
  BY DEF DiagnosticsTypeOK, Pending, Started
<1>2. PICK old : old = diagnosis[d].probes
  OBVIOUS
<1>3. old \in Seq(Probe) /\ Len(old) \in Nat /\ i = Len(old) + 1 /\ i \in 1..6
  BY <1>1, <1>2 DEF Running
<1>4. result \in Probe
  <2>1. CASE answered
    <3>1. PICK prompt, usage : prompt = Prompt(d, i) /\ usage = UsageOf(prompt)
      OBVIOUS
    <3>2. /\ usage.cache_read_tokens \in Nat /\ usage.cache_creation_tokens \in Nat
          /\ usage.input_tokens \in {0, 2, 10} /\ usage.fields \in BOOLEAN
      BY <1>3, <3>1, UsageReported
    <3>3. Result("passed", usage, latency) \in Probe
      BY <3>2 DEF Result, Probe
    <3>. QED
      BY <2>1, <3>1, <3>3
  <2>2. CASE ~answered
    BY <2>2 DEF Result, NoUsage, Probe
  <2>. QED
    BY <2>1, <2>2
<1>5. PICK probes : probes = Append(old, result)
  OBVIOUS
<1>6. probes \in Seq(Probe)
  BY <1>3, <1>4, <1>5
<1>7. PICK status : status = IF ~Passed(probes[1]) THEN "error"
                             ELSE IF i = 6 THEN run_cache_probes(probes) ELSE "pending"
  OBVIOUS
<1>8. status \in Status
  BY <1>7, VerdictIsStatus DEF Status
<1>9. diagnosis' = [diagnosis EXCEPT ![d].probes = probes, ![d].category["cache"] = status]
  BY <1>2, <1>5, <1>7 DEF _run_single_probe, Cold, Repeat
<1>10. PICK selection \in SUBSET Category : diagnosis[d].category \in [selection -> Status]
  BY <1>1 DEF Running
<1>11. PICK category : category = [diagnosis[d].category EXCEPT !["cache"] = status]
  OBVIOUS
<1>12. /\ category \in [selection -> Status] /\ category["cache"] = status
       /\ \A c \in selection \ {"cache"} : category[c] = diagnosis[d].category[c]
       /\ DOMAIN diagnosis[d].category = selection /\ DOMAIN category = selection
  BY <1>1, <1>8, <1>10, <1>11
<1>13. PICK row : row = [diagnosis[d] EXCEPT !.probes = probes, !.category = category]
  OBVIOUS
<1>14. row \in Running /\ row.probes = probes /\ row.category = category
       /\ row.overall_status = diagnosis[d].overall_status
  <2>1. category \in UNION {[S -> Status] : S \in SUBSET Category}
    BY <1>12
  <2>. QED
    BY <1>1, <1>6, <1>13, <2>1 DEF Running
<1>15. diagnosis' = [diagnosis EXCEPT ![d] = row]
  BY <1>1, <1>9, <1>11, <1>13 DEF DiagnosticsTypeOK, Running
<1>16. /\ diagnosis'[d] = row /\ \A e \in Diagnosis \ {d} : diagnosis'[e] = diagnosis[e]
       /\ diagnosis' \in [Diagnosis -> Running \cup {Null}]
  BY <1>14, <1>15 DEF DiagnosticsTypeOK
<1>17. row # Null
  BY <1>14, DiagnosticsAssumption
<1>. QED
  BY <1>1, <1>2, <1>3, <1>4, <1>5, <1>7, <1>12, <1>14, <1>16, <1>17

\* What another category changes, ...
LEMMA CategoryEnds ==
  ASSUME DiagnosticsTypeOK, NEW d \in Diagnosis, NEW c \in Category, NEW good \in BOOLEAN,
         RunCategory(d, c, good)
  PROVE  /\ diagnosis' \in [Diagnosis -> Running \cup {Null}]
         /\ \A e \in Diagnosis \ {d} : diagnosis'[e] = diagnosis[e]
         /\ diagnosis[d] # Null /\ diagnosis'[d] # Null
         /\ diagnosis'[d].probes = diagnosis[d].probes
         /\ diagnosis'[d].overall_status = diagnosis[d].overall_status
         /\ DOMAIN diagnosis'[d].category = DOMAIN diagnosis[d].category
         /\ c \in DOMAIN diagnosis[d].category /\ c # "cache"
         /\ diagnosis[d].category[c] = "pending"
         /\ \A other \in DOMAIN diagnosis[d].category \ {c} :
              diagnosis'[d].category[other] = diagnosis[d].category[other]
<1>1. /\ diagnosis[d] \in Running /\ diagnosis[d] # Null /\ c \in DOMAIN diagnosis[d].category
      /\ diagnosis[d].category[c] = "pending" /\ c # "cache"
  BY DEF RunCategory, DiagnosticsTypeOK, Pending, Started
<1>2. PICK status \in Status :
        diagnosis' = [diagnosis EXCEPT ![d].category[c] = status]
  BY DEF RunCategory, Status
<1>3. PICK selection \in SUBSET Category : diagnosis[d].category \in [selection -> Status]
  BY <1>1 DEF Running
<1>4. PICK category : category = [diagnosis[d].category EXCEPT ![c] = status]
  OBVIOUS
<1>5. /\ category \in [selection -> Status]
      /\ \A other \in selection \ {c} : category[other] = diagnosis[d].category[other]
      /\ DOMAIN diagnosis[d].category = selection /\ DOMAIN category = selection
  BY <1>1, <1>3, <1>4
<1>6. PICK row : row = [diagnosis[d] EXCEPT !.category = category]
  OBVIOUS
<1>7. row \in Running /\ row.probes = diagnosis[d].probes /\ row.category = category
      /\ row.overall_status = diagnosis[d].overall_status
  <2>1. category \in UNION {[S -> Status] : S \in SUBSET Category}
    BY <1>5
  <2>. QED
    BY <1>1, <1>6, <2>1 DEF Running
<1>8. diagnosis' = [diagnosis EXCEPT ![d] = row]
  BY <1>1, <1>2, <1>4, <1>6 DEF DiagnosticsTypeOK, Running
<1>9. /\ diagnosis'[d] = row /\ \A e \in Diagnosis \ {d} : diagnosis'[e] = diagnosis[e]
      /\ diagnosis' \in [Diagnosis -> Running \cup {Null}]
  BY <1>7, <1>8 DEF DiagnosticsTypeOK
<1>10. row # Null
  BY <1>7, DiagnosticsAssumption
<1>. QED
  BY <1>1, <1>5, <1>7, <1>9, <1>10

\* ... and what the end of a diagnosis does.
LEMMA DiagnosisEnds ==
  ASSUME DiagnosticsTypeOK, NEW d \in Diagnosis, run_diagnostics(d)
  PROVE  /\ diagnosis' \in [Diagnosis -> Running \cup {Null}]
         /\ \A e \in Diagnosis \ {d} : diagnosis'[e] = diagnosis[e]
         /\ diagnosis[d] # Null /\ diagnosis'[d] # Null
         /\ diagnosis'[d].probes = diagnosis[d].probes
         /\ diagnosis'[d].category = diagnosis[d].category
         /\ diagnosis'[d].overall_status =
              OverallStatus({diagnosis[d].category[c] : c \in DOMAIN diagnosis[d].category})
         /\ \A c \in DOMAIN diagnosis[d].category : diagnosis[d].category[c] # "pending"
<1>1. diagnosis[d] \in Running /\ diagnosis[d] # Null
  BY DEF run_diagnostics, DiagnosticsTypeOK, Started
<1>2. PICK status : status = OverallStatus({diagnosis[d].category[c] : c \in DOMAIN diagnosis[d].category})
  OBVIOUS
<1>3. status \in Status
  BY <1>2 DEF OverallStatus, Status
<1>4. diagnosis' = [diagnosis EXCEPT ![d].overall_status = status]
  BY <1>2 DEF run_diagnostics
<1>5. PICK row : row = [diagnosis[d] EXCEPT !.overall_status = status]
  OBVIOUS
<1>6. row \in Running /\ row.probes = diagnosis[d].probes /\ row.category = diagnosis[d].category
      /\ row.overall_status = status
  BY <1>1, <1>3, <1>5 DEF Running
<1>7. /\ diagnosis'[d] = row /\ \A e \in Diagnosis \ {d} : diagnosis'[e] = diagnosis[e]
      /\ diagnosis' \in [Diagnosis -> Running \cup {Null}]
  BY <1>4, <1>5, <1>6 DEF DiagnosticsTypeOK
<1>8. row # Null
  BY <1>6, DiagnosticsAssumption
<1>9. \A c \in DOMAIN diagnosis[d].category : diagnosis[d].category[c] # "pending"
  BY <1>1 DEF run_diagnostics, Pending, Started
<1>. QED
  BY <1>1, <1>2, <1>6, <1>7, <1>8, <1>9

LEMMA DiagnosisBegins ==
  ASSUME DiagnosticsTypeOK, NEW d \in Diagnosis, NEW protocol \in {"anthropic", "other"},
         NEW selection \in Selections, create_channel_diagnostic(d, protocol, selection)
  PROVE  /\ diagnosis' \in [Diagnosis -> Running \cup {Null}]
         /\ \A e \in Diagnosis \ {d} : diagnosis'[e] = diagnosis[e]
         /\ diagnosis[d] = Null /\ diagnosis'[d] # Null
         /\ diagnosis'[d].probes = <<>>
         /\ diagnosis'[d].overall_status = "pending"
<1>1. PICK category : category = [c \in selection |->
        IF c = "cache" /\ protocol # "anthropic" THEN "error" ELSE "pending"]
  OBVIOUS
<1>2. selection \in SUBSET Category
  BY DiagnosticsAssumption
<1>3. category \in [selection -> Status]
  BY <1>1 DEF Status
<1>4. category \in UNION {[S -> Status] : S \in SUBSET Category}
  BY <1>2, <1>3
<1>5. PICK row : row = [protocol |-> protocol, probes |-> <<>>, overall_status |-> "pending",
                        category |-> category]
  OBVIOUS
<1>6. row \in Running /\ row.probes = <<>> /\ row.overall_status = "pending"
  BY <1>4, <1>5 DEF Running, Status
<1>7. diagnosis' = [diagnosis EXCEPT ![d] = row]
  BY <1>1, <1>5 DEF create_channel_diagnostic
<1>8. row # Null
  BY <1>6, DiagnosticsAssumption
<1>. QED
  BY <1>6, <1>7, <1>8 DEF DiagnosticsTypeOK, create_channel_diagnostic, Started

LEMMA DiagnosticsTypeStep ==
  ASSUME DiagnosticsTypeOK, Diagnosed, [DiagnosticsNext]_diagnosticVars
  PROVE  DiagnosticsTypeOK'
<1>1. ASSUME NEW kind \in Honest \cup Interfering, Deploy(kind) PROVE DiagnosticsTypeOK'
  BY <1>1 DEF Deploy, DiagnosticsTypeOK, Started
<1>2. ASSUME NEW d \in Diagnosis, NEW protocol \in {"anthropic", "other"},
             NEW selection \in Selections, create_channel_diagnostic(d, protocol, selection)
      PROVE  DiagnosticsTypeOK'
  <2>1. /\ diagnosis' \in [Diagnosis -> Running \cup {Null}] /\ diagnosis'[d].probes = <<>>
        /\ \A e \in Diagnosis \ {d} : diagnosis'[e] = diagnosis[e]
    BY <1>2, DiagnosisBegins
  <2>2. Len(diagnosis'[d].probes) <= 6
    BY <2>1
  <2>3. UNCHANGED <<upstream, cached, evicted>>
    BY <1>2 DEF create_channel_diagnostic
  <2>. QED
    BY <2>1, <2>2, <2>3 DEF DiagnosticsTypeOK, Started
<1>3. ASSUME NEW d \in Diagnosis, Pending(d, "cache"), NEW reached \in BOOLEAN,
             NEW answered \in BOOLEAN, NEW latency \in {"sub_100ms", "sub_300ms", "slow"},
             _run_single_probe(d, reached, answered, latency)
      PROVE  DiagnosticsTypeOK'
  <2>1. Len(diagnosis[d].probes) < 6 /\ Started(d)
    BY <1>3 DEF Diagnosed, Concluded, Pending
  <2>2. PICK i, result : /\ i = Len(diagnosis[d].probes) + 1
                         /\ result = IF answered THEN Result("passed", UsageOf(Prompt(d, i)), latency)
                                     ELSE Result("failed", NoUsage, "slow")
    OBVIOUS
  <2>3. /\ result \in Probe /\ diagnosis' \in [Diagnosis -> Running \cup {Null}]
        /\ diagnosis'[d].probes = Append(diagnosis[d].probes, result)
        /\ \A e \in Diagnosis \ {d} : diagnosis'[e] = diagnosis[e]
    BY <1>3, <2>1, <2>2, ProbeAdds
  <2>4. diagnosis[d].probes \in Seq(Probe)
    BY <2>1 DEF DiagnosticsTypeOK, Started, Running
  <2>5. Len(diagnosis'[d].probes) <= 6
    BY <2>1, <2>3, <2>4
  <2>6. cached' \subseteq ((Diagnosis \cup {"any"}) \X {"long", "breaker"}) \cup {<<Added>>}
    <3>1. Prefixes(Prompt(d, i)) \subseteq (Diagnosis \X {"long", "breaker"}) \cup {<<Added>>}
      BY DEF Prefixes, Prompt
    <3>2. cached' \subseteq cached \cup Prefixes(Prompt(d, i))
      BY <1>3, <2>2 DEF _run_single_probe
    <3>. QED
      BY <3>1, <3>2 DEF DiagnosticsTypeOK
  <2>7. UNCHANGED <<upstream, evicted>>
    BY <1>3 DEF _run_single_probe
  <2>. QED
    BY <2>3, <2>5, <2>6, <2>7 DEF DiagnosticsTypeOK, Started
<1>4. ASSUME NEW d \in Diagnosis, NEW c \in Category, NEW good \in BOOLEAN, RunCategory(d, c, good)
      PROVE  DiagnosticsTypeOK'
  BY <1>4, CategoryEnds DEF RunCategory, DiagnosticsTypeOK, Started
<1>5. ASSUME NEW d \in Diagnosis, run_diagnostics(d) PROVE DiagnosticsTypeOK'
  BY <1>5, DiagnosisEnds DEF run_diagnostics, DiagnosticsTypeOK, Started
<1>6. ASSUME NEW prefix \in cached, Evict(prefix) PROVE DiagnosticsTypeOK'
  BY <1>6, FaultsLeft DEF Evict, DiagnosticsTypeOK, Started
<1>7. CASE UNCHANGED diagnosticVars
  BY <1>7 DEF diagnosticVars, DiagnosticsTypeOK, Started
<1>. QED
  BY <1>1, <1>2, <1>3, <1>4, <1>5, <1>6, <1>7 DEF DiagnosticsNext

\* A step that goes on in none of its own respects leaves a diagnosis as it is.
LEMMA OthersKeepDiagnosed ==
  ASSUME NEW e \in Diagnosis, Left(e), Said(e), Concluded(e),
         diagnosis'[e] = diagnosis[e], upstream' = upstream, evicted' = evicted,
         upstream = "unknown" => cached' = cached,
         cached \subseteq cached',
         upstream = "native" =>
           \A kind \in {"long", "breaker"} : <<e, kind>> \notin cached => <<e, kind>> \notin cached'
  PROVE  Left(e)' /\ Said(e)' /\ Concluded(e)'
<1>1. Started(e)' <=> Started(e)
  BY DEF Started
<1>2. Left(e)'
  BY <1>1 DEF Left
<1>3. Said(e)'
  BY <1>1 DEF Said
<1>4. Concluded(e)'
  BY <1>1 DEF Concluded, Pending
<1>. QED
  BY <1>2, <1>3, <1>4

\* What is known of a probe that was answered, ...
LEMMA AnswerKnown ==
  ASSUME NEW d \in Diagnosis, NEW i \in 1..6, NEW latency,
         NEW prompt, prompt = Prompt(d, i),
         NEW result, result = Result("passed", UsageOf(prompt), latency)
  PROVE  /\ Passed(result)
         /\ upstream = "native" =>
              /\ result.input_tokens = 0
              /\ prompt \notin cached => result.cache_read_tokens = 0 /\ result.cache_creation_tokens = 10
              /\ prompt \in cached => result.cache_read_tokens = 10
         /\ upstream \in {"uncached", "silent", "truncating"} =>
              result.cache_read_tokens = 0 /\ result.cache_creation_tokens = 0
         /\ upstream \in {"uncached", "silent"} => result.input_tokens = 10
         /\ upstream = "truncating" => result.input_tokens = 2
         /\ upstream \in {"hinting", "stuffing"} /\ <<Added>> \in cached => result.cache_read_tokens > 0
<1>1. PICK usage : usage = UsageOf(prompt)
  OBVIOUS
<1>2. /\ Passed(result) /\ result.cache_read_tokens = usage.cache_read_tokens
      /\ result.cache_creation_tokens = usage.cache_creation_tokens
      /\ result.input_tokens = usage.input_tokens
  BY <1>1 DEF Result, Passed
<1>3. /\ upstream = "native" =>
            /\ usage.input_tokens = 0
            /\ prompt \in cached => usage.cache_read_tokens = 10
            /\ prompt \notin cached => usage.cache_read_tokens = 0 /\ usage.cache_creation_tokens = 10
      /\ upstream \in {"uncached", "silent", "truncating"} =>
            usage.cache_read_tokens = 0 /\ usage.cache_creation_tokens = 0
      /\ upstream \in {"uncached", "silent"} => usage.input_tokens = 10
      /\ upstream = "truncating" => usage.input_tokens = 2
      /\ upstream \in {"hinting", "stuffing"} /\ <<Added>> \in cached => usage.cache_read_tokens > 0
  BY <1>1, UsageReported
<1>. QED
  BY <1>2, <1>3

\* ... and of one that was not.
LEMMA NoAnswerKnown ==
  ASSUME NEW result, result = Result("failed", NoUsage, "slow")
  PROVE  /\ ~Passed(result) /\ result.cache_read_tokens = 0
         /\ result.cache_creation_tokens = 0 /\ result.input_tokens = 0
BY DEF Result, NoUsage, Passed

\* A probe keeps what is known of the diagnosis it belongs to.
LEMMA ProbeKeepsDiagnosed ==
  ASSUME DiagnosticsTypeOK, NEW d \in Diagnosis, Left(d), Said(d), Concluded(d), Pending(d, "cache"),
         NEW reached \in BOOLEAN, NEW answered \in BOOLEAN,
         NEW latency \in {"sub_100ms", "sub_300ms", "slow"},
         _run_single_probe(d, reached, answered, latency)
  PROVE  Left(d)' /\ Said(d)' /\ Concluded(d)'
<1>1. Len(diagnosis[d].probes) < 6 /\ Started(d)
  BY DEF Concluded, Pending
<1>2. PICK old, i, prompt, result :
        /\ old = diagnosis[d].probes /\ i = Len(old) + 1 /\ prompt = Prompt(d, i)
        /\ result = IF answered THEN Result("passed", UsageOf(prompt), latency)
                    ELSE Result("failed", NoUsage, "slow")
  OBVIOUS
<1>3. old \in Seq(Probe) /\ Len(old) \in 0..5
  <2>1. old \in Seq(Probe)
    BY <1>1, <1>2 DEF DiagnosticsTypeOK, Started, Running
  <2>2. Len(old) \in Nat /\ Len(old) < 6
    BY <1>1, <1>2, <2>1
  <2>3. PICK n : n = Len(old)
    OBVIOUS
  <2>4. n \in 0..5
    BY <2>2, <2>3
  <2>. QED
    BY <2>1, <2>3, <2>4
<1>4. /\ i \in 1..6 /\ result \in Probe /\ diagnosis'[d] # Null
      /\ diagnosis'[d].probes = Append(old, result)
      /\ diagnosis'[d].overall_status = diagnosis[d].overall_status
      /\ DOMAIN diagnosis'[d].category = DOMAIN diagnosis[d].category
      /\ "cache" \in DOMAIN diagnosis[d].category
      /\ diagnosis'[d].category["cache"] =
              IF ~Passed(diagnosis'[d].probes[1]) THEN "error"
              ELSE IF i = 6 THEN run_cache_probes(diagnosis'[d].probes) ELSE "pending"
  BY <1>1, <1>2, ProbeAdds
<1>5. PICK new : new = diagnosis'[d].probes
  OBVIOUS
<1>6. /\ Len(new) = i /\ new[i] = result /\ \A j \in 1..Len(old) : new[j] = old[j]
      /\ i = 1 => result = new[1]
      /\ i > 1 => new[1] = old[1]
  BY <1>2, <1>3, <1>4, <1>5
<1>7. i = 6 => Len(old) = 5
  <2>1. PICK n : n = Len(old)
    OBVIOUS
  <2>2. n \in 0..5 /\ i = n + 1
    BY <1>2, <1>3, <2>1
  <2>. QED
    BY <2>1, <2>2
<1>8. /\ UNCHANGED <<upstream, evicted>> /\ upstream # "unknown"
      /\ cached' = IF reached THEN cached \cup Prefixes(prompt) ELSE cached
      /\ answered => reached
  BY <1>1, <1>2 DEF _run_single_probe, Left
<1>9. /\ i = 5 => prompt = <<d, "breaker">>
      /\ i # 5 => prompt = <<d, "long">>
  BY <1>2 DEF Prompt, Breaker
<1>10. /\ Passed(result) <=> answered
       /\ upstream = "native" =>
               /\ result.input_tokens = 0
               /\ prompt \notin cached => /\ result.cache_read_tokens = 0
                                          /\ result.cache_creation_tokens = IF answered THEN 10 ELSE 0
               /\ prompt \in cached /\ answered => result.cache_read_tokens = 10
       /\ upstream \in {"uncached", "silent", "truncating"} =>
               result.cache_read_tokens = 0 /\ result.cache_creation_tokens = 0
       /\ upstream \in {"uncached", "silent"} => result.input_tokens \in {0, 10}
       /\ upstream = "truncating" /\ answered => result.input_tokens = 2
       /\ upstream \in {"hinting", "stuffing"} /\ <<Added>> \in cached /\ answered =>
               result.cache_read_tokens > 0
  <2>1. CASE answered
    <3>1. /\ i \in 1..6
          /\ prompt = Prompt(d, i)
          /\ result = Result("passed", UsageOf(prompt), latency)
      BY <1>2, <1>4, <2>1
    <3>2. /\ Passed(result)
          /\ upstream = "native" =>
               /\ result.input_tokens = 0
               /\ prompt \notin cached => result.cache_read_tokens = 0 /\ result.cache_creation_tokens = 10
               /\ prompt \in cached => result.cache_read_tokens = 10
          /\ upstream \in {"uncached", "silent", "truncating"} =>
               result.cache_read_tokens = 0 /\ result.cache_creation_tokens = 0
          /\ upstream \in {"uncached", "silent"} => result.input_tokens = 10
          /\ upstream = "truncating" => result.input_tokens = 2
          /\ upstream \in {"hinting", "stuffing"} /\ <<Added>> \in cached => result.cache_read_tokens > 0
      BY <3>1, AnswerKnown
    <3>. QED
      BY <2>1, <3>2
  <2>2. CASE ~answered
    <3>1. result = Result("failed", NoUsage, "slow")
      BY <1>2, <2>2
    <3>. QED
      BY <2>2, <3>1, NoAnswerKnown
  <2>. QED
    BY <2>1, <2>2
<1>11. Started(d)'
  BY <1>4 DEF Started
<1>12. Left(d)'
  <2>1. CASE upstream = "native"
    <3>1. cached' \subseteq cached \cup {prompt} /\ cached \subseteq cached' /\ (answered => prompt \in cached')
      BY <1>8, <2>1 DEF Prefixes
    <3>2. Len(new) < 5 => <<d, "breaker">> \notin cached'
      <4>1. <<d, "breaker">> # <<d, "long">>
        OBVIOUS
      <4>2. ASSUME Len(new) < 5 PROVE <<d, "breaker">> \notin cached
        BY <1>1, <1>2, <1>3, <1>6, <2>1, <4>2 DEF Left
      <4>. QED
        BY <1>3, <1>6, <1>9, <3>1, <4>1, <4>2
    <3>3. evicted = 0 /\ Passed(new[1]) => <<d, "long">> \in cached'
      <4>1. CASE i = 1
        BY <1>6, <1>9, <1>10, <3>1, <4>1
      <4>2. CASE i > 1
        BY <1>1, <1>2, <1>3, <1>6, <2>1, <3>1, <4>2 DEF Left
      <4>. QED
        BY <1>4, <4>1, <4>2
    <3>4. Len(new) >= 1
      BY <1>4, <1>6
    <3>. QED
      BY <1>5, <1>8, <1>11, <2>1, <3>2, <3>3, <3>4 DEF Left
  <2>2. CASE upstream \in {"hinting", "stuffing"}
    <3>1. cached \subseteq cached' /\ (answered => <<Added>> \in cached')
      BY <1>8, <2>2 DEF Prefixes
    <3>2. evicted = 0 /\ Passed(new[1]) => <<Added>> \in cached'
      <4>1. CASE i = 1
        BY <1>6, <1>10, <3>1, <4>1
      <4>2. CASE i > 1
        BY <1>1, <1>2, <1>3, <1>6, <2>2, <3>1, <4>2 DEF Left
      <4>. QED
        BY <1>4, <4>1, <4>2
    <3>. QED
      BY <1>5, <1>8, <1>11, <2>2, <3>2 DEF Left
  <2>3. CASE upstream \notin {"native", "hinting", "stuffing"}
    BY <1>8, <2>3 DEF Left
  <2>. QED
    BY <2>1, <2>2, <2>3
<1>13. Said(d)'
  <2>1. CASE upstream = "native"
    <3>1. \A j \in 1..Len(new) : new[j].input_tokens = 0
      BY <1>1, <1>2, <1>3, <1>6, <1>10, <2>1 DEF Said
    <3>2. /\ new[1].cache_read_tokens = 0 /\ new[1].cache_creation_tokens \in {0, 10}
          /\ new[1].cache_creation_tokens = 10 => Passed(new[1])
      <4>1. CASE i = 1
        <5>1. <<d, "long">> \notin cached
          BY <1>1, <1>2, <1>3, <2>1, <4>1 DEF Left
        <5>. QED
          BY <1>6, <1>9, <1>10, <2>1, <4>1, <5>1
      <4>2. CASE i > 1
        BY <1>1, <1>2, <1>3, <1>6, <2>1, <4>2 DEF Said
      <4>. QED
        BY <1>4, <4>1, <4>2
    <3>3. Len(new) >= 5 => new[5].cache_read_tokens = 0
      <4>1. CASE i = 5
        <5>1. <<d, "breaker">> \notin cached
          BY <1>1, <1>2, <1>3, <2>1, <4>1 DEF Left
        <5>. QED
          BY <1>6, <1>9, <1>10, <2>1, <4>1, <5>1
      <4>2. CASE i = 6
        BY <1>1, <1>2, <1>3, <1>6, <2>1, <4>2 DEF Said
      <4>3. CASE i < 5
        BY <1>6, <4>3
      <4>. QED
        BY <1>4, <4>1, <4>2, <4>3
    <3>4. ASSUME evicted = 0, NEW j \in Warm \cap 1..Len(new), Passed(new[1]), Passed(new[j])
          PROVE  new[j].cache_read_tokens = 10
      <4>1. CASE j = i
        <5>1. i # 5 /\ i > 1
          BY <4>1 DEF Warm
        <5>2. <<d, "long">> \in cached
          BY <1>1, <1>2, <1>3, <1>6, <2>1, <3>4, <5>1 DEF Left
        <5>. QED
          BY <1>6, <1>9, <1>10, <2>1, <3>4, <4>1, <5>1, <5>2
      <4>2. CASE j # i
        <5>1. j \in 2..4 /\ j \in 1..i /\ i \in 1..6
          BY <1>4, <1>6 DEF Warm
        <5>2. j \in 1..Len(old) /\ i > 1
          <6>1. PICK n : n = Len(old)
            OBVIOUS
          <6>2. n \in 0..5 /\ i = n + 1
            BY <1>2, <1>3, <6>1
          <6>3. j \in 1..n /\ i > 1
            BY <4>2, <5>1, <6>2
          <6>. QED
            BY <6>1, <6>3
        <5>3. j \in Warm \cap 1..Len(old) /\ new[j] = old[j] /\ new[1] = old[1]
          BY <1>6, <5>2
        <5>. QED
          BY <1>1, <1>2, <2>1, <3>4, <5>3 DEF Said
      <4>. QED
        BY <4>1, <4>2
    <3>. QED
      BY <1>5, <1>8, <2>1, <3>1, <3>2, <3>3, <3>4 DEF Said
  <2>2. CASE upstream \in {"uncached", "silent"}
    <3>1. \A j \in 1..Len(new) : /\ new[j].cache_read_tokens = 0 /\ new[j].cache_creation_tokens = 0
                                 /\ new[j].input_tokens \in {0, 10}
      <4>1. \A j \in 1..Len(old) : /\ old[j].cache_read_tokens = 0 /\ old[j].cache_creation_tokens = 0
                                   /\ old[j].input_tokens \in {0, 10}
        BY <1>1, <1>2, <2>2 DEF Said
      <4>2. /\ result.cache_read_tokens = 0 /\ result.cache_creation_tokens = 0
            /\ result.input_tokens \in {0, 10}
        BY <1>10, <2>2
      <4>3. \A j \in 1..Len(new) : j \in 1..Len(old) \/ j = i
        <5>1. PICK n : n = Len(old)
          OBVIOUS
        <5>2. n \in 0..5 /\ i = n + 1 /\ Len(new) = i
          <6>1. i = n + 1 /\ Len(new) = i
            BY <1>2, <1>6, <5>1
          <6>. QED
            BY <1>3, <5>1, <6>1
        <5>3. \A j \in 1..(n + 1) : j \in 1..n \/ j = n + 1
          BY <5>2
        <5>. QED
          BY <5>1, <5>2, <5>3
      <4>. QED
        BY <1>6, <4>1, <4>2, <4>3
    <3>. QED
      BY <1>5, <1>8, <2>2, <3>1 DEF Said
  <2>3. CASE upstream \in {"hinting", "stuffing"}
    <3>1. ASSUME evicted = 0, Len(new) >= 5, Passed(new[1]), Passed(new[5])
          PROVE  new[5].cache_read_tokens > 0
      <4>1. i > 1 /\ new[1] = old[1]
        BY <1>6, <3>1
      <4>2. CASE i = 5
        <5>1. <<Added>> \in cached
          BY <1>1, <1>2, <1>3, <1>6, <2>3, <3>1, <4>1 DEF Left
        <5>. QED
          BY <1>6, <1>10, <2>3, <3>1, <4>2, <5>1
      <4>3. CASE i = 6
        <5>1. Len(old) = 5
          BY <1>2, <1>7, <4>3
        <5>2. new[5] = old[5]
          BY <1>6, <5>1
        <5>. QED
          BY <1>1, <1>2, <2>3, <3>1, <4>1, <5>1, <5>2 DEF Said
      <4>. QED
        BY <1>4, <1>6, <3>1, <4>2, <4>3
    <3>. QED
      BY <1>5, <1>8, <2>3, <3>1 DEF Said
  <2>4. CASE upstream = "truncating"
    <3>1. ASSUME Passed(new[1])
          PROVE  /\ new[1].cache_read_tokens = 0 /\ new[1].cache_creation_tokens = 0
                 /\ new[1].input_tokens = 2
      <4>1. CASE i = 1
        BY <1>6, <1>10, <2>4, <3>1, <4>1
      <4>2. CASE i > 1
        BY <1>1, <1>2, <1>3, <1>6, <2>4, <3>1, <4>2 DEF Said
      <4>. QED
        BY <1>4, <4>1, <4>2
    <3>. QED
      BY <1>5, <1>8, <2>4, <3>1 DEF Said
  <2>. QED
    BY <1>8, <2>1, <2>2, <2>3, <2>4 DEF DiagnosticsTypeOK, Honest, Interfering
<1>14. Concluded(d)'
  <2>1. Pending(d, "cache")' => Passed(new[1]) /\ i # 6
    BY <1>4, <1>5, VerdictIsStatus DEF Pending
  <2>2. i = 6 => Passed(new[1])
    <3>1. ASSUME i = 6 PROVE Passed(new[1])
      <4>1. Len(old) = 5
        BY <1>2, <1>7, <3>1
      <4>2. new[1] = old[1]
        BY <1>6, <3>1
      <4>. QED
        BY <1>1, <1>2, <4>1, <4>2 DEF Concluded
    <3>. QED
      BY <3>1
  <2>3. i = 6 => diagnosis'[d].category["cache"] = run_cache_probes(new)
    BY <1>4, <1>5, <2>2
  <2>4. diagnosis'[d].overall_status # "passed"
    BY <1>1, <1>4 DEF Concluded, Pending
  <2>5. Len(new) = i /\ i \in 1..6
    BY <1>4, <1>6
  <2>. QED
    BY <1>4, <1>5, <2>1, <2>3, <2>4, <2>5 DEF Concluded
<1>. QED
  BY <1>12, <1>13, <1>14

LEMMA DiagnosedInit == DiagnosticsInit => DiagnosticsTypeOK /\ Diagnosed
<1>1. 0 \in 0..MaxFaults
  BY DiagnosticsAssumption
<1>. QED
  BY <1>1 DEF DiagnosticsInit, DiagnosticsTypeOK, Diagnosed, Left, Said, Concluded, Started

LEMMA DiagnosedStep ==
  ASSUME DiagnosticsTypeOK, Diagnosed, [DiagnosticsNext]_diagnosticVars
  PROVE  Diagnosed'
<1>. SUFFICES ASSUME NEW e \in Diagnosis
              PROVE  Left(e)' /\ Said(e)' /\ Concluded(e)'
  BY DEF Diagnosed
<1>. Left(e) /\ Said(e) /\ Concluded(e)
  BY DEF Diagnosed
<1>1. ASSUME NEW kind \in Honest \cup Interfering, Deploy(kind)
      PROVE  Left(e)' /\ Said(e)' /\ Concluded(e)'
  <2>1. cached' = {} /\ ~Started(e)' /\ upstream' # "unknown"
    BY <1>1 DEF Deploy, Left, Started, Honest, Interfering
  <2>. QED
    BY <2>1 DEF Left, Said, Concluded
<1>2. ASSUME NEW d \in Diagnosis, NEW protocol \in {"anthropic", "other"},
             NEW selection \in Selections, create_channel_diagnostic(d, protocol, selection)
      PROVE  Left(e)' /\ Said(e)' /\ Concluded(e)'
  <2>1. UNCHANGED <<upstream, cached, evicted>> /\ upstream # "unknown"
    BY <1>2 DEF create_channel_diagnostic
  <2>2. /\ \A other \in Diagnosis \ {d} : diagnosis'[other] = diagnosis[other]
        /\ diagnosis[d] = Null /\ diagnosis'[d] # Null /\ diagnosis'[d].probes = <<>>
        /\ diagnosis'[d].overall_status = "pending"
    BY <1>2, DiagnosisBegins
  <2>3. CASE e # d
    BY <2>1, <2>2, <2>3, OthersKeepDiagnosed
  <2>4. CASE e = d
    <3>1. ~Started(e) /\ Started(e)' /\ Len(diagnosis'[e].probes) = 0
      BY <2>2, <2>4 DEF Started
    <3>2. Left(e)'
      BY <2>1, <3>1 DEF Left
    <3>3. Said(e)'
      BY <3>1 DEF Said, Warm
    <3>4. Concluded(e)'
      <4>1. PICK n : n = Len(diagnosis'[e].probes)
        OBVIOUS
      <4>2. n < 6 /\ n # 6 /\ ~(n >= 1)
        BY <3>1, <4>1
      <4>. QED
        BY <2>2, <2>4, <4>1, <4>2 DEF Concluded
    <3>. QED
      BY <3>2, <3>3, <3>4
  <2>. QED
    BY <2>3, <2>4
<1>3. ASSUME NEW d \in Diagnosis, Pending(d, "cache"), NEW reached \in BOOLEAN,
             NEW answered \in BOOLEAN, NEW latency \in {"sub_100ms", "sub_300ms", "slow"},
             _run_single_probe(d, reached, answered, latency)
      PROVE  Left(e)' /\ Said(e)' /\ Concluded(e)'
  <2>1. Left(d) /\ Said(d) /\ Concluded(d)
    BY DEF Diagnosed
  <2>2. CASE e = d
    <3>1. Left(d)' /\ Said(d)' /\ Concluded(d)'
      BY <1>3, <2>1, ProbeKeepsDiagnosed
    <3>. QED
      BY <2>2, <3>1
  <2>3. CASE e # d
    <3>1. Len(diagnosis[d].probes) < 6 /\ Started(d)
      BY <1>3, <2>1 DEF Concluded, Pending
    <3>2. PICK i, prompt, result :
            /\ i = Len(diagnosis[d].probes) + 1 /\ prompt = Prompt(d, i)
            /\ result = IF answered THEN Result("passed", UsageOf(Prompt(d, i)), latency)
                        ELSE Result("failed", NoUsage, "slow")
      OBVIOUS
    <3>3. diagnosis'[e] = diagnosis[e]
      BY <1>3, <2>3, <3>1, <3>2, ProbeAdds
    <3>4. /\ UNCHANGED <<upstream, evicted>> /\ upstream # "unknown"
          /\ cached' = IF reached THEN cached \cup Prefixes(prompt) ELSE cached
      BY <1>3, <2>1, <3>1, <3>2 DEF _run_single_probe, Left
    <3>5. ASSUME upstream = "native", NEW kind \in {"long", "breaker"}, <<e, kind>> \notin cached
          PROVE  <<e, kind>> \notin cached'
      <4>1. cached' \subseteq cached \cup {prompt}
        BY <3>4, <3>5 DEF Prefixes
      <4>2. prompt # <<e, kind>>
        BY <2>3, <3>2 DEF Prompt
      <4>. QED
        BY <3>5, <4>1, <4>2
    <3>6. cached \subseteq cached'
      BY <3>4
    <3>. QED
      BY <3>3, <3>4, <3>5, <3>6, OthersKeepDiagnosed
  <2>. QED
    BY <2>2, <2>3
<1>4. ASSUME NEW d \in Diagnosis, NEW c \in Category, NEW good \in BOOLEAN, RunCategory(d, c, good)
      PROVE  Left(e)' /\ Said(e)' /\ Concluded(e)'
  <2>1. UNCHANGED <<upstream, cached, evicted>>
    BY <1>4 DEF RunCategory
  <2>2. /\ \A other \in Diagnosis \ {d} : diagnosis'[other] = diagnosis[other]
        /\ diagnosis[d] # Null /\ diagnosis'[d] # Null
        /\ diagnosis'[d].probes = diagnosis[d].probes
        /\ diagnosis'[d].overall_status = diagnosis[d].overall_status
        /\ DOMAIN diagnosis'[d].category = DOMAIN diagnosis[d].category
        /\ c \in DOMAIN diagnosis[d].category /\ c # "cache"
        /\ diagnosis[d].category[c] = "pending"
        /\ \A other \in DOMAIN diagnosis[d].category \ {c} :
             diagnosis'[d].category[other] = diagnosis[d].category[other]
    BY <1>4, CategoryEnds
  <2>3. CASE e # d
    BY <2>1, <2>2, <2>3, OthersKeepDiagnosed
  <2>4. CASE e = d
    <3>1. Started(e) /\ Started(e)' /\ diagnosis'[e].probes = diagnosis[e].probes
      BY <2>2, <2>4 DEF Started
    <3>2. Left(e)' /\ Said(e)'
      BY <2>1, <3>1 DEF Left, Said
    <3>3. Concluded(e)'
      BY <2>2, <2>4, <3>1 DEF Concluded, Pending
    <3>. QED
      BY <3>2, <3>3
  <2>. QED
    BY <2>3, <2>4
<1>5. ASSUME NEW d \in Diagnosis, run_diagnostics(d)
      PROVE  Left(e)' /\ Said(e)' /\ Concluded(e)'
  <2>1. UNCHANGED <<upstream, cached, evicted>>
    BY <1>5 DEF run_diagnostics
  <2>2. /\ \A other \in Diagnosis \ {d} : diagnosis'[other] = diagnosis[other]
        /\ diagnosis[d] # Null /\ diagnosis'[d] # Null
        /\ diagnosis'[d].probes = diagnosis[d].probes
        /\ diagnosis'[d].category = diagnosis[d].category
        /\ diagnosis'[d].overall_status =
              OverallStatus({diagnosis[d].category[c] : c \in DOMAIN diagnosis[d].category})
        /\ \A c \in DOMAIN diagnosis[d].category : diagnosis[d].category[c] # "pending"
    BY <1>5, DiagnosisEnds
  <2>3. CASE e # d
    BY <2>1, <2>2, <2>3, OthersKeepDiagnosed
  <2>4. CASE e = d
    <3>1. Started(e) /\ Started(e)' /\ diagnosis'[e].probes = diagnosis[e].probes
      BY <2>2, <2>4 DEF Started
    <3>2. Left(e)' /\ Said(e)'
      BY <2>1, <3>1 DEF Left, Said
    <3>3. ASSUME diagnosis'[d].overall_status = "passed", NEW c \in DOMAIN diagnosis[d].category
          PROVE  diagnosis[d].category[c] \notin {"pending", "warning"}
      BY <2>2, <3>3, WarningDoesNotPass
    <3>4. Concluded(e)'
      BY <2>2, <2>4, <3>1, <3>3 DEF Concluded, Pending
    <3>. QED
      BY <3>2, <3>4
  <2>. QED
    BY <2>3, <2>4
<1>6. ASSUME NEW prefix \in cached, Evict(prefix) PROVE Left(e)' /\ Said(e)' /\ Concluded(e)'
  <2>1. /\ cached' \subseteq cached /\ UNCHANGED <<upstream, diagnosis>> /\ evicted' = evicted + 1
        /\ evicted \in Nat
    BY <1>6, DiagnosticsAssumption DEF Evict, DiagnosticsTypeOK
  <2>2. evicted' # 0 /\ (Started(e)' <=> Started(e))
    BY <2>1 DEF Started
  <2>3. Left(e)'
    BY <2>1, <2>2 DEF Left
  <2>4. Said(e)'
    BY <2>1, <2>2 DEF Said
  <2>5. Concluded(e)'
    BY <2>1, <2>2 DEF Concluded, Pending
  <2>. QED
    BY <2>3, <2>4, <2>5
<1>7. CASE UNCHANGED diagnosticVars
  BY <1>7, OthersKeepDiagnosed DEF diagnosticVars
<1>. QED
  BY <1>1, <1>2, <1>3, <1>4, <1>5, <1>6, <1>7 DEF DiagnosticsNext

LEMMA DiagnosedHolds == DiagnosticsSpec => [](DiagnosticsTypeOK /\ Diagnosed)
<1>1. DiagnosticsInit => DiagnosticsTypeOK /\ Diagnosed
  BY DiagnosedInit
<1>2. DiagnosticsTypeOK /\ Diagnosed /\ [DiagnosticsNext]_diagnosticVars
        => (DiagnosticsTypeOK /\ Diagnosed)'
  BY DiagnosticsTypeStep, DiagnosedStep
<1>. QED
  BY <1>1, <1>2, PTL DEF DiagnosticsSpec

\* A diagnosis and its probes keep their types: there are at most six of them, and no
\* more faults than are allowed for.
THEOREM DiagnosticsTypeCorrect == DiagnosticsSpec => []DiagnosticsTypeOK
BY DiagnosedHolds, PTL

\* However many diagnoses use an upstream at a time and whichever of their probes fail,
\* one that leaves prompts alone and evicts nothing is not taken for a proxy.
THEOREM HonestNeverAccused == DiagnosticsSpec => []HonestNotAccused
<1>1. DiagnosticsTypeOK /\ Diagnosed => HonestNotAccused
  BY DiagnosedSuffices
<1>. QED
  BY <1>1, DiagnosedHolds, PTL

\* A proxy that changes prompts never passes a diagnosis whose probes were all answered,
\* whatever the other categories say.
THEOREM InterferenceAlwaysSeen == DiagnosticsSpec => []InterferenceSeen
<1>1. DiagnosticsTypeOK /\ Diagnosed => InterferenceSeen
  BY DiagnosedSuffices
<1>. QED
  BY <1>1, DiagnosedHolds, PTL
=================================================================================
