----------------------------- MODULE AgentReply -----------------------------
(***************************************************************************)
(* How InvokeTriageAgent turns the agent's HTTP answer into a report or an *)
(* error: the status, the JSON-RPC response in a plain body or as the last *)
(* event of a stream that may break off, the search for the report in what *)
(* the model wrote, and the fallback report.                               *)
(*                                                                         *)
(* A text is a sequence of tokens: whole JSON objects, stray braces, code  *)
(* fences, line breaks, and prose of more ("prose") or less ("hm") than    *)
(* the 20 characters that make a fallback report.                          *)
(***************************************************************************)
EXTENDS Naturals, Sequences, FiniteSetsExt

CONSTANT MaxText    \* bound: tokens of the text of an artifact

VARIABLES
    pc,         \* where the activity stands
    last,       \* the response read last, none or one: lastData of a stream
    outcome     \* what the activity returned

vars == <<pc, last, outcome>>

\* JSON objects by what json.Unmarshal makes of them: a TriageReport; one whose
\* causal_chain has to be coerced first; a report without a known classification;
\* nothing, even after coercion; and a JSON-RPC response taken for a report, which
\* unmarshals into one with every field empty.
Objects == {"report", "mixed", "unclassified", "alien", "envelope"}
Tokens  == (Objects \ {"envelope"}) \cup {"{", "}", "fence", "newline", "prose", "hm"}
Opens   == Objects \cup {"{"}
Closes  == Objects \cup {"}"}

Texts == UNION {[1..n -> Tokens] : n \in 0..MaxText}

\* bound: the texts where a response has several
FewTexts == {<<>>, <<"hm">>, <<"prose">>, <<"report">>, <<"newline", "mixed">>}

(* A response body is a bare text or a JSON-RPC response.  Of a result the      *)
(* first part of its artifact, message and status message count; <<>> stands    *)
(* for what is missing, <<x>> for x.                                            *)
Maybe(S) == {<<>>} \cup {<<x>> : x \in S}
Result   == [artifact : Maybe(FewTexts), message : Maybe(FewTexts), status : Maybe(FewTexts)]
Envelope == [bare : {<<>>}, error : {"none", "client", "other"}, result : Maybe(Result)]

Bare(t)     == [bare |-> <<t>>, error |-> "none", result |-> <<>>]
Artifact(t) == [bare |-> <<>>, error |-> "none",
                result |-> <<[artifact |-> <<t>>, message |-> <<>>, status |-> <<>>]>>]

\* A bare text of a stream is one line.
Bodies == Envelope \cup {Bare(t) : t \in {f \in FewTexts : \A i \in DOMAIN f : f[i] # "newline"}}

Outcomes == {"diagnosis", "unknown", "fallback", "retry", "final"}

-----------------------------------------------------------------------------
(* stripMarkdownJSON.                                                         *)

Where(s, S)    == {i \in DOMAIN s : s[i] \in S}
StartsObject(s) == s # <<>> /\ s[1] \in Opens

TrimSpace(s) ==
    LET kept == {i \in DOMAIN s : s[i] # "newline"}
    IN  IF kept = {} THEN <<>> ELSE SubSeq(s, Min(kept), Max(kept))

\* What the first code fence holds, after the line its language tag is on; the
\* fence's own line is not looked at to have ended.
Fenced(s) ==
    LET open   == Min(Where(s, {"fence"}))
        breaks == {i \in Where(s, {"newline"}) : i > open}
        start  == IF breaks = {} THEN open + 1 ELSE Min(breaks) + 1
        ends   == {i \in Where(s, {"fence"}) : i >= start}
    IN  IF Where(s, {"fence"}) = {} \/ ends = {} THEN <<>>
        ELSE TrimSpace(SubSeq(s, start, Min(ends) - 1))

\* From the first '{' to the last '}'.
Embedded(s) ==
    LET opens == Where(s, Opens) closes == Where(s, Closes)
    IN  IF opens = {} \/ closes = {} THEN <<>> ELSE SubSeq(s, Min(opens), Max(closes))

StripMarkdownJSON(s) ==
    LET t == TrimSpace(s)
    IN  CASE StartsObject(t) -> t
          [] ~StartsObject(t) /\ StartsObject(Fenced(t)) -> Fenced(t)
          [] OTHER -> IF Embedded(t) # <<>> THEN Embedded(t) ELSE t

(* parseTriageReport, the validation, and the fallback for plain prose.       *)

IsEmptyObject(t) ==
    Len(t) >= 2 /\ t[1] = "{" /\ t[Len(t)] = "}" /\ Where(t, {"newline"}) = 2..(Len(t) - 1)

\* More than 20 characters; whole objects are taken to have them.
Long(t) == Where(t, Objects \cup {"prose"}) # {}

ParseTriageReport_Strict(t) ==
    CASE t = <<"report">> -> "diagnosis"
      [] t = <<"unclassified">> \/ t = <<"envelope">> \/ IsEmptyObject(t) -> "unknown"
      [] OTHER -> "error"

ParseTriageReport(t) ==
    CASE t = <<"report">> \/ t = <<"mixed">> -> "diagnosis"
      [] t = <<"unclassified">> \/ t = <<"envelope">> \/ IsEmptyObject(t) -> "unknown"
      [] OTHER -> "error"

Verdict(text) ==
    LET t == StripMarkdownJSON(text)
    IN  CASE ParseTriageReport(t) # "error" -> ParseTriageReport(t)
          [] ParseTriageReport(t) = "error" /\ Long(t) -> "fallback"
          [] OTHER -> "retry"

-----------------------------------------------------------------------------
(* readJSONRPCResponse and readSSEResponse.                                   *)

\* The parts that hold the agent's text, in the order they are tried.
Parts(b, fields) ==
    IF b.result = <<>> THEN <<>>
    ELSE LET r == b.result[1]
         IN  r.artifact \o r.message \o (IF "status" \in fields THEN r.status ELSE <<>>)

PlainOutcome(b) ==
    CASE b.error = "client" -> "final"
      [] b.error = "other" -> "retry"
      [] OTHER -> LET parts == Parts(b, {"status"})
                  IN  IF parts = <<>> THEN "retry" ELSE Verdict(parts[1])

StreamOutcome_NoMessage(data) ==
    IF data \in {<<>>, <<Bare(<<>>)>>} THEN "final"
    ELSE LET artifact == IF data[1].result = <<>> THEN <<>> ELSE data[1].result[1].artifact
             texts == artifact \o data[1].bare \o <<<<"envelope">>>>
         IN  Verdict(texts[1])

\* The last data of a stream, if any: the text of its artifact or message, or else
\* the data as it stands, whatever it says.
StreamOutcome(data) ==
    IF data \in {<<>>, <<Bare(<<>>)>>} THEN "final"
    ELSE LET texts == Parts(data[1], {}) \o data[1].bare \o <<<<"envelope">>>>
         IN  Verdict(texts[1])

-----------------------------------------------------------------------------
(* The activity.                                                              *)

Return(o) == pc' = "returned" /\ outcome' = o

\* No answer, 429, 5xx and any other status are retried; 401, 403 and 400 are not.
\* A 200 is read as its content type says.
Answer ==
    /\ pc = "requested"
    /\ \/ \E o \in {"retry", "final"} : Return(o)
       \/ pc' \in {"plain", "stream"} /\ UNCHANGED outcome
    /\ UNCHANGED last

ReadJSONRPCResponse ==
    /\ pc = "plain"
    /\ \E b \in Bodies \cup {Artifact(t) : t \in Texts} :
          /\ last' = <<b>>
          /\ Return(PlainOutcome(b))

ReadEvent ==
    /\ pc = "stream"
    /\ \E b \in Bodies : last' = <<b>>
    /\ UNCHANGED <<pc, outcome>>

\* The stream ends; whoever ended it, its last event is the answer.
EndOfStream ==
    /\ pc = "stream"
    /\ Return(StreamOutcome(last))
    /\ UNCHANGED last

\* The connection breaks, or a line is longer than the scanner's buffer.
StreamBreaks ==
    /\ pc = "stream"
    /\ Return("retry")
    /\ last' = <<>>

Init == pc = "requested" /\ last = <<>> /\ outcome = "none"

Next == Answer \/ ReadJSONRPCResponse \/ ReadEvent \/ EndOfStream \/ StreamBreaks

Spec == Init /\ [][Next]_vars

-----------------------------------------------------------------------------
TypeOK ==
    /\ pc \in {"requested", "plain", "stream", "returned"}
    /\ Len(last) <= 1
    /\ outcome \in Outcomes \cup {"none"}
    /\ (outcome # "none") <=> (pc = "returned")

\* The text, if any, that the activity found in an error-free response.
AgentTexts ==
    IF pc = "returned" /\ last # <<>> /\ last[1].error = "none" /\ Parts(last[1], {}) # <<>>
    THEN {Parts(last[1], {})[1]} ELSE {}

\* One report, and no brace besides the report's own.
HoldsReport(t) ==
    \E i \in Where(t, {"report", "mixed"}) : Where(t, Opens \cup Closes) = {i}

\* What follows the last object of a text.
After(t) == {t[i] : i \in Max(Where(t, Objects)) + 1..Len(t)}

\* One report in the agent's text becomes the diagnosis behind whatever prose, line
\* breaks and stray fences; behind prose also in a fence, and before more prose.
ReportFound ==
    \A t \in AgentTexts :
        (/\ HoldsReport(t)
         /\ \/ After(t) \subseteq {"newline"}
            \/ /\ ~StartsObject(TrimSpace(t))
               /\ After(t) \subseteq {"newline", "fence"} \/ Where(t, {"fence"}) = {})
          => outcome = "diagnosis"

\* The same error-free response with a text in its artifact or message gives the
\* same outcome whether it comes plain or as the end of a stream.
TransportsAgree ==
    AgentTexts # {} => outcome = PlainOutcome(last[1]) /\ outcome = StreamOutcome(last)
=============================================================================
