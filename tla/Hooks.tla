-------------------------------- MODULE Hooks --------------------------------
(***************************************************************************)
(* The two contracts by which a hook's payload becomes an event: Claude    *)
(* Code's, and that of the OpenCode bridge.  The process takes the         *)
(* contract from its environment, the kind of event from its command line  *)
(* and everything else from the JSON document on its standard input.       *)
(*                                                                         *)
(* A document is a function from the names of its members to values.  A    *)
(* value is a text, or one of the values below; what a text says matters   *)
(* for the name of the event only.                                         *)
(***************************************************************************)
EXTENDS Integers, Sequences, FiniteSetsExt, SequencesExt

CONSTANTS
  InputLimit,      \* bytes of standard input that are kept
  MaxExtensions    \* unknown members that are kept

ASSUME HooksAssumption == {InputLimit, MaxExtensions} \subseteq Nat

Adapter == {"claude", "opencode"}

\* HookEventKind::ALL.
HookEventKind ==
  {"session-start", "user-prompt-submit", "pre-tool-use", "post-tool-use",
   "post-tool-use-failure", "stop", "session-end"}

\* Values that are no text: null, a number or an object without fractions, and
\* a number or an object with a fraction in it.
NullValue == "null"
Structure == "structure"
Fraction  == "fraction"

NoText == {NullValue, Structure, Fraction}

\* What runs into the process: the document, whether it is JSON, its length,
\* and the blanks after it.
InputType(Names, Values) ==
  [json : BOOLEAN, document : UNION {[D -> Values] : D \in SUBSET Names},
   bytes : Nat, blanks : Nat]

-----------------------------------------------------------------------------

\* A failed tool call is told by its error member, not by the event's name.
ClaudeEventName(kind) ==
  CASE kind = "session-start"      -> "SessionStart"
    [] kind = "user-prompt-submit" -> "UserPromptSubmit"
    [] kind = "pre-tool-use"       -> "PreToolUse"
    [] kind = "stop"               -> "Stop"
    [] kind = "session-end"        -> "SessionEnd"
    [] OTHER                       -> "PostToolUse"

OpencodeEventName(kind) ==
  CASE kind = "session-start"      -> "session.created"
    [] kind = "user-prompt-submit" -> "user.prompt"
    [] kind = "pre-tool-use"       -> "tool.execute.before"
    [] kind = "stop"               -> "session.idle"
    [] kind = "session-end"        -> "session.ended"
    [] OTHER                       -> "tool.execute.after"

EventName(adapter, kind) ==
  IF adapter = "claude" THEN ClaudeEventName(kind) ELSE OpencodeEventName(kind)

NameMember(adapter) == IF adapter = "claude" THEN "hook_event_name" ELSE "event"
CwdMember(adapter)  == IF adapter = "claude" THEN "cwd" ELSE "directory"

ClaudeKnownFields ==
  {"session_id", "transcript_path", "cwd", "hook_event_name", "permission_mode",
   "source", "prompt", "tool_name", "tool_input", "tool_response", "error",
   "stop_hook_active", "reason"}

OpencodeKnownFields ==
  {"session_id", "directory", "event", "source", "prompt", "tool_name",
   "tool_input", "tool_response", "error", "reason"}

KnownFields(adapter) ==
  IF adapter = "claude" THEN ClaudeKnownFields ELSE OpencodeKnownFields

-----------------------------------------------------------------------------
(* What each contract demands of a member, in the order it is looked at.   *)

Text(name)     == [member |-> name, demand |-> "text"]
Optional(name) == [member |-> name, demand |-> "optional"]
Given(name)    == [member |-> name, demand |-> "given"]

\* build_payload; stop_hook_active is false unless it is a true boolean.
PayloadDemands(kind) ==
  CASE kind = "session-start"      -> <<Optional("source")>>
    [] kind = "user-prompt-submit" -> <<Text("prompt")>>
    [] kind = "pre-tool-use"       -> <<Text("tool_name"), Given("tool_input")>>
    [] kind = "stop"               -> <<>>
    [] kind = "session-end"        -> <<Optional("reason")>>
    [] OTHER -> <<Text("tool_name"), Given("tool_input"), Given("tool_response"),
                  Optional("error")>>

Demands(adapter, kind) ==
  <<Text(NameMember(adapter)),
    [member |-> NameMember(adapter), demand |-> EventName(adapter, kind)],
    Text("session_id"), Text(CwdMember(adapter))>>
    \o (IF adapter = "claude" THEN <<Optional("transcript_path")>> ELSE <<>>)
    \o PayloadDemands(kind)

Member(document, name) ==
  IF name \in DOMAIN document THEN document[name] ELSE NullValue

\* string_field, optional_string_field, redact_json and the comparison of the
\* event's name; canonical JSON has no fractions.
FaultOf(document, d) ==
  LET value == Member(document, d.member)
  IN  CASE d.demand = "text" ->
             IF value = NullValue THEN "hook_missing_field"
             ELSE IF value \in NoText THEN "hook_field_type" ELSE "none"
        [] d.demand = "optional" ->
             IF value \in NoText \ {NullValue} THEN "hook_field_type" ELSE "none"
        [] d.demand = "given" ->
             IF d.member \notin DOMAIN document THEN "hook_missing_field"
             ELSE IF value = Fraction THEN "canonical_non_integer_number" ELSE "none"
        [] OTHER -> IF value = d.demand THEN "none" ELSE "hook_event_mismatch"

\* What is kept of the input parses if only blanks were cut off.
Parses(input) == input.json /\ input.bytes <= InputLimit

\* The code of the first check that fails.
Fault(adapter, kind, input) ==
  LET demands == Demands(adapter, kind)
      failed  == {i \in DOMAIN demands : FaultOf(input.document, demands[i]) # "none"}
  IN  IF ~Parses(input) THEN "hook_malformed_json"
      ELSE IF failed = {} THEN "none"
      ELSE FaultOf(input.document, demands[Min(failed)])

\* normalize, for an input without fault.  Unknown members beyond the limit are
\* left out; they are no part of what the event means.
Normalized(adapter, kind, document) ==
  [adapter    |-> adapter,
   kind       |-> kind,
   session    |-> document["session_id"],
   tool       |-> IF \E i \in DOMAIN PayloadDemands(kind) :
                       PayloadDemands(kind)[i] = Text("tool_name")
                  THEN document["tool_name"] ELSE "none",
   failed     |-> /\ kind \in {"post-tool-use", "post-tool-use-failure"}
                  /\ Member(document, "error") # NullValue,
   extensions |-> LET unknown == SetToSeq(DOMAIN document \ KnownFields(adapter))
                  IN  {unknown[i] : i \in DOMAIN unknown \cap 1..MaxExtensions}]
=============================================================================
