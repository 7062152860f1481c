------------------------------ MODULE MCCorpus ------------------------------
(***************************************************************************)
(* Five scenarios, of which a behaviour keeps one, because the parts of    *)
(* the evidence meet in the rows only: one session with the events of      *)
(* turns and a clock that is set back, with and without deaths; three      *)
(* sessions that may have the same content; what hooks are given; the      *)
(* transcripts; a text.                                                    *)
(***************************************************************************)
EXTENDS Corpus

CONSTANTS s1, s2, s3, f1, f2, f3, nothing

MCSession    == {s1, s2, s3}
MCOrder      == s1 :> 2 @@ s2 :> 1 @@ s3 :> 3
MCTranscript == {f1, f2, f3}
MCPathOrder  == f1 :> 1 @@ f2 :> 2 @@ f3 :> 3

\* What Claude Code and the bridge write for an event.
Common(adapter, kind) ==
     NameMember(adapter) :> EventName(adapter, kind)
  @@ "session_id" :> "id"
  @@ CwdMember(adapter) :> "path"

Tool(name) == "tool_name" :> name @@ "tool_input" :> Structure

Of(adapter, kind, members, size, prompt) ==
  [adapter |-> adapter, kind |-> kind, size |-> size, prompt |-> prompt,
   input |-> [json |-> TRUE, document |-> members @@ Common(adapter, kind),
              bytes |-> 1, blanks |-> 0]]

Prompt(said) == Of("claude", "user-prompt-submit", "prompt" :> said, 2, said)

None == [x \in {} |-> NullValue]

MCInputs ==
  <<Prompt("fix"),
    Prompt("add"),
    Of("claude", "stop", "stop_hook_active" :> Fraction, 1, ""),
    Of("claude", "pre-tool-use", Tool("Bash"), 1, ""),
    Of("claude", "session-end", None, 1, ""),
    \* 6: the same prompt, of a session of OpenCode
    Of("opencode", "user-prompt-submit", "prompt" :> "fix", 2, "fix"),
    Of("opencode", "session-end", "reason" :> NullValue, 1, ""),
    Of("claude", "session-start", "source" :> "startup" @@ "new" :> Structure, 1, ""),
    Of("claude", "post-tool-use", Tool("Bash") @@ "tool_response" :> NullValue, 1, ""),
    Of("claude", "post-tool-use-failure",
       Tool("Edit") @@ "tool_response" :> Structure @@ "error" :> "failed", 1, ""),
    \* 11: Claude Code's document under the contract of the bridge
    [Of("claude", "session-end", None, 1, "") EXCEPT !.adapter = "opencode"],
    Of("claude", "pre-tool-use", "tool_name" :> "Bash" @@ "tool_input" :> Fraction, 1, ""),
    Of("claude", "pre-tool-use", "tool_name" :> "Bash", 1, ""),
    Of("claude", "user-prompt-submit", "prompt" :> Structure, 1, ""),
    [Prompt("fix") EXCEPT !.input.bytes = 9],
    [Prompt("fix") EXCEPT !.kind = "stop"]>>

Sessions(sessions, inputs, n, elapsed, dies) ==
  [sessions |-> sessions, inputs |-> inputs, hooks |-> n, elapsed |-> elapsed,
   commits |-> 0, deaths |-> dies, damages |-> 0, statuses |-> {}, typing |-> 0,
   imports |-> FALSE]

Nobody == Sessions({}, {}, 0, {}, 0)

MCScenario ==
  {Sessions({s1}, {1, 3, 5}, 5, {0, 1}, 0),
   Sessions({s1}, {1, 3, 4, 5}, 4, {-1, 1}, 1),
   Sessions({s1}, 7..16, 3, {0}, 0),
   [Sessions({s1, s2, s3}, {1, 2, 5}, 4, {0}, 0)
      EXCEPT !.statuses = {"accepted", "unknown"}],
   [Sessions({s1, s2}, {1, 5, 6, 7}, 3, {0}, 1)
      EXCEPT !.statuses = {"accepted"}, !.commits = 1, !.damages = 1],
   [Nobody EXCEPT !.imports = TRUE],
   [Nobody EXCEPT !.typing = 5]}

Record(type, cwd, version, id) ==
  [form |-> "object", type |-> type, sidechain |-> FALSE, cwd |-> cwd,
   version |-> version, id |-> id]

MCRecords ==
  {Record("assistant", "inside", "2.1.0", "one"),
   Record("user", "inside", "2.1.1", "one"),
   Record("user", "elsewhere", "2.1.0", ""),
   Record("assistant", "", "", "two"),
   Record("other", "", "1.0.0", ""),
   [Record("meta", "", "", "") EXCEPT !.sidechain = TRUE],
   [Record("meta", "", "", "") EXCEPT !.form = "garbage"],
   [Record("meta", "", "", "") EXCEPT !.form = "long"]}

MCMarker == <<"#">>
MCAlias  == <<"~", "~">>
=============================================================================
