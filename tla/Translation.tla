---------------------------- MODULE Translation -----------------------------
(***************************************************************************)
(* The conversion of answers between the two protocols                     *)
(* (internal/adapter/translate.go): a whole answer at once, and a stream   *)
(* frame by frame.                                                         *)
(*                                                                         *)
(* An event is what one part of a frame says.  OpenAI: role, text, list    *)
(* (content that is an array of text parts), reasoning, tool (a call with  *)
(* its ID), args (a piece of the arguments of call i), finish, done.       *)
(* Anthropic: message_start, start, delta and stop of block i,             *)
(* message_delta, message_stop.  A frame is a sequence of events: an       *)
(* OpenAI chunk may have several.                                          *)
(*                                                                         *)
(* Abstracted: pieces of text, reasoning and arguments are numbered;       *)
(* identifiers, models and token counts are left out; "text" stands for    *)
(* content and for a refusal, which are translated alike; blocks count     *)
(* from 1.                                                                 *)
(***************************************************************************)
EXTENDS Absence, Integers, Sequences

CONSTANT Objects  \* the pieces of arguments that together are a JSON object

\* No arguments at all are not an object.
ASSUME ObjectsAssumption == <<>> \notin Objects

Ev(e, i, b, n) == [e |-> e, i |-> i, b |-> b, n |-> n]

\* The map f with key i set to v.
Assign(f, i, v) == [j \in DOMAIN f \cup {i} |-> IF j = i THEN v ELSE f[j]]

-----------------------------------------------------------------------------
(* Messages: what a reader of a stream puts together.                      *)

NoMessage ==
    [text |-> <<>>, full |-> <<>>, reasoning |-> <<>>, calls |-> <<>>, reason |-> None, ended |-> FALSE,
     block |-> <<>>, open |-> 0, last |-> 0, dropped |-> FALSE, resumed |-> FALSE,
     malformed |-> FALSE, stray |-> FALSE]

\* The last part belonged to call "last", or to none; a call is resumed if another
\* part came in between.  "full" is the text with that of arrays.
addText(m, n) == [m EXCEPT !.text = Append(@, n), !.full = Append(@, n), !.last = 0]
addList(m, n) == [m EXCEPT !.full = Append(@, n)]
addReasoning(m, n) == [m EXCEPT !.reasoning = Append(@, n)]
addCall(m, id) ==
    [m EXCEPT !.calls = Append(@, [id |-> id, args |-> <<>>]), !.last = Len(m.calls) + 1]
addArgs(m, c, n) ==
    IF c \notin DOMAIN m.calls THEN m
    ELSE [m EXCEPT !.calls[c].args = Append(@, n), !.last = c, !.resumed = @ \/ m.last # c]

\* Malformed: a block is opened out of order or while another is open, text is
\* put outside its block, or the message ends with an open block.  Stray: a piece
\* of arguments, or a stop, for a block that is not open.
openBlock(m, v) ==
    LET x == IF v.b = "tool_use" THEN addCall(m, v.n) ELSE m
    IN  [x EXCEPT !.block = Append(@, [type |-> v.b, call |-> Len(x.calls)]),
                  !.open = v.i,
                  !.dropped = @ \/ v.b = "server_tool_use",
                  !.malformed = @ \/ m.open # 0 \/ v.i # Len(m.block) + 1]

addDelta(m, v) ==
    LET x == CASE v.b = "text"     -> addText(m, v.n)
               [] v.b = "thinking" -> addReasoning(m, v.n)
               [] v.b = "json" /\ v.i \in DOMAIN m.block /\ m.block[v.i].type = "tool_use"
                                   -> addArgs(m, m.block[v.i].call, v.n)
               [] OTHER            -> m
    IN  [x EXCEPT !.malformed = @ \/ (v.b # "json" /\ v.i # m.open),
                  !.stray = @ \/ v.i # m.open]

Absorb(m, v) ==
    CASE v.e = "text"      -> addText(m, v.n)
      [] v.e = "list"      -> addList(m, v.n)
      [] v.e = "reasoning" -> addReasoning(m, v.n)
      [] v.e = "tool"      -> addCall(m, v.n)
      [] v.e = "args"      -> addArgs(m, v.i, v.n)
      [] v.e = "start"     -> openBlock(m, v)
      [] v.e = "delta"     -> addDelta(m, v)
      [] v.e = "stop"      -> [m EXCEPT !.open = 0, !.stray = @ \/ v.i # m.open]
      [] v.e \in {"finish", "message_delta"} -> [m EXCEPT !.reason = IF v.b = None THEN @ ELSE v.b]
      [] v.e \in {"done", "message_stop"}    -> [m EXCEPT !.ended = TRUE, !.malformed = @ \/ m.open # 0]
      [] OTHER             -> m

AbsorbAll(m, events) ==
    LET after[n \in 0 .. Len(events)] == IF n = 0 THEN m ELSE Absorb(after[n - 1], events[n])
    IN  after[Len(events)]

\* What a message says, whatever its protocol.
Content(m) == [text |-> m.text, reasoning |-> m.reasoning, calls |-> m.calls, reason |-> m.reason]

-----------------------------------------------------------------------------
(* Whole answers.                                                          *)

\* translateOpenAIStopReason, translateAnthropicStopReason; None if there is no
\* equivalent.
StopReason(r) ==
    CASE r = None         -> "end_turn"
      [] r = "stop"       -> "end_turn"
      [] r = "length"     -> "max_tokens"
      [] r = "tool_calls" -> "tool_use"
      [] OTHER            -> None

FinishReason(r) ==
    CASE r = None         -> "stop"
      [] r \in {"end_turn", "stop_sequence", "refusal"} -> "stop"
      [] r = "max_tokens" -> "length"
      [] r = "tool_use"   -> "tool_calls"
      [] OTHER            -> None

Visible(m) == m.full # <<>> \/ m.calls # <<>>

\* The answer has no meaning in the other protocol: reasoning alone for
\* Anthropic, hosted tools alone for OpenAI, an unknown reason to stop.
UnrepresentableOpenAI(m) ==
    \/ m.reasoning # <<>> /\ ~Visible(m)
    \/ StopReason(m.reason) = None

UnrepresentableAnthropic(m) ==
    \/ m.dropped /\ ~Visible(m) /\ m.reasoning = <<>>
    \/ FinishReason(m.reason) = None

Unrepresentable(provider, m) ==
    IF provider = "openai" THEN UnrepresentableOpenAI(m) ELSE UnrepresentableAnthropic(m)

Empty(provider, m) == ~Visible(m) /\ (provider = "openai" \/ m.reasoning = <<>>)

\* The parts of an answer as they came.  Anthropic has no place for the reasoning
\* of an OpenAI answer.
Passed(provider, m) ==
    IF provider = "openai" THEN [Content(m) EXCEPT !.reasoning = <<>>, !.reason = StopReason(@)]
    ELSE [Content(m) EXCEPT !.reason = FinishReason(@)]

\* A whole answer, or None if it is refused: an empty or an unrepresentable one,
\* and one with a call whose arguments are not an object.
translateOpenAIResponse(m) ==
    IF \/ Empty("openai", m) \/ Unrepresentable("openai", m)
       \/ \E i \in DOMAIN m.calls : m.calls[i].args \notin Objects
      THEN None
      ELSE [Passed("openai", m) EXCEPT !.text = m.full]

\* A call that got no pieces has the input it began with, the object {}, which is
\* piece 0.
translateAnthropicResponse(m) ==
    IF \/ Empty("anthropic", m) \/ Unrepresentable("anthropic", m)
       \/ \E i \in DOMAIN m.calls : m.calls[i].args \notin Objects \cup {<<>>}
      THEN None
      ELSE [Passed("anthropic", m) EXCEPT !.calls =
              [i \in DOMAIN m.calls |-> IF m.calls[i].args = <<>> THEN [m.calls[i] EXCEPT !.args = <<0>>]
                                        ELSE m.calls[i]]]

TranslateResponse(provider, m) ==
    IF provider = "openai" THEN translateOpenAIResponse(m) ELSE translateAnthropicResponse(m)

\* The answers a stream and a whole answer are to say alike.  A stream passes on
\* what a whole answer is refused for, and leaves out text in arrays and the {}
\* of a call without pieces.
Alike(provider, m) ==
    /\ ~Empty(provider, m) /\ m.full = m.text
    /\ \A i \in DOMAIN m.calls : m.calls[i].args \in Objects

-----------------------------------------------------------------------------
(* openAIStreamTranslator: OpenAI frames to Anthropic events.  s is its    *)
(* state t, the output so far and whether the frame is invalid.            *)

NewOpenAI ==
    [started |-> FALSE, finished |-> FALSE, reason |-> None, next |-> 1, active |-> None,
     index |-> 0, tools |-> <<>>, sawReasoning |-> FALSE, sawVisible |-> FALSE]

emits(s, v) == [s EXCEPT !.out = Append(@, v)]

stopActiveBlockSilently(s) == [s EXCEPT !.t.active = None]

stopActiveBlock(s) ==
    IF s.t.active = None THEN s
    ELSE emits([s EXCEPT !.t.active = None], Ev("stop", s.t.index, None, 0))

startBlock(s, type, id) ==
    LET x == stopActiveBlock(s)
        i == s.t.next
    IN  IF type = "text" /\ s.t.active = "text" THEN s
        ELSE emits([x EXCEPT !.t.active = type, !.t.index = i, !.t.next = i + 1],
                   Ev("start", i, type, id))

textPart(s, p) ==
    LET x == startBlock(s, "text", 0)
    IN  emits([x EXCEPT !.t.sawVisible = TRUE], Ev("delta", x.t.index, "text", p.n))

\* A call seen before becomes the active block again, without a new start.
toolBlock(s, p) ==
    LET x == startBlock(s, "tool_use", p.n)
        y == stopActiveBlock(s)
        i == s.t.tools[p.i]
    IN  IF p.i \notin DOMAIN s.t.tools
          THEN IF p.e = "args" THEN [s EXCEPT !.bad = TRUE]
               ELSE [x EXCEPT !.t.tools = Assign(@, p.i, x.t.index)]
        ELSE IF s.t.active = "tool_use" /\ s.t.index = i THEN s
        ELSE [y EXCEPT !.t.active = "tool_use", !.t.index = i]

toolPartToNewest(s, p) ==
    LET x == toolBlock([s EXCEPT !.t.sawVisible = TRUE], p)
    IN  IF x.bad \/ p.e = "tool" THEN x ELSE emits(x, Ev("delta", x.t.next - 1, "json", p.n))

toolPart(s, p) ==
    LET x == toolBlock([s EXCEPT !.t.sawVisible = TRUE], p)
    IN  IF x.bad \/ p.e = "tool" THEN x ELSE emits(x, Ev("delta", x.t.index, "json", p.n))

\* streamText knows strings only: an array is dropped.
openAIPart(s, p) ==
    IF s.bad THEN s
    ELSE CASE p.e = "reasoning" -> [s EXCEPT !.t.sawReasoning = TRUE]
           [] p.e = "text"      -> textPart(s, p)
           [] p.e \in {"tool", "args"} -> toolPart(s, p)
           [] p.e = "finish"    -> [s EXCEPT !.t.finished = TRUE, !.t.reason = p.b]
           [] OTHER             -> s

OpenAIFrame(t, parts) ==
    LET s == [t |-> [t EXCEPT !.started = TRUE], bad |-> FALSE,
              out |-> IF t.started THEN <<>> ELSE <<Ev("message_start", 0, None, 0)>>]
        after[n \in 0 .. Len(parts)] == IF n = 0 THEN s ELSE openAIPart(after[n - 1], parts[n])
    IN  after[Len(parts)]

OpenAITerminal(t) ==
    LET s == stopActiveBlock([t |-> t, out |-> <<>>, bad |-> FALSE])
    IN  IF \/ ~t.started \/ ~t.finished
           \/ t.sawReasoning /\ ~t.sawVisible
           \/ StopReason(t.reason) = None
          THEN [s EXCEPT !.bad = TRUE]
          ELSE emits(emits(s, Ev("message_delta", 0, StopReason(t.reason), 0)),
                     Ev("message_stop", 0, None, 0))

-----------------------------------------------------------------------------
(* anthropicStreamTranslator: Anthropic frames to OpenAI events.           *)

NewAnthropic ==
    [tools |-> <<>>, serverTools |-> {}, nextTool |-> 1,
     sawVisible |-> FALSE, sawReasoning |-> FALSE, sawDropped |-> FALSE]

blockStart(s, v) ==
    IF v.b = "tool_use"
      THEN emits([s EXCEPT !.t.sawVisible = TRUE, !.t.nextTool = @ + 1,
                           !.t.tools = Assign(@, v.i, s.t.nextTool)],
                 Ev("tool", s.t.nextTool, None, v.n))
      ELSE IF v.b = "server_tool_use"
      THEN [s EXCEPT !.t.serverTools = @ \cup {v.i}, !.t.sawDropped = TRUE]
      ELSE s

\* Arguments of a hosted tool are dropped with it.
jsonDelta(s, v) ==
    IF v.i \in s.t.serverTools THEN s
    ELSE IF v.i \in DOMAIN s.t.tools THEN emits(s, Ev("args", s.t.tools[v.i], None, v.n))
    ELSE [s EXCEPT !.bad = TRUE]

blockDelta(s, v) ==
    CASE v.b = "text"     -> emits([s EXCEPT !.t.sawVisible = TRUE], Ev("text", 0, None, v.n))
      [] v.b = "thinking" -> emits([s EXCEPT !.t.sawReasoning = TRUE], Ev("reasoning", 0, None, v.n))
      [] v.b = "json"     -> jsonDelta(s, v)
      [] OTHER            -> [s EXCEPT !.t.sawDropped = TRUE]

\* A delta without reason to stop is translated to "stop".
messageDelta(s, v) ==
    IF FinishReason(v.b) = None THEN [s EXCEPT !.bad = TRUE]
    ELSE emits(s, Ev("finish", 0, FinishReason(v.b), 0))

AnthropicFrame(t, parts) ==
    LET s == [t |-> t, out |-> <<>>, bad |-> FALSE]
        v == parts[1]
    IN  CASE v.e = "message_start" -> emits(s, Ev("role", 0, None, 0))
          [] v.e = "start"         -> blockStart(s, v)
          [] v.e = "delta"         -> blockDelta(s, v)
          [] v.e = "message_delta" -> messageDelta(s, v)
          [] OTHER                 -> s

AnthropicTerminal(t) ==
    [t |-> t, out |-> <<Ev("done", 0, None, 0)>>,
     bad |-> t.sawDropped /\ ~t.sawVisible /\ ~t.sawReasoning]

=============================================================================
