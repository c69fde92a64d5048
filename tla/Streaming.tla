----------------------------- MODULE Streaming ------------------------------
(***************************************************************************)
(* One streamed call: the provider's frames are read and validated         *)
(* (internal/adapter/stream.go) under an idle timer (stream_timeout.go),   *)
(* translated (module Translation) and passed on, except that whatever     *)
(* tells the client that its turn is complete is held back, with all that  *)
(* follows, until the audit of the request is committed (client.go,        *)
(* gateway.go).                                                            *)
(*                                                                         *)
(* The timer's callback, the handler and the client act concurrently: a    *)
(* callback may have been started when the read it was meant for makes     *)
(* progress.                                                               *)
(*                                                                         *)
(* Abstracted: a read returns one frame, and the byte limits count frames. *)
(* A read without bytes changes nothing.  An explicit upstream timeout,    *)
(* which replaces the idle timer, is not modelled.  Anthropic frames name  *)
(* their event.                                                            *)
(***************************************************************************)
EXTENDS Translation, FiniteSets

CONSTANTS
    Pairs,         \* pairs of a provider's and a client's protocol
    Calls,         \* bound on tool calls of an answer
    Blocks,        \* bound on blocks of an Anthropic answer
    Reasons,       \* per protocol, the reasons to stop a provider gives
    StreamBytes,   \* Limits.StreamBytes
    Lag            \* bound on the reads that return while a callback waits for the lock

ASSUME StreamingAssumptions ==
    /\ Pairs \subseteq {"openai", "anthropic"} \X {"openai", "anthropic"}
    /\ Calls \in Nat /\ Blocks \in Nat /\ StreamBytes \in Nat \ {0} /\ Lag \in Nat
    /\ \A p \in {"openai", "anthropic"} : None \notin Reasons[p]
    /\ None \notin {"deadline", "client", "closed", "text", "tool_use", "end_turn", "max_tokens",
                    "stop", "length", "tool_calls"}

VARIABLES
    pair,
    phase,      \* headers, read, got, audit, reply, done
    frame,      \* what the read returned
    sent,       \* history: the message the provider has sent
    reader,     \* started, finished and total of readStreamWithLimits
    tr,         \* state of the translator
    held, rest, \* completion, and the terminal frames
    failed,     \* the attempt or its audit failed
    delivered,  \* the client may have seen a part of the answer
    audited,
    client,     \* the message the client has received
    told,       \* the client was told of an error
    gone,       \* the client has left
    timer, generation, \* streamIdleTimer; 0: no timer
    due,        \* callbacks that were started and have not run
    cause       \* why the context of the attempt was cancelled, or None

timerVars == <<timer, generation, due, cause>>
readVars == <<frame, sent, reader, tr, held, rest>>
replyVars == <<delivered, audited, client, told, gone>>
streamVars == <<pair, phase, readVars, failed, replyVars, timerVars>>

provider == pair[1]
protocol == pair[2]
translated == provider # protocol

NoFrame == [kind |-> "none", parts |-> <<>>]
NewReader == [started |-> FALSE, finished |-> FALSE, total |-> 0]
NewTranslator == IF provider = "openai" THEN NewOpenAI ELSE NewAnthropic

StreamInit ==
    /\ pair \in Pairs
    /\ phase = "headers" /\ frame = NoFrame
    /\ sent = NoMessage /\ client = NoMessage
    /\ reader = NewReader /\ tr = NewTranslator
    /\ held = <<>> /\ rest = <<>> /\ failed = FALSE
    /\ delivered = FALSE /\ audited = FALSE /\ told = FALSE /\ gone = FALSE
    /\ timer = 1 /\ generation = 1 /\ due = {} /\ cause = None

-----------------------------------------------------------------------------
(* The idle timer.                                                         *)

AwaitsUpstream == phase \in {"headers", "read", "got"}

\* Which wait of the call this is: for the header, or for a frame.
WaitNumber == IF phase = "headers" \/ frame.kind = "refused" THEN 0 ELSE reader.total + 1

\* The timer expires and its callback waits for the lock.  At most one does.
Expire ==
    /\ timer # 0 /\ due = {} /\ cause = None
    /\ due' = {[generation |-> timer, wait |-> WaitNumber]}
    /\ UNCHANGED <<pair, phase, readVars, failed, replyVars, timer, generation, cause>>

cancel(why) == cause' = IF cause = None THEN why ELSE cause

Callback(d) ==
    /\ d \in due
    /\ due' = due \ {d}
    /\ IF d.generation = generation THEN cancel("deadline") ELSE UNCHANGED cause
    /\ UNCHANGED <<pair, phase, readVars, failed, replyVars, timer, generation>>

stopKeepsGeneration(again) ==
    /\ generation' = generation
    /\ timer' = IF again THEN generation ELSE 0

stopKeepsTimer(again) ==
    /\ generation' = generation + 1
    /\ timer' = timer

\* stop after a read, and start if the handler reads again.
stop(again) ==
    /\ generation' = generation + (IF again THEN 2 ELSE 1)
    /\ timer' = IF again THEN generation + 2 ELSE 0

-----------------------------------------------------------------------------
(* The provider.                                                           *)

Text == Ev("text", 0, None, Len(sent.full) + 1)
Finish(r) == Ev("finish", 0, r, 0)
Args(i) == Ev("args", i, None, IF i \in DOMAIN sent.calls THEN Len(sent.calls[i].args) + 1 ELSE 1)

\* Calls are numbered in the order they begin, and may take turns; arguments of
\* a call that has not begun may come.  The role comes first or not at all.
OpenAIFrames ==
    {<<Text>>, <<Ev("list", 0, None, Len(sent.full) + 1)>>, <<Ev("reasoning", 0, None, Len(sent.reasoning) + 1)>>}
    \cup (IF reader.started THEN {} ELSE {<<Ev("role", 0, None, 0)>>})
    \cup {<<Ev("tool", i, None, i)>> : i \in {Len(sent.calls) + 1} \cap 1 .. Calls}
    \cup {<<Args(i)>> : i \in (1 .. Len(sent.calls) + 1) \cap 1 .. Calls}
    \cup {<<Finish(r)>> : r \in Reasons["openai"]} \cup {<<Text, Finish("length")>>}

Delta(i, b) ==
    Ev("delta", i, b, CASE b = "text"     -> Len(sent.full) + 1
                        [] b = "thinking" -> Len(sent.reasoning) + 1
                        [] OTHER          -> IF i \in DOMAIN sent.block /\ sent.block[i].call # 0
                                             THEN Len(sent.calls[sent.block[i].call].args) + 1 ELSE 1)

\* The kinds of delta a block of this type has.
DeltasOf(type) ==
    CASE type = "text"     -> {"text", "other"}
      [] type = "thinking" -> {"thinking"}
      [] OTHER             -> {"json"}

\* Blocks come one after the other; a reason, once given, is repeated.
AnthropicFrames ==
    {<<Ev("message_start", 0, None, 0)>>}
    \cup {<<Ev("start", i, b, IF b = "tool_use" THEN Len(sent.calls) + 1 ELSE 0)>> :
            i \in IF sent.open = 0 THEN {Len(sent.block) + 1} \cap 1 .. Blocks ELSE {},
            b \in {"text", "thinking", "server_tool_use"} \cup (IF Len(sent.calls) < Calls THEN {"tool_use"} ELSE {})}
    \cup {<<Delta(sent.open, b)>> : b \in IF sent.open = 0 THEN {"json"} ELSE DeltasOf(sent.block[sent.open].type)}
    \cup {<<Ev("stop", i, None, 0)>> : i \in {sent.open} \ {0}}
    \cup {<<Ev("message_delta", 0, r, 0)>> :
            r \in Reasons["anthropic"] \cup (IF sent.reason = None THEN {None} ELSE {})}

\* A comment stands for a ping too.
Frames ==
    {[kind |-> "comment", parts |-> <<>>]}
    \cup {[kind |-> "data", parts |-> p] : p \in IF provider = "openai" THEN OpenAIFrames ELSE AnthropicFrames}
    \cup {[kind |-> "terminal", parts |-> <<Ev(IF provider = "openai" THEN "done" ELSE "message_stop", 0, None, 0)>>]}

\* The response's header arrives.
Headers ==
    /\ phase = "headers" /\ cause = None
    /\ phase' = "read"
    /\ stop(TRUE)
    /\ UNCHANGED <<pair, readVars, failed, replyVars, due, cause>>

\* A read returns, before the timer is stopped.
Arrive ==
    /\ phase = "read" /\ cause = None /\ reader.total <= StreamBytes
    /\ \A d \in due : WaitNumber <= d.wait + Lag
    /\ \E f \in Frames :
          /\ frame' = f
          /\ sent' = AbsorbAll(sent, f.parts)
    /\ phase' = "got"
    /\ UNCHANGED <<pair, reader, tr, held, rest, failed, replyVars, timerVars>>

\* An error or no legal answer arrives, the stream ends or breaks off, or the
\* context is cancelled.
Break ==
    /\ phase \in {"headers", "read"}
    /\ phase' = "got"
    /\ frame' = [kind |-> IF phase = "headers" THEN "refused" ELSE "broken", parts |-> <<>>]
    /\ UNCHANGED <<pair, sent, reader, tr, held, rest, failed, replyVars, timerVars>>

-----------------------------------------------------------------------------
(* The handler.                                                            *)

Has(parts, e) == \E i \in DOMAIN parts : parts[i].e = e

Starts == IF provider = "openai" THEN frame.parts # <<>> ELSE Has(frame.parts, "message_start")

Finishes == \E i \in DOMAIN frame.parts :
               frame.parts[i].e \in {"finish", "message_delta"} /\ frame.parts[i].b # None

WholeAssumed == TRUE

\* The terminal marker is believed only at the end of a whole stream.
Whole == reader.started /\ reader.finished

\* readStreamWithLimits rejects the frame.
Rejected ==
    \/ reader.total + 1 > StreamBytes
    \/ frame.kind \in {"broken", "refused"}
    \/ frame.kind = "terminal" /\ ~Whole
    \/ /\ frame.kind = "data" /\ provider = "anthropic"
       /\ IF Has(frame.parts, "message_start") THEN reader.started
          ELSE ~reader.started

signalsTerminalOnly(events) == \E i \in DOMAIN events : events[i].e \in {"done", "message_stop"}

streamSignalsCompletion(events) ==
    \E i \in DOMAIN events :
        \/ events[i].e \in {"done", "message_stop"}
        \/ events[i].e \in {"finish", "message_delta"} /\ events[i].b # None

HoldsBack(events) == held # <<>> \/ streamSignalsCompletion(events)

\* translator.frame; without translator the frame is passed on as it is.
Translate ==
    IF ~translated \/ frame.kind = "comment"
      THEN [t |-> tr, out |-> IF translated THEN <<>> ELSE frame.parts, bad |-> FALSE]
      ELSE IF provider = "openai" THEN OpenAIFrame(tr, frame.parts) ELSE AnthropicFrame(tr, frame.parts)

Terminal ==
    IF ~translated THEN [t |-> tr, out |-> frame.parts, bad |-> FALSE]
    ELSE IF provider = "openai" THEN OpenAITerminal(tr) ELSE AnthropicTerminal(tr)

\* The attempt is over: a failed one returns nothing of what it held.
attemptEnds(f) ==
    /\ failed' = f
    /\ phase' = "audit"
    /\ reader' = NewReader /\ tr' = NewTranslator
    /\ held' = IF f THEN <<>> ELSE held
    /\ stop(FALSE) /\ cause' = "closed"

ReadFails ==
    /\ phase = "got" /\ Rejected
    /\ attemptEnds(TRUE)
    /\ frame' = NoFrame
    /\ UNCHANGED <<pair, sent, rest, replyVars, due>>

ReadTerminal ==
    /\ phase = "got" /\ frame.kind = "terminal" /\ ~Rejected
    /\ LET x == Terminal
           tooLarge == Len(held) + Len(x.out) > StreamBytes
           bad == x.bad \/ tooLarge
       IN  /\ rest' = IF bad THEN <<>> ELSE x.out
           /\ attemptEnds(bad)
    /\ frame' = NoFrame
    /\ UNCHANGED <<pair, sent, replyVars, due>>

\* An empty frame is dropped.  One that signals completion is held, and so is
\* all that follows; any other is written to the client.
ReadFrame ==
    LET x == Translate
        nonempty == ~x.bad /\ (x.out # <<>> \/ ~translated)
        holds == nonempty /\ HoldsBack(x.out)
        writes == nonempty /\ ~holds
        fails == \/ x.bad
                 \/ holds /\ Len(held) + Len(x.out) > StreamBytes
                 \/ writes /\ gone
    IN  /\ phase = "got" /\ frame.kind \in {"data", "comment"} /\ ~Rejected
        /\ delivered' = (delivered \/ writes)
        /\ client' = IF writes /\ ~gone THEN AbsorbAll(client, x.out) ELSE client
        /\ \/ fails /\ attemptEnds(TRUE)
           \/ /\ ~fails /\ phase' = "read" /\ stop(TRUE)
              /\ tr' = x.t
              /\ held' = IF holds THEN held \o x.out ELSE held
              /\ reader' = [started  |-> reader.started \/ Starts,
                            finished |-> reader.finished \/ Finishes,
                            total    |-> reader.total + 1]
              /\ UNCHANGED <<failed, cause>>
        /\ frame' = NoFrame
        /\ UNCHANGED <<pair, sent, rest, audited, told, gone, due>>

\* AppendAudit; if it fails, so does the request.
Audit ==
    /\ phase = "audit"
    /\ phase' = "reply"
    /\ \/ audited' = TRUE /\ UNCHANGED failed
       \/ failed' = TRUE /\ UNCHANGED audited
    /\ UNCHANGED <<pair, readVars, delivered, client, told, gone, timerVars>>

\* The gateway releases what was held, or ends the answer with an error.
Reply ==
    /\ phase = "reply"
    /\ phase' = "done"
    /\ IF failed THEN told' = ~gone /\ UNCHANGED <<client, delivered>>
       ELSE /\ client' = IF gone THEN client ELSE AbsorbAll(client, held \o rest)
            /\ delivered' = TRUE /\ UNCHANGED told
    /\ UNCHANGED <<pair, readVars, failed, audited, gone, timerVars>>

\* The client goes away: the context is cancelled, and writes fail.
Leave ==
    /\ ~gone /\ phase # "done"
    /\ gone' = TRUE
    /\ IF AwaitsUpstream THEN cancel("client") ELSE UNCHANGED cause
    /\ UNCHANGED <<pair, phase, readVars, failed, delivered, audited, client, told, timer, generation, due>>

-----------------------------------------------------------------------------

Handler == ReadFails \/ ReadTerminal \/ ReadFrame \/ Audit \/ Reply

StreamNext ==
    \/ Headers \/ Arrive \/ Break \/ Leave
    \/ ReadFails \/ ReadTerminal \/ ReadFrame \/ Audit \/ Reply
    \/ Expire \/ \E d \in due : Callback(d)

StreamSpec == StreamInit /\ [][StreamNext]_streamVars

\* The handler and the timer run, and a read of a cancelled context returns.
\* Nothing is assumed of the provider.
FairStreamSpec ==
    /\ StreamSpec
    /\ WF_streamVars(Handler)
    /\ WF_streamVars(Expire) /\ WF_streamVars(\E d \in due : Callback(d))
    /\ WF_streamVars(cause # None /\ Break)

-----------------------------------------------------------------------------
(* Properties.                                                             *)

\* The types of the call, the reader, the timer and the answer.
StreamTypeOK ==
    /\ pair \in Pairs
    /\ phase \in {"headers", "read", "got", "audit", "reply", "done"}
    /\ frame.kind \in {"none", "data", "comment", "terminal", "broken", "refused"}
    /\ reader \in [started : BOOLEAN, finished : BOOLEAN, total : 0 .. StreamBytes]
    /\ Len(held) <= StreamBytes
    /\ {failed, delivered, audited, told, gone} \subseteq BOOLEAN
    /\ generation \in Nat /\ timer \in {0, generation}
    /\ due \subseteq [generation : 1 .. generation, wait : Nat] /\ Cardinality(due) <= 1
    /\ cause \in {None, "deadline", "client", "closed"}

\* No client learns that its turn is complete, by a reason to stop or by the
\* terminal marker, before the audit of the request is committed.
CompletionAfterAudit == client.reason # None \/ client.ended => audited

\* An answer that ends well for the client was whole: the provider gave a
\* reason to stop and the terminal marker, and the client is told of no error.
SuccessIsWhole == client.ended => sent.ended /\ sent.reason # None /\ ~told

\* A message without its end.
Parts(m) == [text |-> m.text, reasoning |-> m.reasoning, calls |-> m.calls]

\* What a client puts together from the translated frames is what the provider's
\* frames amount to, in order and complete, and an answer with no meaning in the
\* client's protocol never ends well.  Where all of the answer has a form in both
\* (Alike) it is what the whole answer would have been translated to; where not, the
\* stream still passes on every part but text in arrays.  Between two frames the
\* same holds of the parts that have come, with what is held back.
TranslationsAgree ==
    /\ client.ended =>
        IF ~translated THEN Content(client) = Content(sent)
        ELSE /\ ~Unrepresentable(provider, sent)
             /\ Content(client) = Passed(provider, sent)
             /\ Alike(provider, sent) => Content(client) = TranslateResponse(provider, sent)
    /\ translated /\ phase = "read" /\ ~gone =>
        Parts(AbsorbAll(client, held)) = Parts(Passed(provider, sent))

\* A translated stream is a legal Anthropic stream, however the provider's calls
\* take turns: blocks open in order and one at a time, text grows in the open block
\* only, and no block is open at the end.  Arguments, too, come for the open block,
\* unless a call goes on after another part: its block is not opened again.
BlocksWellFormed ==
    translated /\ protocol = "anthropic" => ~client.malformed /\ (client.stray => sent.resumed)

\* What a client may conclude from the end of its stream: the request is audited
\* and the answer was whole.
CompletionIsHonest == CompletionAfterAudit /\ SuccessIsWhole

\* What a client has received, translated or not, is the provider's answer in a
\* legal form: the types, and the two invariants on the translation.
AnswersFaithful == StreamTypeOK /\ TranslationsAgree /\ BlocksWellFormed

\* A callback of the timer cancels only the wait it was started for: never a
\* later read after progress, and never a completed attempt.
TimerHitsItsWait ==
    [][\A d \in due : cause = None /\ cause' = "deadline" => AwaitsUpstream /\ d.wait = WaitNumber]_streamVars

\* Whatever the provider and the client do, the call comes to an end.
StalledStreamEnds == <>(phase = "done")

=============================================================================
