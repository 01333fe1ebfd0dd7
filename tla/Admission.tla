------------------------------ MODULE Admission ------------------------------
(***************************************************************************)
(* Which messages of a Discord channel the agents in it answer: the        *)
(* callback of the adapter (adapters/discord_adapter.py), the limit on     *)
(* messages of bots and the token bucket (agents/base.py).  To an agent    *)
(* the other agents are bots; whatever one posts, the others hear.  At its *)
(* brain an agent may ask another over NATS (send_message_to_agent of      *)
(* agents/tools.py): the answer goes into the channel as well.             *)
(*                                                                         *)
(* Discord delivers the messages of a channel in their order, and the      *)
(* callback of one runs up to its first await before that of the next.     *)
(* An agent's subscription takes up one request after the other.           *)
(* A message is who wrote it, which agent it addresses at its beginning    *)
(* ("@puck", "puck:") and which agent it names later on ("... @puck").     *)
(* Tokens are counted in units of 1/Window of a call, so that the float of *)
(* the code is an integer.                                                 *)
(***************************************************************************)
EXTENDS Integers, Sequences, FiniteSets

CONSTANTS
    Agent,
    Away,          \* the agents among them that are on another platform
    Person,
    Nobody,
    Trusted,       \* those whom allowed_user_ids lets in
    BotChatLimit,  \* bot_chat_limit of the personalities
    Calls,         \* _llm_rate_limit
    Window,        \* _llm_rate_window
    MaxSpoken,     \* bound of the model: messages nobody asked for
    MaxMessages,   \* bound of the model: messages of the channel
    MaxRequests,   \* bound of the model: requests taken up, and waiting for an agent
    MaxTime        \* bound of the model: ticks

ASSUME AdmissionAssumption ==
    /\ IsFiniteSet(Agent) /\ Away \subseteq Agent
    /\ Agent \cap Person = {} /\ Nobody \notin Agent \cup Person
    /\ Trusted \subseteq Agent \cup Person
    /\ BotChatLimit \in Nat /\ Calls \in Nat \ {0} /\ Window \in Nat \ {0}
    /\ MaxSpoken \in Nat /\ MaxMessages \in Nat /\ MaxRequests \in Nat /\ MaxTime \in Nat

VARIABLES
    channel,    \* the messages of the channel
    spoken,     \* how many of them answer nothing
    heard,      \* heard[a]: how many were delivered to a
    chatter,    \* chatter[a]: _seen_mentions_this_limit_cycle of the channel
    inbox,      \* inbox[a]: requests to a that wait in NATS
    queue,      \* queue[a]: messages inside handle_message, the lock's holder first
    thinking,   \* thinking[a]: the first of them is at the brain
    tokens,     \* tokens[a]: _tokens * Window
    refilled,   \* refilled[a]: _last_refill
    now,
    granted,    \* history: granted[a]: when the bucket let a message pass
    requests    \* how many requests were taken up

vars == <<channel, spoken, heard, chatter, inbox, queue, thinking, tokens, refilled,
          now, granted, requests>>
bucket == <<tokens, refilled, granted>>

Speaker == Agent \cup Person
\* A command, and what the adapter or the rate limiter says, concerns no agent.
Plain == [kind |-> "talk", to |-> Nobody, names |-> Nobody]
Command == [Plain EXCEPT !.kind = "command"]
Text == {Plain, Command} \cup {[Plain EXCEPT !.to = a] : a \in Agent}
                         \cup {[Plain EXCEPT !.names = a] : a \in Agent}

Here == Agent \ Away

\* The content of a request; of one that looks like an injection nothing is left.
Blank == [Plain EXCEPT !.kind = "blank"]
Content == (Text \ {Command}) \cup {Blank}

\* A request has the metadata of the message its sender was at, the author among
\* them, and where its answer goes, here who posts it; that of a job has neither.
Request == [by : Speaker \cup {Nobody}, via : Agent \cup {Nobody}, text : Content]

\* What an agent handles: the number of a message of the channel, or, negative, of
\* a request; its author; and who posts the answer.
Entry == [id : Int, by : Speaker \cup {Nobody}, via : Agent \cup {Nobody}]

Init ==
    /\ channel = <<>>
    /\ spoken = 0
    /\ heard = [a \in Agent |-> 0]
    /\ chatter = [a \in Agent |-> 0]
    /\ inbox = [a \in Agent |-> <<>>]
    /\ queue = [a \in Agent |-> <<>>]
    /\ thinking = [a \in Agent |-> FALSE]
    /\ tokens = [a \in Agent |-> Calls * Window]
    /\ refilled = [a \in Agent |-> 0]
    /\ now = 0
    /\ granted = [a \in Agent |-> <<>>]
    /\ requests = 0

Post(s, x) ==
    /\ Len(channel) < MaxMessages
    /\ channel' = Append(channel, [by |-> s, text |-> x])

\* Something is said that answers nothing: by a person, or by a job of an agent,
\* _builtin_send_message_handler or the prompt of a custom action, which calls the
\* brain and posts what it says, past lock and bucket.
Speak(s, x) ==
    /\ spoken < MaxSpoken
    /\ spoken' = spoken + 1
    /\ Post(s, x)
    /\ UNCHANGED <<heard, chatter, inbox, queue, thinking, bucket, now, requests>>

Tick ==
    /\ now < MaxTime
    /\ now' = now + 1
    /\ UNCHANGED <<channel, spoken, heard, chatter, inbox, queue, thinking, bucket, requests>>

----------------------------------------------------------------------------
\* _on_message

\* The next message a hears is m.
Hears(a, m) ==
    /\ heard[a] < Len(channel) /\ m = channel[heard[a] + 1]
    /\ heard' = [heard EXCEPT ![a] = @ + 1]

\* Its own messages are skipped.
HearOwn(a, m) ==
    /\ Hears(a, m) /\ m.by = a
    /\ UNCHANGED <<channel, spoken, chatter, inbox, queue, thinking, bucket, now, requests>>

\* "You are not authorized to use this bot.", said into the channel.
Refuse(a, m) ==
    /\ Hears(a, m) /\ m.by \notin Trusted \cup {a}
    /\ Post(a, Plain)
    /\ UNCHANGED <<spoken, chatter, inbox, queue, thinking, bucket, now, requests>>

ForAnother(a, m) == m.text.to \notin {a, Nobody}

\* Faulty: a bot is let in once too often.
TooMuchLate(a, m) == m.by \in Agent /\ m.text.to = Nobody /\ chatter[a] > BotChatLimit

\* bot_chat_limit; it does not count for a message that addresses a.
TooMuch(a, m) == m.by \in Agent /\ m.text.to = Nobody /\ chatter[a] >= BotChatLimit

\* Faulty: whoever speaks, the counter begins anew.
CountedAnew(a, m) == IF m.text.to = Nobody /\ m.by \in Agent THEN 0 ELSE chatter[a]

\* The counter after m: a person resets it, unless m is for another agent; a bot
\* that does not name a is counted.
Counted(a, m) ==
    IF m.by \notin Agent THEN 0
    ELSE IF m.text.to = Nobody /\ m.text.names # a THEN chatter[a] + 1
    ELSE chatter[a]

\* should_process_message is false.
Ignore(a, m) ==
    /\ Hears(a, m) /\ m.by \in Trusted \ {a}
    /\ ForAnother(a, m) \/ TooMuch(a, m)
    /\ UNCHANGED <<channel, spoken, chatter, inbox, queue, thinking, bucket, now, requests>>

\* It is true; m goes into handle_message.
Admit(a, m) ==
    /\ Hears(a, m) /\ m.by \in Trusted \ {a}
    /\ ~ForAnother(a, m) /\ ~TooMuch(a, m)
    /\ m.text.kind = "talk"
    /\ chatter' = [chatter EXCEPT ![a] = Counted(a, m)]
    /\ queue' = [queue EXCEPT ![a] = Append(@, [id |-> heard'[a], by |-> m.by, via |-> a])]
    /\ UNCHANGED <<channel, spoken, inbox, thinking, bucket, now, requests>>

\* It is true, and m is a command, which is answered without lock or bucket;
\* an unknown one is not answered.
Dispatch(a, m) ==
    /\ Hears(a, m) /\ m.by \in Trusted \ {a}
    /\ ~ForAnother(a, m) /\ ~TooMuch(a, m)
    /\ m.text.kind = "command"
    /\ chatter' = [chatter EXCEPT ![a] = Counted(a, m)]
    /\ Post(a, Plain) \/ UNCHANGED channel
    /\ UNCHANGED <<spoken, inbox, queue, thinking, bucket, now, requests>>

----------------------------------------------------------------------------
\* Requests: send_message_to_agent, and _on_nats_message of the one who is asked.

\* The brain of a asks b, at a message that it handles.  The answer is posted by b,
\* or, if b is on another platform, by a, who is sent a direct_reply.
Ask(a, b, x) ==
    /\ Len(inbox[b]) < MaxRequests
    /\ thinking[a]
    /\ LET s == Head(queue[a]).by
           poster == IF s = Nobody THEN Nobody ELSE IF b \in Away THEN a ELSE b
       IN  inbox' = [inbox EXCEPT ![b] = Append(@, [by |-> s, via |-> poster, text |-> x])]
    /\ UNCHANGED <<channel, spoken, heard, chatter, queue, thinking, bucket, now, requests>>

\* A job asks b, which is handled whatever it says; its answer goes nowhere.
AskByJob(b) ==
    /\ Len(inbox[b]) < MaxRequests
    /\ inbox' = [inbox EXCEPT ![b] = Append(@, [by |-> Nobody, via |-> Nobody, text |-> Blank])]
    /\ UNCHANGED <<channel, spoken, heard, chatter, queue, thinking, bucket, now, requests>>

\* The next request to a is q; the one before was done.
Takes(a, q) ==
    /\ inbox[a] # <<>> /\ q = Head(inbox[a])
    /\ \A i \in DOMAIN queue[a] : queue[a][i].id > 0
    /\ requests < MaxRequests
    /\ requests' = requests + 1
    /\ inbox' = [inbox EXCEPT ![a] = Tail(@)]
    /\ UNCHANGED <<channel, spoken, heard, thinking, bucket, now>>

\* should_process_message judges it like a message of the channel, if there is one
\* and anything is left of the request.
Judged(q) == q.by # Nobody /\ q.text # Blank

TurnDown(a, q) ==
    /\ Takes(a, q)
    /\ Judged(q) /\ (ForAnother(a, q) \/ TooMuch(a, q))
    /\ UNCHANGED <<chatter, queue>>

TakeUp(a, q) ==
    /\ Takes(a, q)
    /\ Judged(q) => ~ForAnother(a, q) /\ ~TooMuch(a, q)
    /\ chatter' = IF Judged(q) THEN [chatter EXCEPT ![a] = Counted(a, q)] ELSE chatter
    /\ queue' = [queue EXCEPT ![a] =
                     Append(@, [id |-> -requests', by |-> q.by, via |-> q.via])]

Receive(a) == inbox[a] # <<>> /\ LET q == Head(inbox[a]) IN TurnDown(a, q) \/ TakeUp(a, q)

----------------------------------------------------------------------------
\* handle_message

AtMost(x, y) == IF x < y THEN x ELSE y

\* Faulty: tokens are saved up without end.
RefillUncapped(a) == tokens[a] + (now - refilled[a]) * Calls

\* What has been earned since the last call, up to the size of the bucket.
Refill(a) == AtMost(Calls * Window, tokens[a] + (now - refilled[a]) * Calls)

Pop(a) == queue' = [queue EXCEPT ![a] = Tail(@)]

\* What handle_message returns is posted.
Reply(a, x) ==
    LET s == Head(queue[a]).via IN IF s = Nobody THEN UNCHANGED channel ELSE Post(s, x)

\* The lock is free and a message is waiting: _check_rate_limit.
Begins(a) ==
    /\ queue[a] # <<>> /\ ~thinking[a]
    /\ refilled' = [refilled EXCEPT ![a] = now]

Begin(a) ==
    /\ Begins(a) /\ Refill(a) >= Window
    /\ tokens' = [tokens EXCEPT ![a] = Refill(a) - Window]
    /\ granted' = [granted EXCEPT ![a] = Append(@, now)]
    /\ thinking' = [thinking EXCEPT ![a] = TRUE]
    /\ UNCHANGED <<channel, spoken, heard, chatter, inbox, queue, now, requests>>

\* "Please wait a moment and try again." is an answer like any other.
Postpone(a) ==
    /\ Begins(a) /\ Refill(a) < Window
    /\ tokens' = [tokens EXCEPT ![a] = Refill(a)]
    /\ Reply(a, Plain)
    /\ Pop(a)
    /\ UNCHANGED <<spoken, heard, chatter, inbox, thinking, granted, now, requests>>

\* The brain's answer is posted; if it raises nothing is.
Answer(a, x) ==
    /\ thinking[a]
    /\ thinking' = [thinking EXCEPT ![a] = FALSE]
    /\ Reply(a, x) \/ UNCHANGED channel
    /\ Pop(a)
    /\ UNCHANGED <<spoken, heard, chatter, inbox, bucket, now, requests>>

Hear(a) ==
    \E m \in {channel[i] : i \in DOMAIN channel} :
        HearOwn(a, m) \/ Refuse(a, m) \/ Ignore(a, m) \/ Admit(a, m) \/ Dispatch(a, m)

Handle(a) == Begin(a) \/ Postpone(a) \/ (\E x \in Text : Answer(a, x))

Next ==
    \/ \E s \in Person \cup Here, x \in Text : Speak(s, x)
    \/ \E a \in Here : Hear(a)
    \/ \E a, b \in Agent, x \in Content : Ask(a, b, x)
    \/ \E a \in Agent : AskByJob(a) \/ Receive(a) \/ Handle(a)
    \/ Tick

Spec == Init /\ [][Next]_vars

----------------------------------------------------------------------------

TypeOK ==
    /\ channel \in Seq([by : Speaker, text : Text]) /\ Len(channel) <= MaxMessages
    /\ spoken \in 0..MaxSpoken /\ requests \in 0..MaxRequests /\ now \in 0..MaxTime
    /\ heard \in [Agent -> 0..MaxMessages]
    /\ chatter \in [Agent -> 0..BotChatLimit]
    /\ inbox \in [Agent -> Seq(Request)]
    /\ queue \in [Agent -> Seq(Entry)] /\ thinking \in [Agent -> BOOLEAN]
    /\ tokens \in [Agent -> 0..(Calls * Window)] /\ refilled \in [Agent -> 0..now]
    /\ granted \in [Agent -> Seq(0..now)]

\* In any stretch of time the bucket lets at most as many messages of an agent
\* pass to its brain as a full bucket and what is earned during the stretch pay
\* for: Calls in no time at all, up to twice Calls within Window.  The calls of
\* jobs, which do not ask the bucket, are not among them.
WindowLimit ==
    \A a \in Agent : \A i, j \in DOMAIN granted[a] :
        i <= j => (j - i + 1 - Calls) * Window <= (granted[a][j] - granted[a][i]) * Calls

\* Agents that neither address nor name each other in the channel do not keep a
\* conversation going: to each message that nobody asked for belong at most one
\* answer and BotChatLimit remarks of each agent, to each request between agents
\* its answer and BotChatLimit remarks of the one who was asked, whoever hears
\* what first, and whether the answers come from the brain, from a command or
\* from the rate limiter.
ChatterIsBounded ==
    (\A i \in DOMAIN channel :
        channel[i].by \in Agent => channel[i].text \in {Plain, Command})
    => Len(channel) <= spoken * (1 + Cardinality(Here) * (1 + BotChatLimit))
                       + requests * (1 + BotChatLimit)
=============================================================================
