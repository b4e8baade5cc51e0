--------------------------- MODULE ForwardStream ---------------------------
(***************************************************************************)
(* One ForwardStream call, end to end: the blocking task that generates    *)
(* tokens on a node, the bounded channel to the call's response stream     *)
(* (node-agent/src/network/grpc_server.rs), the network, and the client in *)
(* the orchestrator (inference/grpc_client.py, _grpc_inference of          *)
(* inference/pipeline.py).                                                 *)
(*                                                                         *)
(* The task runs on a thread of its own and is never cancelled: it learns  *)
(* that nobody listens only when it sends.                                 *)
(***************************************************************************)
EXTENDS Integers, Sequences

CONSTANTS
  MaxTokens,   \* max_tokens of the request
  CHANNEL,     \* capacity of the mpsc channel, 32 in the code
  WINDOW       \* responses the network and its buffers hold

ASSUME StreamAssumption ==
  MaxTokens \in Nat \ {0} /\ CHANNEL \in Nat \ {0} /\ WINDOW \in Nat \ {0}

\* Tokens are numbered as they are generated.  The two other items of a channel:
\* the response without logits that ends a generation, and Err(Status).
Token == 1 .. MaxTokens
EndMark == 0
Failure == -1

VARIABLES
  prompt,    \* is the request's text_prompt not empty?
  task,      \* the blocking task
  made,      \* tokens it has put into the channel so far
  channel,   \* items between the task and the response stream
  handler,   \* the response stream of the node
  transit,   \* responses on their way to the client
  status,    \* the call's status, which follows the last response
  client,    \* NodeGrpcClient.forward_stream and its caller
  answer     \* tokens yielded to the caller

streamVars == <<prompt, task, made, channel, handler, transit, status, client, answer>>

Task == {"idle", "loading", "generating", "sending", "ending", "done"}
Handler == {"waiting", "draining", "between", "closed"}
Client == {"open", "done", "failed", "gone"}

StreamTypeOK ==
  /\ prompt \in BOOLEAN
  /\ task \in Task
  /\ made \in 0 .. MaxTokens
  /\ task \in {"loading", "generating", "sending"} => made < MaxTokens
  /\ channel \in Seq(Token \cup {EndMark, Failure})
  /\ Len(channel) <= CHANNEL
  /\ handler \in Handler
  /\ transit \in Seq(Token \cup {EndMark})
  /\ status \in {"none", "ok", "error"}
  /\ client \in Client
  /\ answer \in Seq(Token)

StreamInit ==
  /\ prompt \in BOOLEAN
  /\ task = "idle"
  /\ made = 0
  /\ channel = <<>>
  /\ handler = "waiting"
  /\ transit = <<>>
  /\ status = "none"
  /\ client = "open"
  /\ answer = <<>>

-----------------------------------------------------------------------------
(* The blocking task.  blocking_send waits for room in the channel, and     *)
(* returns an error as soon as the receiver has been dropped.               *)

Room == Len(channel) < CHANNEL

\* The last thing the task has to say, to whoever listens.
Finish(item) ==
  /\ handler = "draining" => Room
  /\ task' = "done"
  /\ channel' = IF handler = "draining" THEN Append(channel, item) ELSE channel
  /\ UNCHANGED <<prompt, made, handler, transit, status, client, answer>>

Loaded ==
  /\ task = "loading"
  /\ task' = "generating"
  /\ UNCHANGED <<prompt, made, channel, handler, transit, status, client, answer>>

\* No backend, model, tokens, context or batch: the task only reports it.
LoadFails == task = "loading" /\ Finish(Failure)

\* One turn of the loop decodes the last token and samples the next one...
Sample ==
  /\ task = "generating"
  /\ task' = "sending"
  /\ UNCHANGED <<prompt, made, channel, handler, transit, status, client, answer>>

\* ... or leaves the loop: decode() fails, or there are no logits.
LeaveLoop ==
  /\ task = "generating"
  /\ task' = "ending"
  /\ UNCHANGED <<prompt, made, channel, handler, transit, status, client, answer>>

\* The token that was sent may be the end-of-generation token.
AfterToken == IF made' = MaxTokens THEN {"ending"} ELSE {"generating", "ending"}

\* Faulty variant: a full channel costs a token.
SendTokenLossy ==
  /\ task = "sending"
  /\ handler = "draining"
  /\ made' = made + 1
  /\ channel' = IF Room THEN Append(channel, made') ELSE channel
  /\ task' \in AfterToken
  /\ UNCHANGED <<prompt, handler, transit, status, client, answer>>

SendToken ==
  /\ task = "sending"
  /\ handler = "draining"
  /\ Room
  /\ made' = made + 1
  /\ channel' = Append(channel, made')
  /\ task' \in AfterToken
  /\ UNCHANGED <<prompt, handler, transit, status, client, answer>>

\* Nobody listens any more.
SendRefused ==
  /\ task = "sending"
  /\ handler = "closed"
  /\ task' = "ending"
  /\ UNCHANGED <<prompt, made, channel, handler, transit, status, client, answer>>

SendEnd == task = "ending" /\ Finish(EndMark)

-----------------------------------------------------------------------------
(* The response stream of the node.                                        *)

\* The receiver goes with the stream, and what is in the channel with it.
Close == handler' = "closed" /\ channel' = <<>>

\* A prompt has come: the task is spawned.
Spawn ==
  /\ handler = "waiting"
  /\ prompt
  /\ handler' = "draining"
  /\ task' = "loading"
  /\ UNCHANGED <<prompt, made, channel, transit, status, client, answer>>

\* Without text one forward pass over the loaded shard answers; it makes no token
\* of its own, so it counts as the only one.
ForwardPass ==
  /\ handler = "waiting"
  /\ ~prompt
  /\ made' = 1
  /\ transit' = <<1>>
  /\ handler' = "between"
  /\ UNCHANGED <<prompt, task, channel, status, client, answer>>

\* No shard is loaded, or the agent was built without inference.
Refuse ==
  /\ handler = "waiting"
  /\ Close
  /\ status' = "error"
  /\ UNCHANGED <<prompt, task, made, transit, client, answer>>

Relay ==
  /\ handler = "draining"
  /\ channel # <<>>
  /\ Len(transit) < WINDOW
  /\ IF Head(channel) = Failure
       THEN /\ Close
            /\ status' = "error"
            /\ UNCHANGED transit
       ELSE /\ transit' = Append(transit, Head(channel))
            /\ channel' = Tail(channel)
            /\ UNCHANGED <<handler, status>>
  /\ UNCHANGED <<prompt, task, made, client, answer>>

\* The task has dropped its sender and everything is relayed.
Drained ==
  /\ handler = "draining"
  /\ channel = <<>>
  /\ task = "done"
  /\ handler' = "between"
  /\ UNCHANGED <<prompt, task, made, channel, transit, status, client, answer>>

\* The client sends one request per call: the stream ends.
EndStream ==
  /\ handler = "between"
  /\ Close
  /\ status' = "ok"
  /\ UNCHANGED <<prompt, task, made, transit, client, answer>>

\* Faulty variant: a call that was reset keeps the receiver of the channel.
ResetKeepsReceiver ==
  /\ client # "open"
  /\ handler \in {"waiting", "between"}
  /\ Close
  /\ UNCHANGED <<prompt, task, made, transit, status, client, answer>>

\* The node learns that the client has given the call up: from the HTTP/2 reset of the
\* stream, or from an error of the TCP connection.  No keepalive is configured (serve).
Reset ==
  /\ client # "open"
  /\ handler # "closed"
  /\ Close
  /\ UNCHANGED <<prompt, task, made, transit, status, client, answer>>

-----------------------------------------------------------------------------
(* The connection, and the client.                                         *)

\* The connection breaks, or the agent's process ends and the task with it.
\* Responses under way may still arrive, then the call fails.
Disconnect ==
  /\ client = "open"
  /\ status # "error"
  /\ Close
  /\ task' \in {task, "done"}
  /\ \E k \in 0 .. Len(transit) : transit' = SubSeq(transit, 1, k)
  /\ status' = "error"
  /\ UNCHANGED <<prompt, made, client, answer>>

\* The call is over for the client.
Leave(outcome) ==
  /\ client = "open"
  /\ client' = outcome
  /\ transit' = <<>>
  /\ UNCHANGED <<prompt, task, made, channel, handler, status, answer>>

ReadToken ==
  /\ client = "open"
  /\ transit # <<>>
  /\ Head(transit) # EndMark
  /\ answer' = Append(answer, Head(transit))
  /\ transit' = Tail(transit)
  /\ UNCHANGED <<prompt, task, made, channel, handler, status, client>>

\* A response without logits, or the end of the stream, ends the answer.
ReadEnd ==
  /\ \/ transit # <<>> /\ Head(transit) = EndMark
     \/ transit = <<>> /\ status = "ok"
  /\ Leave("done")

ReadFailure ==
  /\ transit = <<>>
  /\ status = "error"
  /\ Leave("failed")

\* Faulty variant: the deadline ends the answer like an end mark.
DeadlineEnds == Leave("done")

\* The call's timeout of 300 seconds.
Deadline == Leave("failed")

\* The request this call is for was cancelled.
GoAway == Leave("gone")

-----------------------------------------------------------------------------
TaskStep ==
  Loaded \/ LoadFails \/ Sample \/ LeaveLoop \/ SendToken \/ SendRefused \/ SendEnd
HandlerStep == Spawn \/ ForwardPass \/ Refuse \/ Relay \/ Drained \/ EndStream
ClientStep == ReadToken \/ ReadEnd \/ ReadFailure \/ Deadline \/ GoAway

StreamNext == TaskStep \/ HandlerStep \/ Reset \/ Disconnect \/ ClientStep

StreamSpec == StreamInit /\ [][StreamNext]_streamVars

\* The task's thread runs, the timeout expires, and the reset that follows, or an error
\* of the connection, reaches the node.  That the client's consumer reads what arrives is not assumed.
StreamFairness == WF_streamVars(TaskStep) /\ WF_streamVars(Deadline) /\ WF_streamVars(Reset)

FairStreamSpec == StreamSpec /\ StreamFairness

-----------------------------------------------------------------------------
(* Properties.                                                             *)

\* An answer that ends without an exception is everything the task has made, in
\* order, and no more will come: neither the bounded channel nor the network,
\* a failed load, a broken connection or a timeout shows as a short answer
\* (forward_stream of both sides).
NormalEndIsComplete ==
  client = "done" =>
    /\ task \in {"idle", "done"}
    /\ answer = [i \in 1 .. made |-> i]

\* A generation never outlives its call for good: not with a client that has
\* gone, nor with one that does not read while the task waits for room.
GenerationEnds == task = "loading" ~> task = "done"

-----------------------------------------------------------------------------
(* The inductive invariant.                                                *)

\* The tokens in a channel or on the network: an end mark or a failure is last.
Tokens(items) ==
  IF items # <<>> /\ items[Len(items)] \notin Token THEN Len(items) - 1 ELSE Len(items)

\* An answer is the tokens from the first one on, without a gap.
AnswerInOrder == \A i \in 1 .. Len(answer) : answer[i] = i

\* What is under way goes on where the answer ends.  An end mark closes it, and
\* everything the task has made is then before it.
TransitInOrder ==
  client = "open" =>
    \A i \in 1 .. Len(transit) :
      IF transit[i] = EndMark
        THEN /\ i = Len(transit)
             /\ made = Len(answer) + i - 1
             /\ task = "done"
             /\ channel = <<>>
        ELSE transit[i] = Len(answer) + i

\* And so does what is in the channel.
ChannelInOrder ==
  client = "open" =>
    \A i \in 1 .. Len(channel) :
      IF channel[i] \in Token
        THEN channel[i] = Len(answer) + Len(transit) + i
        ELSE i = Len(channel) /\ task = "done"

\* Until something fails nothing is lost.
NothingLost ==
  client = "open" /\ status # "error" =>
    made = Len(answer) + Tokens(transit) + Tokens(channel)

\* Where the task and the call are when the response stream is at a place.
Phases ==
  /\ handler = "waiting" =>
       /\ task = "idle"
       /\ made = 0
       /\ <<channel, transit, answer>> = <<<<>>, <<>>, <<>>>>
       /\ client # "done"
  /\ handler = "draining" => task # "idle"
  /\ handler = "between" => task \in {"idle", "done"} /\ channel = <<>>
  /\ handler = "closed" => channel = <<>>
  /\ handler # "closed" => status = "none"
  /\ handler = "closed" /\ client = "open" => status # "none"
  /\ status = "ok" => task \in {"idle", "done"}

\* What the task, the response stream, the network and the client agree on at
\* every moment of a call (forward_stream of both sides).
StreamInv ==
  /\ StreamTypeOK
  /\ AnswerInOrder
  /\ TransitInOrder
  /\ ChannelInOrder
  /\ NothingLost
  /\ Phases
  /\ NormalEndIsComplete
=============================================================================
