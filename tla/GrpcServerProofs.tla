-------------------------- MODULE GrpcServerProofs --------------------------
(***************************************************************************)
(* What is proved of the calls a node agent serves (grpc_server.rs): the   *)
(* stream of a forward pass, for every number of tokens, every capacity of *)
(* the channel and every window of the network, and the calls that tune    *)
(* and inspect the machine, for any number of calls, workers and devices.  *)
(* The two share no variable, only this file.                              *)
(***************************************************************************)
EXTENDS ForwardStream, Machine, SequenceTheorems, TLAPS

-----------------------------------------------------------------------------
(* ForwardStream.  NormalEndIsComplete is a part of StreamInv.             *)

\* What closes a channel: an end mark or a failure.
Item == Token \cup {EndMark, Failure}

\* Tokens of a channel that nothing has closed yet, and of one item more.
LEMMA TokensAppend ==
  ASSUME NEW s \in Seq(Item), NEW e \in Item, \A i \in 1 .. Len(s) : s[i] \in Token
  PROVE  /\ Tokens(s) = Len(s)
         /\ Tokens(Append(s, e)) = IF e \in Token THEN Len(s) + 1 ELSE Len(s)
<1>1. Tokens(s) = Len(s)
  <2>1. CASE s = <<>>
    BY <2>1 DEF Tokens
  <2>2. CASE s # <<>>
    <3>1. Len(s) \in 1 .. Len(s)
      BY <2>2, EmptySeq, LenProperties
    <3> QED
      BY <3>1 DEF Tokens
  <2> QED
    BY <2>1, <2>2
<1>2. /\ Append(s, e) # <<>>
      /\ Len(Append(s, e)) = Len(s) + 1
      /\ Append(s, e)[Len(s) + 1] = e
      /\ Len(s) \in Nat
  BY AppendProperties, LenProperties
<1> QED
  BY <1>1, <1>2 DEF Tokens

\* Reading an item that is a token from the front takes one token away.
LEMMA TokensTail ==
  ASSUME NEW s \in Seq(Item), s # <<>>
  PROVE  /\ Head(s) = s[1] /\ Head(s) \in Item
         /\ Len(s) \in Nat \ {0}
         /\ Tail(s) \in Seq(Item)
         /\ Len(Tail(s)) = Len(s) - 1
         /\ \A i \in 1 .. Len(Tail(s)) : Tail(s)[i] = s[i + 1]
         /\ Head(s) \in Token => Tokens(Tail(s)) = Tokens(s) - 1
<1>1. \A q \in Seq(Item) : Len(q) \in Nat /\ (q = <<>> <=> Len(q) = 0)
  BY EmptySeq, LenProperties
<1> DEFINE t == Tail(s)
<1>2. /\ Head(s) = s[1] /\ Head(s) \in Item
      /\ t \in Seq(Item)
      /\ Len(t) = Len(s) - 1
      /\ \A i \in 1 .. Len(t) : t[i] = s[i + 1]
  BY HeadTailProperties
<1> HIDE DEF t
<1>3. Head(s) \in Token => Tokens(t) = Tokens(s) - 1
  <2> SUFFICES ASSUME Head(s) \in Token PROVE Tokens(t) = Tokens(s) - 1
    OBVIOUS
  <2>1. CASE Len(s) = 1
    BY <1>1, <1>2, <2>1 DEF Tokens
  <2>2. CASE Len(s) > 1
    <3>1. t # <<>> /\ t[Len(t)] = s[Len(s)]
      BY <1>1, <1>2, <2>2
    <3> QED
      BY <1>1, <1>2, <3>1 DEF Tokens
  <2>3. \A n \in Nat : n # 0 => n = 1 \/ n > 1
    OBVIOUS
  <2>4. Len(s) = 1 \/ Len(s) > 1
    BY <1>1, <2>3
  <2> QED
    BY <2>1, <2>2, <2>4
<1> QED
  BY <1>1, <1>2, <1>3 DEF t

\* The variables of a call between its task, its stream, the network and its
\* client agree initially (forward_stream, before its first poll).
LEMMA StreamInit_Inv == StreamInit => StreamInv
  BY StreamAssumption, SMT DEF StreamInit, StreamInv, StreamTypeOK, Token, Task, Handler,
     Client, AnswerInOrder, TransitInOrder, ChannelInOrder, NothingLost, Tokens, Phases,
     NormalEndIsComplete, EndMark, Failure

\* The items of the two queues; an empty one has length 0.
LEMMA Queues ==
  ASSUME StreamTypeOK
  PROVE  /\ channel \in Seq(Item) /\ Len(channel) \in Nat
         /\ transit \in Seq(Item) /\ Len(transit) \in Nat
         /\ Len(answer) \in Nat
         /\ Tokens(<<>>) = 0 /\ Len(<<>>) = 0
         /\ channel = <<>> <=> Len(channel) = 0
         /\ transit = <<>> <=> Len(transit) = 0
<1>1. /\ channel \in Seq(Item)
      /\ transit \in Seq(Token \cup {EndMark})
      /\ answer \in Seq(Token)
  BY DEF StreamTypeOK, Item
<1>2. transit \in Seq(Item)
  BY <1>1, SeqMonotonic, Token \cup {EndMark} \subseteq Item DEF Item
<1> QED
  BY <1>1, <1>2, EmptySeq, LenProperties DEF Tokens

\* A step of the task, the stream or the client that moves no item, and neither
\* starts nor ends anything but what it says.
LEMMA TaskMoves ==
  ASSUME StreamInv, Loaded \/ Sample \/ LeaveLoop \/ SendRefused
  PROVE  StreamInv'
<1>1. /\ task \notin {"idle", "done"} /\ task' \in Task /\ task' \notin {"idle", "done"}
      /\ task' \in {"loading", "generating", "sending"} => made < MaxTokens
      /\ UNCHANGED <<prompt, made, channel, handler, transit, status, client, answer>>
  BY SMT DEF StreamInv, StreamTypeOK, Loaded, Sample, LeaveLoop, SendRefused, Task
<1> QED
  BY <1>1
     DEF StreamInv, StreamTypeOK, AnswerInOrder, TransitInOrder, ChannelInOrder, NothingLost,
         Phases, NormalEndIsComplete

\* What the task appends: a token, the end mark, or the failure that is all the
\* channel will ever hold.
LEMMA TaskSends ==
  ASSUME StreamInv, NEW e \in Item, handler = "draining", task # "done",
         Len(channel) < CHANNEL,
         channel' = Append(channel, e),
         task' \in Task,
         e \in Token => e = made + 1 /\ made' = e
                      /\ (task' \in {"loading", "generating", "sending"} => made' < MaxTokens),
         e \notin Token => task' = "done" /\ made' = made,
         task' # "idle",
         UNCHANGED <<prompt, handler, transit, status, client, answer>>
  PROVE  StreamInv'
<1> USE StreamAssumption DEF StreamInv
<1>1. channel \in Seq(Item) /\ Len(channel) \in Nat /\ Len(transit) \in Nat /\ Len(answer) \in Nat
  BY Queues
<1>2. /\ channel' \in Seq(Item)
      /\ Len(channel') = Len(channel) + 1
      /\ \A i \in 1 .. Len(channel) : channel'[i] = channel[i]
      /\ channel'[Len(channel) + 1] = e
      /\ channel' # <<>>
  BY <1>1, AppendProperties
<1>3. StreamTypeOK'
  <2>1. made' \in 0 .. MaxTokens
    BY DEF StreamTypeOK, Token
  <2> QED
    BY <1>1, <1>2, <2>1 DEF StreamTypeOK, Item
<1>4. AnswerInOrder'
  BY DEF AnswerInOrder
<1>5. client = "open" => \A i \in 1 .. Len(channel) : channel[i] \in Token
  BY DEF ChannelInOrder
<1>6. client = "open" => \A i \in 1 .. Len(transit) : transit[i] \in Token
  BY DEF TransitInOrder, StreamTypeOK
<1>7. TransitInOrder'
  BY <1>6 DEF TransitInOrder, Token, EndMark
<1>8. status = "none"
  BY DEF Phases
<1>9. client = "open" =>
        /\ Tokens(channel) = Len(channel)
        /\ Tokens(channel') = IF e \in Token THEN Len(channel) + 1 ELSE Len(channel)
        /\ Tokens(transit) = Len(transit)
  <2>1. transit \in Seq(Item)
    BY Queues
  <2> QED
    BY <1>1, <1>5, <1>6, <2>1, TokensAppend
<1>10. NothingLost'
  BY <1>1, <1>8, <1>9 DEF NothingLost, StreamTypeOK
<1>11. ChannelInOrder'
  <2> SUFFICES ASSUME client = "open", NEW i \in 1 .. Len(channel) + 1
               PROVE  IF channel'[i] \in Token
                        THEN channel'[i] = Len(answer) + Len(transit) + i
                        ELSE i = Len(channel) + 1 /\ task' = "done"
    BY <1>2 DEF ChannelInOrder
  <2>1. CASE i \in 1 .. Len(channel)
    BY <1>2, <1>5, <2>1 DEF ChannelInOrder
  <2>2. CASE i = Len(channel) + 1
    <3>1. made = Len(answer) + Len(transit) + Len(channel)
      BY <1>8, <1>9 DEF NothingLost
    <3> QED
      BY <1>1, <1>2, <2>2, <3>1
  <2> QED
    BY <1>1, <2>1, <2>2
<1>12. Phases'
  BY DEF Phases
<1>13. NormalEndIsComplete'
  <2>1. client # "done"
    BY DEF NormalEndIsComplete, Phases
  <2> QED
    BY <2>1 DEF NormalEndIsComplete
<1> QED
  BY <1>3, <1>4, <1>7, <1>10, <1>11, <1>12, <1>13

\* The stream closes without an answer: refused, reset, failed, or disconnected.
LEMMA StreamCloses ==
  ASSUME StreamInv, handler' = "closed", channel' = <<>>,
         \/ status' = "error"
         \/ client # "open" /\ status' = status,
         task' \in {task, "done"},
         transit' = transit \/ \E k \in 0 .. Len(transit) : transit' = SubSeq(transit, 1, k),
         UNCHANGED <<prompt, made, client, answer>>
  PROVE  StreamInv'
<1> USE DEF StreamInv
<1>1. /\ transit' \in Seq(Token \cup {EndMark})
      /\ Len(transit') \in 0 .. Len(transit)
      /\ \A i \in 1 .. Len(transit') : transit'[i] = transit[i]
  <2>1. transit \in Seq(Token \cup {EndMark}) /\ Len(transit) \in Nat
    BY LenProperties DEF StreamTypeOK
  <2>2. CASE transit' = transit
    BY <2>1, <2>2
  <2>3. ASSUME NEW k \in 0 .. Len(transit), transit' = SubSeq(transit, 1, k)
        PROVE  <1>1!1
    <3>1. \A i \in 1 .. k : transit[i] \in Token \cup {EndMark}
      BY <2>1, ElementOfSeq
    <3> HIDE DEF StreamInv
    <3> QED
      BY <2>1, <2>3, <3>1, SubSeqProperties
  <2> QED
    BY <2>2, <2>3
<1>2. StreamTypeOK'
  <2>1. channel' \in Seq(Token \cup {EndMark, Failure}) /\ Len(channel') = 0
    OBVIOUS
  <2> QED
    BY <1>1, <2>1, StreamAssumption DEF StreamTypeOK, Handler, Task
<1>3. AnswerInOrder' /\ ChannelInOrder' /\ NothingLost'
  BY DEF AnswerInOrder, ChannelInOrder, NothingLost
<1>4. TransitInOrder'
  <2> SUFFICES ASSUME client = "open", NEW i \in 1 .. Len(transit')
               PROVE  IF transit'[i] = EndMark
                        THEN /\ i = Len(transit') /\ made = Len(answer) + i - 1
                             /\ task' = "done" /\ channel' = <<>>
                        ELSE transit'[i] = Len(answer) + i
    BY DEF TransitInOrder
  <2>1. /\ Len(transit) \in Nat /\ Len(transit') \in Nat
        /\ i \in Nat /\ i <= Len(transit') /\ Len(transit') <= Len(transit)
    BY <1>1, Queues
  <2>2. i \in 1 .. Len(transit) /\ transit'[i] = transit[i]
    BY <1>1, <2>1
  <2>3. IF transit[i] = EndMark
          THEN i = Len(transit) /\ made = Len(answer) + i - 1 /\ task = "done"
          ELSE transit[i] = Len(answer) + i
    BY <2>2 DEF TransitInOrder
  <2> HIDE DEF StreamInv
  <2>4. CASE transit[i] = EndMark
    BY <2>1, <2>2, <2>3, <2>4
  <2>5. CASE transit[i] # EndMark
    BY <2>2, <2>3, <2>5
  <2> QED
    BY <2>4, <2>5
<1>5. Phases'
  BY DEF Phases
<1>6. NormalEndIsComplete'
  BY DEF NormalEndIsComplete
<1> QED
  BY <1>2, <1>3, <1>4, <1>5, <1>6

\* One item goes from the channel to the network, or the failure ends the call.
LEMMA RelayInv == ASSUME StreamInv, Relay PROVE StreamInv'
<1> USE DEF StreamInv
<1>1. CASE Head(channel) = Failure
  BY <1>1, StreamCloses DEF Relay, Close
<1>2. CASE Head(channel) # Failure
  <2> DEFINE e == Head(channel)
  <2>1. /\ channel # <<>>
        /\ transit' = Append(transit, e)
        /\ channel' = Tail(channel)
        /\ handler = "draining" /\ task # "idle" /\ status = "none"
        /\ UNCHANGED <<prompt, task, made, handler, status, client, answer>>
    BY <1>2 DEF Relay, Phases
  <2>2. /\ channel \in Seq(Item) /\ transit \in Seq(Item)
        /\ Len(transit) \in Nat /\ Len(answer) \in Nat
    BY Queues
  <2>3. /\ e = channel[1] /\ e \in Item /\ Len(channel) \in Nat \ {0}
        /\ channel' \in Seq(Item) /\ Len(channel') = Len(channel) - 1
        /\ \A i \in 1 .. Len(channel') : channel'[i] = channel[i + 1]
        /\ e \in Token => Tokens(channel') = Tokens(channel) - 1
    BY <2>1, <2>2, TokensTail
  <2> HIDE DEF e
  <2>4. e \in Token \cup {EndMark}
    BY <1>2, <2>3 DEF Item, e
  <2>5. /\ transit' \in Seq(Token \cup {EndMark}) /\ Len(transit') = Len(transit) + 1
        /\ \A i \in 1 .. Len(transit) : transit'[i] = transit[i]
        /\ transit'[Len(transit) + 1] = e
    BY <2>1, <2>4, AppendProperties DEF StreamTypeOK
  <2>6. StreamTypeOK'
    BY <2>1, <2>2, <2>3, <2>5, StreamAssumption DEF StreamTypeOK, Item
  <2>7. AnswerInOrder' /\ NormalEndIsComplete'
    BY <2>1 DEF AnswerInOrder, NormalEndIsComplete
  <2>8. Phases'
    BY <2>1 DEF Phases
  <2>9. client = "open" =>
          \A i \in 1 .. Len(transit) : transit[i] \in Token /\ transit[i] = Len(answer) + i
    BY <2>1 DEF TransitInOrder, StreamTypeOK
  <2>10. client = "open" =>
           /\ Tokens(transit) = Len(transit)
           /\ Tokens(transit') = IF e \in Token THEN Len(transit) + 1 ELSE Len(transit)
    BY <2>1, <2>2, <2>3, <2>9, TokensAppend
  <2>11. CASE e \in Token
    <3>1. client = "open" => e = Len(answer) + Len(transit) + 1
      BY <2>2, <2>3, <2>11 DEF ChannelInOrder
    <3>2. e # EndMark
      BY <2>11 DEF Token, EndMark
    <3>3. TransitInOrder'
      <4> SUFFICES ASSUME client = "open", NEW i \in 1 .. Len(transit) + 1
                   PROVE  transit'[i] # EndMark /\ transit'[i] = Len(answer) + i
        BY <2>1, <2>5 DEF TransitInOrder
      <4>1. CASE i \in 1 .. Len(transit)
        <5>1. transit[i] # EndMark
          BY <2>9, <4>1 DEF Token, EndMark
        <5> QED
          BY <2>5, <2>9, <4>1, <5>1
      <4>2. CASE i = Len(transit) + 1
        BY <2>2, <2>5, <3>1, <3>2, <4>2
      <4> QED
        BY <2>2, <4>1, <4>2
    <3>4. ChannelInOrder'
      <4> SUFFICES ASSUME client = "open", NEW i \in 1 .. Len(channel) - 1
                   PROVE  IF channel[i + 1] \in Token
                            THEN channel[i + 1] = Len(answer) + (Len(transit) + 1) + i
                            ELSE i = Len(channel) - 1 /\ task = "done"
        <5>1. /\ Len(channel') = Len(channel) - 1 /\ Len(transit') = Len(transit) + 1
              /\ \A i \in 1 .. Len(channel) - 1 : channel'[i] = channel[i + 1]
              /\ UNCHANGED <<client, answer, task>>
          BY <2>1, <2>3, <2>5
        <5> QED
          BY <5>1 DEF ChannelInOrder
      <4>1. i + 1 \in 1 .. Len(channel)
        BY <2>3
      <4> QED
        BY <2>2, <2>3, <4>1 DEF ChannelInOrder
    <3>5. NothingLost'
      <4>1. Tokens(channel) \in Int
        BY <2>3 DEF Tokens
      <4>2. client = "open" => made = Len(answer) + Tokens(transit) + Tokens(channel)
        BY <2>1 DEF NothingLost
      <4>3. client = "open" =>
              Tokens(transit') = Tokens(transit) + 1 /\ Tokens(channel') = Tokens(channel) - 1
        BY <2>3, <2>10, <2>11
      <4>4. client = "open" => Tokens(transit) \in Int
        BY <2>2, <2>10
      <4>5. client = "open" => made = Len(answer) + Tokens(transit') + Tokens(channel')
        BY <2>2, <4>1, <4>2, <4>3, <4>4
      <4> QED
        BY <2>1, <4>5 DEF NothingLost
    <3> QED
      BY <2>6, <2>7, <2>8, <3>3, <3>4, <3>5
  <2>12. CASE e \notin Token
    <3>1. client = "open" => Len(channel) = 1 /\ task = "done"
      BY <2>3, <2>12 DEF ChannelInOrder
    <3>2. client = "open" => /\ made = Len(answer) + Len(transit)
                             /\ Tokens(channel) = 0
                             /\ channel' = <<>>
      <4>1. client = "open" => Len(channel') = 0
        <5>1. Len(channel') = Len(channel) - 1
          BY <2>3
        <5> QED
          BY <3>1, <5>1
      <4>2. channel' = <<>> <=> Len(channel') = 0
        BY <2>3, EmptySeq
      <4>3. client = "open" => Tokens(channel) = 0
        BY <2>1, <2>3, <2>12, <3>1 DEF Tokens
      <4>4. client = "open" => made = Len(answer) + Tokens(transit) + Tokens(channel)
        BY <2>1 DEF NothingLost
      <4>5. client = "open" => made = Len(answer) + Len(transit)
        BY <2>2, <2>10, <4>3, <4>4
      <4> QED
        BY <4>1, <4>2, <4>3, <4>5
    <3>3. TransitInOrder'
      <4>1. e = EndMark
        BY <2>4, <2>12
      <4> SUFFICES ASSUME client = "open", NEW i \in 1 .. Len(transit) + 1
                   PROVE  IF transit'[i] = EndMark
                            THEN i = Len(transit) + 1 /\ made = Len(answer) + i - 1
                            ELSE transit'[i] = Len(answer) + i
        BY <2>1, <2>5, <3>1, <3>2 DEF TransitInOrder
      <4>2. CASE i \in 1 .. Len(transit)
        <5>1. transit[i] # EndMark
          BY <2>9, <4>2 DEF Token, EndMark
        <5> QED
          BY <2>5, <2>9, <4>2, <5>1
      <4>3. CASE i = Len(transit) + 1
        BY <2>2, <2>5, <3>2, <4>1, <4>3
      <4> QED
        BY <2>2, <4>2, <4>3
    <3>4. ChannelInOrder'
      BY <2>1, <3>2 DEF ChannelInOrder
    <3>5. NothingLost'
      <4>1. Tokens(<<>>) = 0
        BY Queues
      <4> QED
        BY <2>1, <2>2, <2>10, <2>12, <3>2, <4>1 DEF NothingLost
    <3> QED
      BY <2>6, <2>7, <2>8, <3>3, <3>4, <3>5
  <2> QED
    BY <2>11, <2>12
<1> QED
  BY <1>1, <1>2

\* The client takes the next token.
LEMMA ReadTokenInv == ASSUME StreamInv, ReadToken PROVE StreamInv'
<1> USE DEF StreamInv
<1> DEFINE e == Head(transit)
<1>1. /\ client = "open" /\ transit # <<>> /\ e # EndMark
      /\ answer' = Append(answer, e)
      /\ transit' = Tail(transit)
      /\ UNCHANGED <<prompt, task, made, channel, handler, status, client>>
  BY DEF ReadToken
<1>2. /\ transit \in Seq(Item) /\ answer \in Seq(Token)
      /\ Len(channel) \in Nat /\ Len(answer) \in Nat
  BY Queues DEF StreamTypeOK
<1>3. /\ e = transit[1] /\ Len(transit) \in Nat \ {0}
      /\ transit' \in Seq(Item) /\ Len(transit') = Len(transit) - 1
      /\ \A i \in 1 .. Len(transit') : transit'[i] = transit[i + 1]
      /\ e \in Token => Tokens(transit') = Tokens(transit) - 1
  BY <1>1, <1>2, TokensTail
<1>4. e \in Token /\ transit' \in Seq(Token \cup {EndMark})
  <2>1. transit \in Seq(Token \cup {EndMark})
    BY DEF StreamTypeOK
  <2> HIDE DEF StreamInv
  <2> QED
    BY <1>1, <2>1, HeadTailProperties
<1> HIDE DEF e
<1>5. /\ answer' \in Seq(Token) /\ Len(answer') = Len(answer) + 1
      /\ \A i \in 1 .. Len(answer) : answer'[i] = answer[i]
      /\ answer'[Len(answer) + 1] = e
  BY <1>1, <1>2, <1>4, AppendProperties
<1>6. e = Len(answer) + 1
  <2>1. 1 \in 1 .. Len(transit) /\ transit[1] # EndMark
    BY <1>1, <1>3
  <2>2. transit[1] = Len(answer) + 1
    BY <1>1, <2>1 DEF TransitInOrder
  <2> QED
    BY <1>3, <2>2
<1>7. StreamTypeOK'
  BY <1>1, <1>4, <1>5 DEF StreamTypeOK
<1>8. AnswerInOrder'
  BY <1>2, <1>5, <1>6 DEF AnswerInOrder
<1>9. TransitInOrder'
  <2> SUFFICES ASSUME NEW i \in 1 .. Len(transit')
               PROVE  IF transit'[i] = EndMark
                        THEN /\ i = Len(transit')
                             /\ made = Len(answer') + i - 1
                             /\ task = "done"
                             /\ channel = <<>>
                        ELSE transit'[i] = Len(answer') + i
    BY <1>1 DEF TransitInOrder
  <2>1. i + 1 \in 1 .. Len(transit) /\ transit'[i] = transit[i + 1]
    BY <1>3
  <2>2. IF transit[i + 1] = EndMark
          THEN /\ i + 1 = Len(transit)
               /\ made = Len(answer) + (i + 1) - 1
               /\ task = "done"
               /\ channel = <<>>
          ELSE transit[i + 1] = Len(answer) + (i + 1)
    BY <1>1, <2>1 DEF TransitInOrder
  <2> QED
    BY <1>2, <1>3, <1>5, <2>1, <2>2
<1>10. ChannelInOrder'
  <2>1. \A i \in Int : Len(answer') + Len(transit') + i = Len(answer) + Len(transit) + i
    BY <1>2, <1>3, <1>5
  <2>2. \A i \in 1 .. Len(channel) : i \in Int
    BY <1>2
  <2> SUFFICES ASSUME NEW i \in 1 .. Len(channel)
               PROVE  IF channel[i] \in Token
                        THEN channel[i] = Len(answer') + Len(transit') + i
                        ELSE i = Len(channel) /\ task = "done"
    BY <1>1 DEF ChannelInOrder
  <2> QED
    BY <1>1, <2>1, <2>2 DEF ChannelInOrder
<1>11. NothingLost'
  <2>1. Tokens(transit) \in Int /\ Tokens(channel) \in Int
    BY <1>2, <1>3 DEF Tokens
  <2>2. Len(answer') + Tokens(transit') = Len(answer) + Tokens(transit)
    BY <1>2, <1>3, <1>4, <1>5, <2>1
  <2>3. NothingLost' <=>
          (status # "error" => made = Len(answer') + Tokens(transit') + Tokens(channel))
    BY <1>1 DEF NothingLost, Tokens
  <2> QED
    BY <1>1, <2>2, <2>3 DEF NothingLost
<1>12. Phases'
  BY <1>1, <1>3, EmptySeq DEF Phases
<1>13. NormalEndIsComplete'
  BY <1>1 DEF NormalEndIsComplete
<1> QED
  BY <1>7, <1>8, <1>9, <1>10, <1>11, <1>12, <1>13

\* The call is over for the client; with a normal end the answer is complete.
LEMMA LeaveInv ==
  ASSUME StreamInv, NEW outcome \in {"done", "failed", "gone"}, Leave(outcome),
         outcome = "done" => NormalEndIsComplete' /\ handler # "waiting"
  PROVE  StreamInv'
<1> USE DEF StreamInv, Leave
<1>1. StreamTypeOK'
  BY Queues DEF StreamTypeOK, Client
<1>2. AnswerInOrder' /\ TransitInOrder' /\ ChannelInOrder' /\ NothingLost'
  BY DEF AnswerInOrder, TransitInOrder, ChannelInOrder, NothingLost
<1>3. Phases'
  BY DEF Phases
<1>4. NormalEndIsComplete'
  BY DEF NormalEndIsComplete
<1> QED
  BY <1>1, <1>2, <1>3, <1>4

LEMMA ReadEndInv == ASSUME StreamInv, ReadEnd PROVE StreamInv'
<1> USE DEF StreamInv
<1>1. client = "open" /\ Leave("done")
  BY DEF ReadEnd, Leave
<1>2. Len(answer) = made /\ task \in {"idle", "done"} /\ handler # "waiting"
  <2>1. CASE transit # <<>> /\ Head(transit) = EndMark
    <3>1. transit[1] = EndMark /\ 1 \in 1 .. Len(transit)
      <4>1. transit \in Seq(Item)
        BY Queues
      <4>2. Head(transit) = transit[1] /\ Len(transit) \in Nat \ {0}
        BY <2>1, <4>1, TokensTail
      <4> QED
        BY <2>1, <4>2
    <3>2. made = Len(answer) + 1 - 1 /\ task = "done"
      BY <1>1, <3>1 DEF TransitInOrder
    <3> QED
      BY <2>1, <3>2, Queues DEF Phases
  <2>2. CASE transit = <<>> /\ status = "ok"
    <3>1. handler = "closed" /\ channel = <<>> /\ task \in {"idle", "done"}
      BY <2>2 DEF Phases
    <3> QED
      BY <1>1, <2>2, <3>1, Queues DEF NothingLost
  <2> QED
    BY <2>1, <2>2 DEF ReadEnd
<1>3. answer = [i \in 1 .. made |-> i]
  <2>1. answer = [i \in 1 .. Len(answer) |-> answer[i]]
    BY DEF StreamTypeOK
  <2> QED
    BY <1>2, <2>1 DEF AnswerInOrder
<1>4. NormalEndIsComplete'
  BY <1>1, <1>2, <1>3 DEF Leave, NormalEndIsComplete
<1> QED
  BY <1>1, <1>2, <1>4, LeaveInv

\* The stream goes on to its next place without moving an item.
LEMMA StreamMoves ==
  ASSUME StreamInv, Spawn \/ Drained \/ EndStream PROVE StreamInv'
<1> USE DEF StreamInv, Handler, Task
<1>1. CASE Spawn
  <2>1. StreamTypeOK'
    BY <1>1, StreamAssumption, SMT DEF Spawn, StreamTypeOK, Phases
  <2> QED
    BY <1>1, <2>1
       DEF Spawn, AnswerInOrder, TransitInOrder, ChannelInOrder, NothingLost, Phases,
           NormalEndIsComplete
<1>2. CASE Drained
  BY <1>2
     DEF Drained, StreamTypeOK, AnswerInOrder, TransitInOrder, ChannelInOrder, NothingLost,
         Phases, NormalEndIsComplete
<1>3. CASE EndStream
  <2>1. channel' = channel
    BY <1>3 DEF EndStream, Close, Phases
  <2> QED
    BY <1>3, <2>1
       DEF EndStream, Close, StreamTypeOK, AnswerInOrder, TransitInOrder, ChannelInOrder,
           NothingLost, Phases, NormalEndIsComplete
<1> QED
  BY <1>1, <1>2, <1>3

\* A forward pass puts the one response of its call on the network.
LEMMA ForwardPassInv == ASSUME StreamInv, ForwardPass PROVE StreamInv'
<1> USE DEF StreamInv
<1>1. /\ made' = 1 /\ transit' = <<1>> /\ handler' = "between" /\ handler = "waiting"
      /\ task = "idle" /\ channel = <<>> /\ answer = <<>> /\ client # "done" /\ status = "none"
      /\ UNCHANGED <<prompt, task, channel, status, client, answer>>
  BY DEF ForwardPass, Phases
<1>2. 1 \in Token /\ 1 # EndMark
  BY StreamAssumption DEF Token, EndMark
<1>3. /\ transit' \in Seq(Token \cup {EndMark}) /\ transit' # <<>>
      /\ Len(transit') = 1 /\ transit'[1] = 1
      /\ Len(<<>>) = 0
  BY <1>1, <1>2
<1>4. StreamTypeOK'
  BY <1>1, <1>3, StreamAssumption DEF StreamTypeOK, Handler
<1>5. AnswerInOrder' /\ ChannelInOrder' /\ Phases' /\ NormalEndIsComplete'
  BY <1>1 DEF AnswerInOrder, ChannelInOrder, Phases, NormalEndIsComplete
<1>6. TransitInOrder'
  BY <1>1, <1>2, <1>3 DEF TransitInOrder
<1>7. NothingLost'
  <2>1. Tokens(transit') = 1 /\ Tokens(channel') = 0
    BY <1>1, <1>2, <1>3 DEF Tokens
  <2> QED
    BY <1>1, <1>3, <2>1 DEF NothingLost
<1> QED
  BY <1>4, <1>5, <1>6, <1>7

\* The task ends, with an item for the stream if the stream still listens.
LEMMA FinishInv ==
  ASSUME StreamInv, task \notin {"idle", "done"}, NEW item \in Item \ Token, Finish(item)
  PROVE  StreamInv'
<1> USE DEF StreamInv
<1>1. CASE handler = "draining"
  <2>1. /\ Len(channel) < CHANNEL /\ channel' = Append(channel, item)
        /\ task' = "done" /\ made' = made
        /\ UNCHANGED <<prompt, handler, transit, status, client, answer>>
    BY <1>1 DEF Finish, Room
  <2> HIDE DEF StreamInv
  <2> QED
    BY <1>1, <2>1, TaskSends DEF Task
<1>2. CASE handler # "draining"
  <2>1. /\ handler = "closed" /\ channel = <<>> /\ task' = "done"
        /\ UNCHANGED <<prompt, made, channel, handler, transit, status, client, answer>>
    BY <1>2 DEF Finish, Phases, StreamTypeOK, Handler
  <2> QED
    BY <2>1
       DEF StreamTypeOK, Task, AnswerInOrder, TransitInOrder, ChannelInOrder, NothingLost, Phases,
           NormalEndIsComplete
<1> QED
  BY <1>1, <1>2

\* Every step of the task, the stream, the network and the client keeps StreamInv.
LEMMA StreamNext_Inv == StreamInv /\ [StreamNext]_streamVars => StreamInv'
<1> SUFFICES ASSUME StreamInv, [StreamNext]_streamVars PROVE StreamInv'
  OBVIOUS
<1>1. ASSUME TaskStep PROVE StreamInv'
  <2>1. CASE Loaded \/ Sample \/ LeaveLoop \/ SendRefused
    BY <2>1, TaskMoves
  <2>2. EndMark \in Item \ Token /\ Failure \in Item \ Token
    BY StreamAssumption DEF Item, Token, EndMark, Failure
  <2>3. CASE LoadFails
    BY <2>2, <2>3, FinishInv DEF LoadFails
  <2>4. CASE SendEnd
    BY <2>2, <2>4, FinishInv DEF SendEnd
  <2>5. CASE SendToken
    <3>1. /\ task = "sending" /\ handler = "draining" /\ Len(channel) < CHANNEL
          /\ made' = made + 1 /\ channel' = Append(channel, made + 1)
          /\ task' \in IF made + 1 = MaxTokens THEN {"ending"} ELSE {"generating", "ending"}
          /\ UNCHANGED <<prompt, handler, transit, status, client, answer>>
      BY <2>5 DEF SendToken, Room, AfterToken
    <3>2. made \in Nat /\ made < MaxTokens
      BY <3>1 DEF StreamInv, StreamTypeOK
    <3>3. made + 1 \in Token /\ made + 1 \in Item
      BY <3>2, StreamAssumption DEF Token, Item
    <3>4. task' \in {"loading", "generating", "sending"} => made + 1 < MaxTokens
      BY <3>1, <3>2, StreamAssumption
    <3>5. task' \in Task /\ task' # "idle"
      BY <3>1 DEF Task
    <3> QED
      BY <3>1, <3>3, <3>4, <3>5, TaskSends
  <2> QED
    BY <1>1, <2>1, <2>3, <2>4, <2>5 DEF TaskStep
<1>2. ASSUME HandlerStep PROVE StreamInv'
  <2>1. CASE Refuse
    BY <2>1, StreamCloses DEF Refuse, Close
  <2> QED
    BY <1>2, <2>1, StreamMoves, ForwardPassInv, RelayInv DEF HandlerStep
<1>3. CASE Reset
  BY <1>3, StreamCloses DEF Reset, Close
<1>4. CASE Disconnect
  BY <1>4, StreamCloses DEF Disconnect, Close
<1>5. ASSUME ClientStep PROVE StreamInv'
  <2>1. CASE ReadFailure \/ Deadline
    BY <2>1, LeaveInv DEF ReadFailure, Deadline
  <2>2. CASE GoAway
    BY <2>2, LeaveInv DEF GoAway
  <2> QED
    BY <1>5, <2>1, <2>2, ReadTokenInv, ReadEndInv DEF ClientStep
<1>6. CASE UNCHANGED streamVars
  BY <1>6
     DEF streamVars, StreamInv, StreamTypeOK, AnswerInOrder, TransitInOrder, ChannelInOrder,
         NothingLost, Tokens, Phases, NormalEndIsComplete
<1> QED
  BY <1>1, <1>2, <1>3, <1>4, <1>5, <1>6 DEF StreamNext

\* The task, the stream, the network and the client of a call agree at every
\* moment, whatever the number of tokens and the capacities (forward_stream).
THEOREM StreamAgrees == StreamSpec => []StreamInv
  BY StreamInit_Inv, StreamNext_Inv, PTL DEF StreamSpec

\* An answer that ends without an exception is complete: neither a full channel,
\* a failed load, a broken connection nor the deadline shows as a short answer.
THEOREM AnswersAreComplete == StreamSpec => []NormalEndIsComplete
<1>1. StreamInv => NormalEndIsComplete
  BY DEF StreamInv
<1> QED
  BY <1>1, StreamAgrees, PTL

-----------------------------------------------------------------------------
(* Machine: the invariant.                                                 *)

\* Where the handler of a call of some kind may be.
Places(kind) ==
  CASE kind = "none" -> {"idle"}
    [] kind = "tune" -> {"tune", "reply", "replied"}
    [] kind = "safe" -> {"governor", "no_turbo", "turbo", "max_perf", "reply", "replied"}
    [] kind = "aggressive" -> {"governor", "no_turbo", "turbo", "max_perf", "intel-undervolt",
                               "core", "cache", "ryzenadj", "overclock", "reply", "replied"}
    [] kind = "custom" -> {"reply", "replied"}
    [] kind = "audit" -> {"nvidia-smi", "nouveau", "amd", "radeon", "amdgpu", "i915",
                          "reply", "replied"}
    [] kind = "work" -> {"work", "reply", "replied"}

Kinds == {"none", "tune", "safe", "aggressive", "custom", "audit", "work"}
Place == UNION {Places(kind) : kind \in Kinds}
Requests == {<<>>} \cup {a.asks : a \in UNION {Asks[c] : c \in Call}}
Asked == {ORDER[i] : i \in DOMAIN ORDER}
Says == Asked \cup Unchecked \cup {"core"}
Entries == {"proprietary", "nouveau", "amdgpu", "legacy", "i915"}

CallState ==
  [at : Place, kind : Kinds, asks : Requests, todo : SUBSET Asked, left : SUBSET Device,
   applied : BOOLEAN, told : SUBSET Says, errors : SUBSET Asked, made : SUBSET (Says \cup Device),
   alone : BOOLEAN, found : SUBSET Entries, seen : SUBSET Signs]

MachineTypeOK ==
  /\ DOMAIN settings = Kernel \cup Device
  /\ call \in [Call -> CallState]
  /\ agent \in {"nvidia", "amd", "lspci", "i915", "asleep", "due"}
  /\ report \subseteq {"NVIDIA", "AMD", "Intel"}
  /\ shown \subseteq Signs
  /\ changed \in Nat

\* The request of h is one of its kind, and h is where it may be.
RequestOK(h) ==
  /\ h.at \in Places(h.kind)
  /\ \A k \in DOMAIN h.asks : h.kind = "tune" /\ k \in Asked

\* Each knob of a tuning is told, an error, or still to be tried; and a device it was
\* applied to is set, but for the empty text.
Accounted(h) ==
  h.kind = "tune" =>
    /\ h.told \cup h.errors \cup h.todo = DOMAIN h.asks
    /\ h.told \cap h.errors = {}
    /\ (h.told \cup h.errors) \cap h.todo = {}
    /\ h.at # "tune" => h.todo = {}
    /\ h.applied /\ ~Silent("scheduler", h.asks["scheduler"]) => h.made \cap Device # {}

\* What is told was made, where it was looked at.
ToldWasMade(h) ==
  \A k \in h.told \ Unchecked :
    \/ Silent(k, h.asks[k])
    \/ IF k = "scheduler" THEN h.made \cap Device # {} ELSE k \in h.made

\* What a call that is alone has told is so, and so are the devices it has set.
Holds(h) ==
  h.at \notin {"idle", "replied"} /\ h.alone =>
    /\ \A k \in h.told \cap DOMAIN h.asks :
         \/ Silent(k, h.asks[k])
         \/ IF k = "scheduler"
              THEN \E d \in Device : settings[d] = h.asks[k]
              ELSE settings[k] \in Given(k, h.asks[k])
    /\ \A d \in h.made \cap Device : h.kind = "tune" /\ settings[d] = h.asks["scheduler"]

\* The vendors an audit is done with.
Done(at) ==
  CASE at \in {"nvidia-smi", "nouveau"} -> {}
    [] at \in {"amd", "radeon", "amdgpu"} -> {"NVIDIA"}
    [] at = "i915" -> {"NVIDIA", "AMD"}
    [] OTHER -> {"NVIDIA", "AMD", "Intel"}

\* It has found one driver at most of each, and for each a sign.
FoundWasSeen(h) ==
  h.kind = "audit" /\ h.at # "replied" =>
    /\ shown \subseteq h.seen
    /\ h.at = "amdgpu" => {"amdgpu", "radeon"} \cap h.seen # {}
    /\ \A e \in h.found : SignsOf(e) \cap h.seen # {} /\ Vendor(e) \in Done(h.at)
    /\ \A e, f \in h.found : Vendor(e) = Vendor(f) => e = f

\* As long as nothing has changed it has found what there is.
ShownIsFound(h) ==
  h.kind = "audit" /\ h.at # "replied" /\ changed = 0 =>
    /\ "nvidia-smi" \in shown =>
         h.at # "nouveau" /\ ("NVIDIA" \in Done(h.at) => "proprietary" \in h.found)
    /\ "amdgpu" \in shown =>
         h.at # "radeon" /\ ("AMD" \in Done(h.at) => "amdgpu" \in h.found)
    /\ "i915" \in shown => ("Intel" \in Done(h.at) => "i915" \in h.found)

CallOK(h) ==
  /\ RequestOK(h)
  /\ Accounted(h)
  /\ ToldWasMade(h)
  /\ Holds(h)
  /\ FoundWasSeen(h)
  /\ ShownIsFound(h)

\* Of two calls in flight neither is alone.
NobodyElse ==
  \A c, d \in Call : c # d /\ InFlight(c) /\ InFlight(d) => ~call[c].alone

\* And the report of the start has what there is.
ReportOK ==
  changed = 0 =>
    /\ "NVIDIA" \in report => "nvidia-smi" \in shown
    /\ "AMD" \in report \/ agent = "lspci" => "amdgpu" \in shown
    /\ "Intel" \in report => "i915" \in shown

MachineInv ==
  /\ MachineTypeOK
  /\ \A c \in Call : CallOK(call[c])
  /\ NobodyElse
  /\ ReportOK

LEMMA MachineInitInv == MachineInit => MachineInv
<1> SUFFICES ASSUME MachineInit PROVE MachineInv
  OBVIOUS
<1> USE DEF MachineInit
<1>1. /\ NoCall \in CallState /\ NoCall.kind = "none" /\ NoCall.at = "idle"
      /\ NoCall.told = {} /\ NoCall.asks = <<>>
  BY DEF NoCall, CallState, Requests, Place, Places, Kinds
<1>2. MachineTypeOK
  BY <1>1, MachineAssumption DEF MachineTypeOK, Untuned
<1>3. CallOK(NoCall)
  BY <1>1
     DEF CallOK, RequestOK, Places, Accounted, ToldWasMade, Holds, FoundWasSeen, ShownIsFound
<1>4. NobodyElse /\ ReportOK
  BY <1>1 DEF NobodyElse, InFlight, ReportOK
<1> QED
  BY <1>2, <1>3, <1>4 DEF MachineInv

\* A step of the handler of c disturbs no other: one that is alone excludes c.
LEMMA OneMoves ==
  ASSUME MachineInv, NEW c \in Call, InFlight(c), NEW h \in CallState,
         call' = [call EXCEPT ![c] = h],
         h.at # "idle", h.alone = call[c].alone,
         DOMAIN settings' = DOMAIN settings,
         UNCHANGED <<agent, report, shown, changed>>,
         CallOK(h)'
  PROVE  MachineInv'
<1>1. call \in [Call -> CallState]
  BY DEF MachineInv, MachineTypeOK
<1>2. call'[c] = h /\ \A d \in Call \ {c} : call'[d] = call[d]
  BY <1>1
<1>3. MachineTypeOK'
  BY DEF MachineInv, MachineTypeOK
<1>4. ASSUME NEW d \in Call PROVE CallOK(call[d])'
  <2>1. CASE d = c
    BY <1>2, <2>1
  <2>2. CASE d # c
    <3>1. CallOK(call[d])
      BY DEF MachineInv
    <3>2. call'[d] = call[d]
      BY <1>2, <2>2
    <3>3. Holds(call[d])'
      BY <2>2, <3>2 DEF Holds, NobodyElse, InFlight, MachineInv
    <3> QED
      BY <3>1, <3>2, <3>3
         DEF CallOK, RequestOK, Accounted, ToldWasMade, FoundWasSeen, ShownIsFound
  <2> QED
    BY <2>1, <2>2
<1>5. NobodyElse'
  BY <1>2 DEF NobodyElse, InFlight, MachineInv
<1>6. ReportOK'
  BY DEF ReportOK, MachineInv
<1> QED
  BY <1>3, <1>4, <1>5, <1>6 DEF MachineInv

\* A step that changes no call and nothing a call looks at.
LEMMA NoCallMoves ==
  ASSUME MachineInv, UNCHANGED <<settings, call, shown, changed>>,
         agent' \in {"nvidia", "amd", "lspci", "i915", "asleep", "due"},
         report' \subseteq {"NVIDIA", "AMD", "Intel"},
         ReportOK'
  PROVE  MachineInv'
<1>1. MachineTypeOK'
  BY DEF MachineInv, MachineTypeOK
<1>2. \A c \in Call : CallOK(call[c])'
  BY DEF MachineInv, CallOK, RequestOK, Accounted, ToldWasMade, Holds, FoundWasSeen, ShownIsFound
<1>3. NobodyElse'
  BY DEF MachineInv, NobodyElse, InFlight
<1> QED
  BY <1>1, <1>2, <1>3 DEF MachineInv

LEMMA DetectInv ==
  ASSUME MachineInv, Detect PROVE MachineInv'
<1> DEFINE Vendors == {"NVIDIA", "AMD", "Intel"}
           Stage == {"nvidia", "amd", "lspci", "i915", "asleep", "due"}
<1>1. ASSUME NEW at \in Stage, NEW sign, NEW vendor \in SUBSET Vendors,
             NEW next \in Stage, NEW otherwise \in Stage,
             Detects(at, sign, vendor, next, otherwise),
             "NVIDIA" \in vendor => sign = "nvidia-smi",
             "AMD" \in vendor => at = "lspci",
             "Intel" \in vendor => sign = "i915",
             next = "lspci" => sign = "amdgpu",
             otherwise # "lspci"
      PROVE  MachineInv'
  <2>1. /\ UNCHANGED <<settings, call, shown, changed>>
        /\ agent = at
        /\ \/ sign \in shown /\ agent' = next /\ report' = report \cup vendor
           \/ sign \notin shown /\ agent' = otherwise /\ report' = report
    BY <1>1 DEF Detects
  <2>2. agent' \in Stage /\ report' \subseteq Vendors
    BY <1>1, <2>1 DEF MachineInv, MachineTypeOK
  <2>3. ReportOK'
    BY <1>1, <2>1 DEF ReportOK, MachineInv
  <2> QED
    BY <2>1, <2>2, <2>3, NoCallMoves
<1> HIDE DEF Vendors, Stage
<1>2. CASE Detects("nvidia", "nvidia-smi", {"NVIDIA"}, "amd", "amd")
  BY <1>1, <1>2 DEF Vendors, Stage
<1>3. CASE Detects("amd", "amdgpu", {}, "lspci", "i915")
  BY <1>1, <1>3 DEF Vendors, Stage
<1>4. CASE Detects("lspci", "VGA", {"AMD"}, "i915", "i915")
  BY <1>1, <1>4 DEF Vendors, Stage
<1>5. CASE Detects("i915", "i915", {"Intel"}, "asleep", "asleep")
  BY <1>1, <1>5 DEF Vendors, Stage
<1> QED
  BY <1>2, <1>3, <1>4, <1>5 DEF Detect

LEMMA RuntimeInv ==
  ASSUME MachineInv, Schedule \/ WakeUp \/ Heartbeat \/ UNCHANGED machineVars
  PROVE  MachineInv'
<1>1. /\ UNCHANGED <<settings, call, shown, changed, report>>
      /\ agent' = agent \/ agent' \in {"asleep", "due"}
  BY DEF Schedule, WakeUp, Heartbeat, machineVars
<1>2. agent' \in {"nvidia", "amd", "lspci", "i915", "asleep", "due"}
  BY <1>1 DEF MachineInv, MachineTypeOK
<1>3. report' \subseteq {"NVIDIA", "AMD", "Intel"}
  BY <1>1 DEF MachineInv, MachineTypeOK
<1>4. ReportOK'
  BY <1>1 DEF MachineInv, ReportOK
<1> QED
  BY <1>1, <1>2, <1>3, <1>4, NoCallMoves

\* What a call begins with.
LEMMA NewCallOK ==
  ASSUME MachineInv, NEW c \in Call, NEW a \in Asks[c]
  PROVE  /\ NewCall(a) \in CallState /\ CallOK(NewCall(a))
         /\ NewCall(a).at \notin {"idle", "replied"}
         /\ NewCall(a).alone => \A d \in Call : ~InFlight(d)
<1> DEFINE h == NewCall(a)
           nobody == \A d \in Call : ~InFlight(d)
<1>1. /\ a.kind \in Kinds \ {"none"} /\ a.asks \in Requests /\ shown \in SUBSET Signs
      /\ \A k \in DOMAIN a.asks : a.kind = "tune" /\ k \in Asked
  BY MachineAssumption DEF Kinds, Requests, Asked, MachineInv, MachineTypeOK
<1>2. /\ Entry(a.kind) \in Places(a.kind) /\ Entry(a.kind) \notin {"idle", "replied"}
      /\ a.kind = "tune" => Entry(a.kind) = "tune"
      /\ a.kind = "audit" => Entry(a.kind) = "nvidia-smi"
  BY <1>1 DEF Entry, Places, Kinds
<1>3. Entry(a.kind) \in Place
  BY <1>1, <1>2 DEF Place
<1>4. /\ NoCall \in CallState
      /\ NoCall.left = Device /\ NoCall.told = {} /\ NoCall.errors = {}
      /\ NoCall.made = {} /\ NoCall.found = {} /\ ~NoCall.applied
  BY DEF NoCall, CallState, Requests, Place, Places, Kinds
<1>5. h = [NoCall EXCEPT
             !.at = Entry(a.kind), !.kind = a.kind, !.asks = a.asks, !.todo = DOMAIN a.asks,
             !.alone = nobody, !.seen = shown]
  BY DEF NewCall
<1>6. nobody \in BOOLEAN /\ DOMAIN a.asks \in SUBSET Asked
  BY <1>1
<1> HIDE DEF h, nobody
<1>7. h \in CallState
  BY <1>6, <1>1, <1>3, <1>4, <1>5 DEF CallState
<1>8. /\ h.at = Entry(a.kind) /\ h.kind = a.kind /\ h.asks = a.asks /\ h.todo = DOMAIN a.asks
      /\ h.told = {} /\ h.errors = {} /\ h.made = {} /\ h.found = {} /\ h.seen = shown
      /\ ~h.applied
  BY <1>4, <1>5 DEF CallState
<1>9. h.alone <=> nobody
  BY <1>4, <1>5 DEF CallState
<1>10. RequestOK(h) /\ Accounted(h) /\ ToldWasMade(h) /\ Holds(h)
  BY <1>1, <1>2, <1>8 DEF RequestOK, Accounted, ToldWasMade, Holds
<1>11. FoundWasSeen(h) /\ ShownIsFound(h)
  BY <1>2, <1>8 DEF FoundWasSeen, ShownIsFound, Done
<1> QED
  BY <1>2, <1>7, <1>8, <1>9, <1>10, <1>11 DEF CallOK, h, nobody

\* A call begins: the others in flight are no longer alone.
LEMMA BeginInv ==
  ASSUME MachineInv, NEW c \in Call, Begin(c) PROVE MachineInv'
<1>1. PICK a \in Asks[c] :
        call' = [d \in Call |->
          IF d = c THEN NewCall(a)
          ELSE IF InFlight(d) THEN [call[d] EXCEPT !.alone = FALSE] ELSE call[d]]
  BY DEF Begin
<1>2. UNCHANGED <<settings, agent, report, shown, changed>>
  BY DEF Begin
<1>3. /\ NewCall(a) \in CallState /\ CallOK(NewCall(a))
      /\ NewCall(a).at \notin {"idle", "replied"}
      /\ NewCall(a).alone => \A d \in Call : ~InFlight(d)
  BY NewCallOK
<1>4. call'[c] = NewCall(a)
  BY <1>1
<1>5. ASSUME NEW d \in Call, d # c
      PROVE  /\ call'[d] \in CallState /\ CallOK(call'[d])
             /\ InFlight(d)' <=> InFlight(d)
             /\ InFlight(d) => ~call'[d].alone
  <2>1. call[d] \in CallState /\ CallOK(call[d])
    BY DEF MachineInv, MachineTypeOK
  <2>2. CASE InFlight(d)
    <3> DEFINE h == call'[d]
    <3>1. h = [call[d] EXCEPT !.alone = FALSE]
      BY <1>1, <1>5, <2>2
    <3> HIDE DEF h
    <3>2. /\ h \in CallState /\ ~h.alone /\ h.at = call[d].at /\ h.kind = call[d].kind
          /\ h.asks = call[d].asks /\ h.todo = call[d].todo /\ h.told = call[d].told
          /\ h.errors = call[d].errors /\ h.made = call[d].made /\ h.found = call[d].found
          /\ h.seen = call[d].seen /\ h.applied = call[d].applied
      BY <2>1, <3>1 DEF CallState
    <3>3. CallOK(h)
      BY <2>1, <3>2
         DEF CallOK, RequestOK, Accounted, ToldWasMade, Holds, FoundWasSeen, ShownIsFound
    <3> QED
      BY <3>2, <3>3 DEF InFlight, h
  <2>3. CASE ~InFlight(d)
    <3>1. call'[d] = call[d]
      BY <1>1, <1>5, <2>3
    <3> QED
      BY <2>1, <2>3, <3>1 DEF InFlight
  <2> QED
    BY <2>2, <2>3
<1>6. MachineTypeOK'
  <2>1. \A d \in Call : call'[d] \in CallState
    BY <1>3, <1>4, <1>5
  <2>2. call' \in [Call -> CallState]
    BY <1>1, <2>1
  <2> QED
    BY <1>2, <2>2 DEF MachineInv, MachineTypeOK
<1>7. \A d \in Call : CallOK(call[d])'
  <2> TAKE d \in Call
  <2>1. CallOK(call'[d])
    BY <1>3, <1>4, <1>5
  <2> QED
    BY <1>2, <2>1
       DEF CallOK, RequestOK, Accounted, ToldWasMade, Holds, FoundWasSeen, ShownIsFound
<1>8. NobodyElse'
  BY <1>3, <1>4, <1>5 DEF NobodyElse
<1>9. ReportOK'
  BY <1>2 DEF MachineInv, ReportOK
<1> QED
  BY <1>6, <1>7, <1>8, <1>9 DEF MachineInv

\* A sign comes or goes: the audits that go on have seen both.
LEMMA ChangeInv ==
  ASSUME MachineInv, Change PROVE MachineInv'
<1>1. /\ call' = [c \in Call |->
           IF InFlight(c) THEN [call[c] EXCEPT !.seen = @ \cup shown'] ELSE call[c]]
      /\ shown' \subseteq Signs /\ changed' \in Nat /\ changed' # 0
      /\ UNCHANGED <<settings, agent, report>>
  BY DEF Change, MachineInv, MachineTypeOK
<1>2. ASSUME NEW c \in Call
      PROVE  /\ call'[c] \in CallState /\ CallOK(call[c])'
             /\ InFlight(c)' <=> InFlight(c)
             /\ call'[c].alone = call[c].alone
  <2>1. call[c] \in CallState /\ CallOK(call[c])
    BY DEF MachineInv, MachineTypeOK
  <2>2. CASE InFlight(c)
    <3> DEFINE seen == call[c].seen \cup shown'
    <3>1. PICK h : h = call'[c]
      OBVIOUS
    <3>2. h = [call[c] EXCEPT !.seen = seen]
      BY <1>1, <2>2, <3>1
    <3>3. seen \in SUBSET Signs
      BY <1>1, <2>1 DEF CallState
    <3> HIDE DEF seen
    <3>4. /\ h \in CallState /\ h.alone = call[c].alone /\ h.at = call[c].at
          /\ h.kind = call[c].kind /\ h.asks = call[c].asks /\ h.todo = call[c].todo
          /\ h.told = call[c].told /\ h.errors = call[c].errors /\ h.made = call[c].made
          /\ h.found = call[c].found /\ h.seen = seen /\ h.applied = call[c].applied
      BY <2>1, <3>2, <3>3 DEF CallState
    <3>5. RequestOK(h)' /\ Accounted(h)' /\ ToldWasMade(h)' /\ Holds(h)'
      BY <1>1, <2>1, <3>4 DEF CallOK, RequestOK, Accounted, ToldWasMade, Holds
    <3>6. FoundWasSeen(h)' /\ ShownIsFound(h)'
      BY <1>1, <2>1, <3>4 DEF CallOK, FoundWasSeen, ShownIsFound, seen
    <3> QED
      BY <3>1, <3>4, <3>5, <3>6 DEF InFlight, CallOK
  <2>3. CASE ~InFlight(c)
    <3>1. call'[c] = call[c]
      BY <1>1, <2>3
    <3>2. call[c].at \in {"idle", "replied"}
      BY <2>3 DEF InFlight
    <3>3. CallOK(call[c])'
      BY <1>1, <2>1, <3>1, <3>2
         DEF CallOK, RequestOK, Places, Accounted, ToldWasMade, Holds, FoundWasSeen, ShownIsFound
    <3> QED
      BY <2>1, <3>1, <3>3 DEF InFlight
  <2> QED
    BY <2>2, <2>3
<1>3. MachineTypeOK'
  <2>1. call' \in [Call -> CallState]
    BY <1>1, <1>2
  <2> QED
    BY <1>1, <2>1 DEF MachineInv, MachineTypeOK
<1>4. NobodyElse'
  BY <1>2 DEF NobodyElse, MachineInv
<1>5. ReportOK'
  BY <1>1 DEF ReportOK
<1> QED
  BY <1>2, <1>3, <1>4, <1>5 DEF MachineInv

\* What a handler knows of its call.
LEMMA OwnCall ==
  ASSUME MachineInv, NEW c \in Call
  PROVE  /\ call \in [Call -> CallState] /\ call[c] \in CallState /\ CallOK(call[c])
         /\ DOMAIN settings = Kernel \cup Device /\ shown \subseteq Signs
         /\ call[c].at = "tune" => call[c].kind = "tune"
         /\ call[c].at \in {"governor", "no_turbo", "turbo", "max_perf"} =>
              call[c].kind \in {"safe", "aggressive"}
         /\ call[c].at \in {"intel-undervolt", "core", "cache", "ryzenadj", "overclock"} =>
              call[c].kind = "aggressive"
         /\ call[c].at \in {"nvidia-smi", "nouveau", "amd", "radeon", "amdgpu", "i915"} =>
              call[c].kind = "audit"
         /\ call[c].at = "work" => call[c].kind = "work"
<1>1. /\ call \in [Call -> CallState] /\ call[c] \in CallState /\ CallOK(call[c])
      /\ DOMAIN settings = Kernel \cup Device /\ shown \subseteq Signs
  BY DEF MachineInv, MachineTypeOK
<1>2. call[c].at \in Places(call[c].kind) /\ call[c].kind \in Kinds
  BY <1>1 DEF CallOK, RequestOK, CallState
<1> QED
  BY <1>1, <1>2 DEF Places, Kinds

\* A knob is set, is told without having been, or refuses.
LEMMA TuneKnobInv ==
  ASSUME MachineInv, NEW c \in Call, TuneKnob(c) PROVE MachineInv'
<1>1. PICK k \in call[c].todo \ {"scheduler"} :
        /\ AtKnob(c, k)
        /\ \/ /\ Knob(k, call[c].asks[k])
              /\ call' = [call EXCEPT ![c].told = @ \cup {k}, ![c].made = @ \cup {k},
                                      ![c].todo = @ \ {k}]
           \/ /\ Silent(k, call[c].asks[k])
              /\ call' = [call EXCEPT ![c].told = @ \cup {k}, ![c].todo = @ \ {k}]
              /\ UNCHANGED settings
           \/ /\ call' = [call EXCEPT ![c].errors = @ \cup {k}, ![c].todo = @ \ {k}]
              /\ UNCHANGED settings
  BY Zenon DEF TuneKnob
<1>2. UNCHANGED <<agent, report, shown, changed>>
  BY DEF TuneKnob, machineUnchanged
<1>3. /\ call \in [Call -> CallState] /\ call[c] \in CallState /\ CallOK(call[c])
      /\ DOMAIN settings = Kernel \cup Device /\ call[c].at = "tune" /\ call[c].kind = "tune"
  BY <1>1, OwnCall DEF AtKnob, On
<1>4. /\ k \in Asked \ {"scheduler"} /\ k \in Kernel \ Device
      /\ k \in DOMAIN call[c].asks /\ k \notin call[c].told \cup call[c].errors
  BY <1>1, <1>3, MachineAssumption DEF CallOK, Accounted, CallState, Asked, ORDER, Kernel
<1>5. PICK h : h = call'[c]
  OBVIOUS
<1>6. CASE /\ Knob(k, call[c].asks[k])
           /\ call' = [call EXCEPT ![c].told = @ \cup {k}, ![c].made = @ \cup {k},
                                   ![c].todo = @ \ {k}]
  <2>1. PICK w \in Given(k, call[c].asks[k]) : settings' = [settings EXCEPT ![k] = w]
    BY <1>6 DEF Knob
  <2>2. /\ call' = [call EXCEPT ![c] = h]
        /\ h = [call[c] EXCEPT !.told = @ \cup {k}, !.made = @ \cup {k}, !.todo = @ \ {k}]
    BY <1>3, <1>5, <1>6
  <2>3. /\ h \in CallState /\ h.alone = call[c].alone /\ h.at = "tune" /\ h.kind = "tune"
        /\ h.asks = call[c].asks /\ h.todo = call[c].todo \ {k}
        /\ h.told = call[c].told \cup {k} /\ h.errors = call[c].errors
        /\ h.made = call[c].made \cup {k} /\ h.applied = call[c].applied
    BY <1>3, <1>4, <2>2 DEF CallState, Says
  <2>4. RequestOK(h)' /\ Accounted(h)' /\ ToldWasMade(h)'
    BY <1>3, <1>4, <2>3 DEF CallOK, RequestOK, Accounted, ToldWasMade
  <2>5. Holds(h)'
    BY <1>3, <1>4, <2>1, <2>3, MachineAssumption DEF CallOK, RequestOK, Holds, Asked, ORDER, Kernel
  <2>6. FoundWasSeen(h)' /\ ShownIsFound(h)'
    BY <2>3 DEF FoundWasSeen, ShownIsFound
  <2> QED
    BY <1>1, <1>2, <1>3, <2>1, <2>2, <2>3, <2>4, <2>5, <2>6, OneMoves DEF InFlight, CallOK
<1>7. CASE /\ Silent(k, call[c].asks[k])
           /\ call' = [call EXCEPT ![c].told = @ \cup {k}, ![c].todo = @ \ {k}]
           /\ UNCHANGED settings
  <2>1. /\ call' = [call EXCEPT ![c] = h]
        /\ h = [call[c] EXCEPT !.told = @ \cup {k}, !.todo = @ \ {k}]
    BY <1>3, <1>5, <1>7
  <2>2. /\ h \in CallState /\ h.alone = call[c].alone /\ h.at = "tune" /\ h.kind = "tune"
        /\ h.asks = call[c].asks /\ h.todo = call[c].todo \ {k}
        /\ h.told = call[c].told \cup {k} /\ h.errors = call[c].errors
        /\ h.made = call[c].made /\ h.applied = call[c].applied
    BY <1>3, <1>4, <2>1 DEF CallState, Says
  <2>3. RequestOK(h)' /\ Accounted(h)' /\ ToldWasMade(h)'
    BY <1>3, <1>4, <1>7, <2>2 DEF CallOK, RequestOK, Accounted, ToldWasMade
  <2>4. Holds(h)'
    BY <1>3, <1>7, <2>2 DEF CallOK, Holds
  <2>5. FoundWasSeen(h)' /\ ShownIsFound(h)'
    BY <2>2 DEF FoundWasSeen, ShownIsFound
  <2> QED
    BY <1>1, <1>2, <1>3, <1>7, <2>1, <2>2, <2>3, <2>4, <2>5, OneMoves DEF InFlight, CallOK
<1>8. CASE /\ call' = [call EXCEPT ![c].errors = @ \cup {k}, ![c].todo = @ \ {k}]
           /\ UNCHANGED settings
  <2>1. /\ call' = [call EXCEPT ![c] = h]
        /\ h = [call[c] EXCEPT !.errors = @ \cup {k}, !.todo = @ \ {k}]
    BY <1>3, <1>5, <1>8
  <2>2. /\ h \in CallState /\ h.alone = call[c].alone /\ h.at = "tune" /\ h.kind = "tune"
        /\ h.asks = call[c].asks /\ h.todo = call[c].todo \ {k}
        /\ h.told = call[c].told /\ h.errors = call[c].errors \cup {k}
        /\ h.made = call[c].made /\ h.applied = call[c].applied
    BY <1>3, <1>4, <2>1 DEF CallState
  <2>3. RequestOK(h)' /\ Accounted(h)' /\ ToldWasMade(h)'
    BY <1>3, <1>4, <2>2 DEF CallOK, RequestOK, Accounted, ToldWasMade
  <2>4. Holds(h)'
    BY <1>3, <1>8, <2>2 DEF CallOK, Holds
  <2>5. FoundWasSeen(h)' /\ ShownIsFound(h)'
    BY <2>2 DEF FoundWasSeen, ShownIsFound
  <2> QED
    BY <1>1, <1>2, <1>3, <1>8, <2>1, <2>2, <2>3, <2>4, <2>5, OneMoves DEF InFlight, CallOK
<1> QED
  BY <1>1, <1>6, <1>7, <1>8

\* A device is set to the scheduler, or left as it is.
LEMMA TuneDeviceInv ==
  ASSUME MachineInv, NEW c \in Call, TuneDevice(c) PROVE MachineInv'
<1>1. AtKnob(c, "scheduler") /\ UNCHANGED <<agent, report, shown, changed>>
  BY Zenon DEF TuneDevice, AtScheduler, machineUnchanged
<1>2. PICK d \in call[c].left :
        \/ /\ settings' = [settings EXCEPT ![d] = call[c].asks["scheduler"]]
           /\ call' = [call EXCEPT ![c].left = @ \ {d}, ![c].made = @ \cup {d},
                                   ![c].applied = TRUE]
        \/ /\ Silent("scheduler", call[c].asks["scheduler"])
           /\ call' = [call EXCEPT ![c].left = @ \ {d}, ![c].applied = TRUE]
           /\ UNCHANGED settings
        \/ /\ call' = [call EXCEPT ![c].left = @ \ {d}]
           /\ UNCHANGED settings
  BY Zenon DEF TuneDevice
<1>3. /\ call \in [Call -> CallState] /\ call[c] \in CallState /\ CallOK(call[c])
      /\ DOMAIN settings = Kernel \cup Device /\ call[c].at = "tune" /\ call[c].kind = "tune"
      /\ "scheduler" \in call[c].todo
  BY <1>1, OwnCall DEF AtKnob, On
<1>4. d \in Device \ Kernel /\ "scheduler" \notin call[c].told
  BY <1>2, <1>3, MachineAssumption DEF CallOK, Accounted, CallState
<1>5. PICK h : h = call'[c]
  OBVIOUS
<1>6. /\ call' = [call EXCEPT ![c] = h]
      /\ h \in CallState /\ h.alone = call[c].alone /\ h.at = "tune" /\ h.kind = "tune"
      /\ h.asks = call[c].asks /\ h.todo = call[c].todo /\ h.told = call[c].told
      /\ h.errors = call[c].errors
      /\ \/ h.applied = call[c].applied
         \/ Silent("scheduler", h.asks["scheduler"])
         \/ h.made = call[c].made \cup {d}
      /\ \/ /\ h.made = call[c].made \cup {d}
            /\ settings' = [settings EXCEPT ![d] = h.asks["scheduler"]]
         \/ h.made = call[c].made /\ settings' = settings
  <2>1. CASE /\ settings' = [settings EXCEPT ![d] = call[c].asks["scheduler"]]
             /\ call' = [call EXCEPT ![c].left = @ \ {d}, ![c].made = @ \cup {d},
                                     ![c].applied = TRUE]
    <3>1. /\ call' = [call EXCEPT ![c] = h]
          /\ h = [call[c] EXCEPT !.left = @ \ {d}, !.made = @ \cup {d}, !.applied = TRUE]
      BY <1>3, <1>5, <2>1
    <3> QED
      BY <1>3, <1>4, <2>1, <3>1 DEF CallState
  <2>2. CASE call' = [call EXCEPT ![c].left = @ \ {d}] /\ UNCHANGED settings
    <3>1. call' = [call EXCEPT ![c] = h] /\ h = [call[c] EXCEPT !.left = @ \ {d}]
      BY <1>3, <1>5, <2>2
    <3> QED
      BY <1>3, <1>4, <2>2, <3>1 DEF CallState
  <2>3. CASE /\ Silent("scheduler", call[c].asks["scheduler"])
             /\ call' = [call EXCEPT ![c].left = @ \ {d}, ![c].applied = TRUE]
             /\ UNCHANGED settings
    <3>1. /\ call' = [call EXCEPT ![c] = h]
          /\ h = [call[c] EXCEPT !.left = @ \ {d}, !.applied = TRUE]
      BY <1>3, <1>5, <2>3
    <3> QED
      BY <1>3, <1>4, <2>3, <3>1 DEF CallState
  <2> QED
    BY <1>2, <2>1, <2>2, <2>3
<1>7. RequestOK(h)' /\ Accounted(h)' /\ ToldWasMade(h)'
  BY <1>3, <1>4, <1>6 DEF CallOK, RequestOK, Accounted, ToldWasMade
<1>8. Holds(h)'
  BY <1>3, <1>4, <1>6, MachineAssumption DEF CallOK, RequestOK, Holds, Asked, ORDER, Kernel
<1>9. FoundWasSeen(h)' /\ ShownIsFound(h)'
  BY <1>6 DEF FoundWasSeen, ShownIsFound
<1>10. DOMAIN settings' = DOMAIN settings
  BY <1>6
<1> QED
  BY <1>1, <1>3, <1>6, <1>7, <1>8, <1>9, <1>10, OneMoves DEF InFlight, CallOK

\* The scheduler is told, or an error.
LEMMA TuneSchedulerInv ==
  ASSUME MachineInv, NEW c \in Call, TuneScheduler(c) PROVE MachineInv'
<1>1. AtKnob(c, "scheduler") /\ UNCHANGED <<settings, agent, report, shown, changed>>
  BY Zenon DEF TuneScheduler, AtScheduler, machineUnchanged
<1>2. \/ /\ call[c].applied
         /\ call' = [call EXCEPT ![c].told = @ \cup {"scheduler"},
                                 ![c].todo = @ \ {"scheduler"}]
      \/ call' = [call EXCEPT ![c].errors = @ \cup {"scheduler"},
                              ![c].todo = @ \ {"scheduler"}]
  BY Zenon DEF TuneScheduler
<1>3. /\ call \in [Call -> CallState] /\ call[c] \in CallState /\ CallOK(call[c])
      /\ call[c].at = "tune" /\ call[c].kind = "tune"
      /\ "scheduler" \in call[c].todo /\ "scheduler" \in Asked
  BY <1>1, OwnCall DEF AtKnob, On, CallState
<1>4. "scheduler" \notin call[c].told \cup call[c].errors /\ "scheduler" \in DOMAIN call[c].asks
  BY <1>3 DEF CallOK, Accounted
<1>5. PICK h : h = call'[c]
  OBVIOUS
<1>6. /\ call' = [call EXCEPT ![c] = h]
      /\ h \in CallState /\ h.alone = call[c].alone /\ h.at = "tune" /\ h.kind = "tune"
      /\ h.asks = call[c].asks /\ h.todo = call[c].todo \ {"scheduler"}
      /\ h.made = call[c].made /\ h.applied = call[c].applied
      /\ \/ /\ h.applied
            /\ h.told = call[c].told \cup {"scheduler"} /\ h.errors = call[c].errors
         \/ h.told = call[c].told /\ h.errors = call[c].errors \cup {"scheduler"}
  <2>1. CASE /\ call[c].applied
             /\ call' = [call EXCEPT ![c].told = @ \cup {"scheduler"},
                                     ![c].todo = @ \ {"scheduler"}]
    <3>1. /\ call' = [call EXCEPT ![c] = h]
          /\ h = [call[c] EXCEPT !.told = @ \cup {"scheduler"}, !.todo = @ \ {"scheduler"}]
      BY <1>3, <1>5, <2>1
    <3> QED
      BY <1>3, <2>1, <3>1 DEF CallState, Says
  <2>2. CASE call' = [call EXCEPT ![c].errors = @ \cup {"scheduler"},
                                  ![c].todo = @ \ {"scheduler"}]
    <3>1. /\ call' = [call EXCEPT ![c] = h]
          /\ h = [call[c] EXCEPT !.errors = @ \cup {"scheduler"}, !.todo = @ \ {"scheduler"}]
      BY <1>3, <1>5, <2>2
    <3> QED
      BY <1>3, <3>1 DEF CallState
  <2> QED
    BY <1>2, <2>1, <2>2
<1>7. RequestOK(h)' /\ Accounted(h)' /\ ToldWasMade(h)'
  BY <1>3, <1>4, <1>6 DEF CallOK, RequestOK, Accounted, ToldWasMade
<1>8. Holds(h)'
  BY <1>1, <1>3, <1>4, <1>6 DEF CallOK, Accounted, Holds
<1>9. FoundWasSeen(h)' /\ ShownIsFound(h)'
  BY <1>6 DEF FoundWasSeen, ShownIsFound
<1> QED
  BY <1>1, <1>3, <1>6, <1>7, <1>8, <1>9, OneMoves DEF InFlight, CallOK

\* The handler goes on to its reply, or the reply is sent.
LEMMA RestInv ==
  ASSUME MachineInv, NEW c \in Call, TuneEnds(c) \/ Work(c) \/ Reply(c) PROVE MachineInv'
<1>1. /\ UNCHANGED <<settings, agent, report, shown, changed>>
      /\ \/ /\ call[c].at = "tune" /\ call[c].todo = {}
            /\ call' = [call EXCEPT ![c].at = "reply"]
         \/ call[c].at = "work" /\ call' = [call EXCEPT ![c].at = "reply"]
         \/ call[c].at = "reply" /\ call' = [call EXCEPT ![c].at = "replied"]
  BY DEF TuneEnds, Work, Reply, On, machineUnchanged
<1>2. /\ call \in [Call -> CallState] /\ call[c] \in CallState /\ CallOK(call[c])
      /\ call[c].at = "tune" => call[c].kind = "tune"
      /\ call[c].at = "work" => call[c].kind = "work"
  BY OwnCall
<1>3. call[c].at \in Places(call[c].kind) /\ call[c].kind \in Kinds
  BY <1>2 DEF CallOK, RequestOK, CallState
<1>4. PICK h : h = call'[c]
  OBVIOUS
<1>5. PICK at \in {"reply", "replied"} : call' = [call EXCEPT ![c].at = at] /\ h.at = at
  BY <1>1, <1>2, <1>4 DEF CallState
<1>6. call' = [call EXCEPT ![c] = h] /\ h = [call[c] EXCEPT !.at = at]
  BY <1>2, <1>4, <1>5
<1>7. at \in Places(call[c].kind) /\ at \in Place
  BY <1>1, <1>2, <1>3, <1>5 DEF Places, Place, Kinds
<1>8. /\ h \in CallState /\ h.alone = call[c].alone /\ h.kind = call[c].kind
      /\ h.asks = call[c].asks /\ h.todo = call[c].todo /\ h.told = call[c].told
      /\ h.errors = call[c].errors /\ h.made = call[c].made /\ h.found = call[c].found
      /\ h.seen = call[c].seen /\ h.applied = call[c].applied
  BY <1>2, <1>6, <1>7 DEF CallState
<1>9. RequestOK(h)' /\ ToldWasMade(h)' /\ Holds(h)'
  BY <1>1, <1>2, <1>5, <1>7, <1>8 DEF CallOK, RequestOK, ToldWasMade, Holds
<1>10. Accounted(h)'
  BY <1>1, <1>2, <1>5, <1>8 DEF CallOK, Accounted
<1>11. FoundWasSeen(h)' /\ ShownIsFound(h)'
  BY <1>1, <1>2, <1>5, <1>8 DEF CallOK, FoundWasSeen, ShownIsFound
<1> QED
  BY <1>1, <1>2, <1>5, <1>6, <1>8, <1>9, <1>10, <1>11, OneMoves DEF InFlight, CallOK

\* A handler of a performance mode goes on to another place.
LEMMA ModeMoves ==
  ASSUME MachineInv, NEW c \in Call, InFlight(c), call[c].kind \in {"safe", "aggressive"},
         NEW h \in CallState, call' = [call EXCEPT ![c] = h],
         h.kind = call[c].kind, h.asks = call[c].asks, h.alone = call[c].alone,
         h.at \in Places(h.kind), ToldWasMade(h),
         h.made \cap Device \subseteq call[c].made,
         DOMAIN settings' = DOMAIN settings,
         UNCHANGED <<agent, report, shown, changed>>
  PROVE  MachineInv'
<1>1. CallOK(call[c])
  BY OwnCall
<1>2. RequestOK(h)' /\ Accounted(h)' /\ ToldWasMade(h)'
  BY <1>1 DEF CallOK, RequestOK, Accounted, ToldWasMade
<1>3. Holds(h)'
  BY <1>1 DEF CallOK, RequestOK, Holds, InFlight
<1>4. FoundWasSeen(h)' /\ ShownIsFound(h)'
  BY DEF FoundWasSeen, ShownIsFound
<1>5. h.at # "idle"
  BY DEF Places
<1> QED
  BY <1>2, <1>3, <1>4, <1>5, OneMoves DEF CallOK

\* The safe mode, also as the first part of the aggressive one.
LEMMA SafeInv ==
  ASSUME MachineInv, NEW c \in Call, Safe(c) PROVE MachineInv'
<1>1. UNCHANGED <<agent, report, shown, changed>>
  BY Zenon DEF Safe, machineUnchanged
<1>2. \/ /\ On(c, "governor")
         /\ settings' = [settings EXCEPT !["governor"] = "performance"]
         /\ call' = [call EXCEPT ![c].told = @ \cup {"governor"},
                                 ![c].made = @ \cup {"governor"}, ![c].at = "no_turbo"]
      \/ /\ On(c, "governor") /\ UNCHANGED settings
         /\ call' = [call EXCEPT ![c].at = "no_turbo"]
      \/ /\ On(c, "no_turbo") /\ UNCHANGED settings
         /\ \E at \in {"max_perf"} \cup (IF settings["turbo"] = "on" THEN {"turbo"} ELSE {}) :
              call' = [call EXCEPT ![c].at = at]
      \/ /\ On(c, "turbo")
         /\ settings' = [settings EXCEPT !["turbo"] = "off"]
         /\ call' = [call EXCEPT ![c].told = @ \cup {"turbo"},
                                 ![c].made = @ \cup {"turbo"}, ![c].at = "max_perf"]
      \/ /\ On(c, "turbo") /\ UNCHANGED settings
         /\ call' = [call EXCEPT ![c].told = @ \cup {"turbo"}, ![c].at = "max_perf"]
      \/ /\ On(c, "max_perf") /\ UNCHANGED settings
         /\ call' = [call EXCEPT
              ![c].told = IF call[c].kind = "safe" THEN @ ELSE {},
              ![c].at = IF call[c].kind = "safe" THEN "reply" ELSE "intel-undervolt"]
  BY Zenon DEF Safe
<1>3. /\ call \in [Call -> CallState] /\ call[c] \in CallState /\ ToldWasMade(call[c])
      /\ call[c].at \in {"governor", "no_turbo", "turbo", "max_perf"}
      /\ call[c].kind \in {"safe", "aggressive"}
  BY <1>2, OwnCall DEF On, CallOK
<1>4. InFlight(c)
  BY <1>3 DEF InFlight
<1>5. DOMAIN settings' = DOMAIN settings
  BY <1>2
<1>6. PICK h : h = call'[c]
  OBVIOUS
<1> DEFINE Moved ==
             /\ call' = [call EXCEPT ![c] = h]
             /\ h \in CallState /\ h.kind = call[c].kind /\ h.asks = call[c].asks
             /\ h.alone = call[c].alone /\ h.at \in Places(h.kind)
             /\ ToldWasMade(h) /\ h.made \cap Device \subseteq call[c].made
<1>7. /\ \A at \in {"no_turbo", "max_perf", "turbo"} : at \in Places(call[c].kind)
      /\ call[c].kind = "safe" => "reply" \in Places(call[c].kind)
      /\ call[c].kind = "aggressive" => "intel-undervolt" \in Places(call[c].kind)
  BY <1>3 DEF Places
<1>8. /\ \A at \in Places(call[c].kind) : at \in Place
      /\ {"governor", "turbo"} \subseteq Says
      /\ {"governor", "turbo"} \cap Device = {}
  BY <1>3, MachineAssumption DEF Place, Kinds, Says, Asked, ORDER, Unchecked, Kernel
<1>9. ASSUME NEW x \in {"governor", "turbo"}, NEW at \in {"no_turbo", "max_perf"},
             call' = [call EXCEPT ![c].told = @ \cup {x}, ![c].made = @ \cup {x}, ![c].at = at]
      PROVE  Moved
  <2>1. /\ call' = [call EXCEPT ![c] = h]
        /\ h = [call[c] EXCEPT !.told = @ \cup {x}, !.made = @ \cup {x}, !.at = at]
    BY <1>3, <1>6, <1>9
  <2>2. /\ h \in CallState /\ h.kind = call[c].kind /\ h.asks = call[c].asks
        /\ h.alone = call[c].alone /\ h.at = at
        /\ h.told = call[c].told \cup {x} /\ h.made = call[c].made \cup {x}
    BY <1>3, <1>7, <1>8, <1>9, <2>1 DEF CallState
  <2> QED
    BY <1>3, <1>7, <1>8, <2>1, <2>2 DEF ToldWasMade
<1>10. ASSUME NEW told, NEW at \in Places(call[c].kind),
              call' = [call EXCEPT ![c].told = told, ![c].at = at],
              told \subseteq call[c].told \cup {"turbo"}
       PROVE  Moved
  <2>1. /\ call' = [call EXCEPT ![c] = h] /\ h = [call[c] EXCEPT !.told = told, !.at = at]
    BY <1>3, <1>6, <1>10
  <2>2. told \in SUBSET Says
    BY <1>3, <1>8, <1>10 DEF CallState
  <2>3. /\ h \in CallState /\ h.kind = call[c].kind /\ h.asks = call[c].asks
        /\ h.alone = call[c].alone /\ h.at = at
        /\ h.told = told /\ h.made = call[c].made
    BY <1>3, <1>8, <1>10, <2>1, <2>2 DEF CallState
  <2> QED
    BY <1>3, <1>10, <2>1, <2>3 DEF ToldWasMade, Unchecked
<1>11. ASSUME NEW at \in Places(call[c].kind), call' = [call EXCEPT ![c].at = at] PROVE Moved
  <2>1. /\ call' = [call EXCEPT ![c] = h] /\ h = [call[c] EXCEPT !.at = at]
    BY <1>3, <1>6, <1>11
  <2>2. /\ h \in CallState /\ h.kind = call[c].kind /\ h.asks = call[c].asks
        /\ h.alone = call[c].alone /\ h.at = at
        /\ h.told = call[c].told /\ h.made = call[c].made
    BY <1>3, <1>8, <1>11, <2>1 DEF CallState
  <2> QED
    BY <1>3, <1>11, <2>1, <2>2 DEF ToldWasMade
<1> HIDE DEF Moved
<1>12. Moved
  <2>1. CASE call' = [call EXCEPT ![c].told = @ \cup {"governor"},
                                  ![c].made = @ \cup {"governor"}, ![c].at = "no_turbo"]
    BY <1>9, <2>1
  <2>2. CASE call' = [call EXCEPT ![c].at = "no_turbo"]
    BY <1>7, <1>11, <2>2
  <2>3. CASE \E at \in {"max_perf", "turbo"} : call' = [call EXCEPT ![c].at = at]
    BY <1>7, <1>11, <2>3
  <2>4. CASE call' = [call EXCEPT ![c].told = @ \cup {"turbo"},
                                  ![c].made = @ \cup {"turbo"}, ![c].at = "max_perf"]
    BY <1>9, <2>4
  <2>5. CASE call' = [call EXCEPT ![c].told = @ \cup {"turbo"}, ![c].at = "max_perf"]
    BY <1>7, <1>10, <2>5
  <2>6. CASE call' = [call EXCEPT
                ![c].told = IF call[c].kind = "safe" THEN @ ELSE {},
                ![c].at = IF call[c].kind = "safe" THEN "reply" ELSE "intel-undervolt"]
    <3> DEFINE told == IF call[c].kind = "safe" THEN call[c].told ELSE {}
               at == IF call[c].kind = "safe" THEN "reply" ELSE "intel-undervolt"
    <3>1. call' = [call EXCEPT ![c].told = told, ![c].at = at]
      BY Zenon, <2>6
    <3>2. told \subseteq call[c].told \cup {"turbo"} /\ at \in Places(call[c].kind)
      BY <1>3, <1>7
    <3> HIDE DEF told, at
    <3> QED
      BY <1>10, <3>1, <3>2
  <2> QED
    BY <1>2, <2>1, <2>2, <2>3, <2>4, <2>5, <2>6
<1> QED
  BY <1>1, <1>3, <1>4, <1>5, <1>12, ModeMoves DEF Moved

\* A tool of the aggressive mode answers, or does not; of its commands only the first
\* write of the undervolt is looked at.
LEMMA ToolInv ==
  ASSUME MachineInv, NEW c \in Call, Aggressive(c) PROVE MachineInv'
<1>1. UNCHANGED <<settings, agent, report, shown, changed>>
  BY Zenon DEF Aggressive, Tool, machineUnchanged
<1>2. \/ /\ On(c, "intel-undervolt")
         /\ \E at \in {"core", "ryzenadj"} : call' = [call EXCEPT ![c].at = at]
      \/ /\ On(c, "core")
         /\ \E done \in {{}, {"core"}} :
              call' = [call EXCEPT ![c].told = @ \cup done, ![c].made = @ \cup done,
                                   ![c].at = "cache"]
      \/ /\ On(c, "cache")
         /\ call' = [call EXCEPT ![c].told = @ \cup {"cache"}, ![c].at = "ryzenadj"]
      \/ /\ On(c, "ryzenadj")
         /\ \E told \in {{}, {"TDP"}} :
              call' = [call EXCEPT ![c].told = @ \cup told, ![c].at = "overclock"]
      \/ /\ On(c, "overclock")
         /\ \E told \in {{}, {"NVIDIA"}} :
              call' = [call EXCEPT ![c].told = @ \cup told, ![c].at = "reply"]
  BY Zenon DEF Aggressive, Tool
<1>3. /\ call \in [Call -> CallState] /\ call[c] \in CallState /\ ToldWasMade(call[c])
      /\ call[c].at \notin {"idle", "replied"} /\ call[c].kind = "aggressive"
  BY <1>2, OwnCall DEF On, CallOK
<1>4. InFlight(c)
  BY <1>3 DEF InFlight
<1>5. \A at \in {"core", "cache", "ryzenadj", "overclock", "reply"} :
        at \in Places(call[c].kind) /\ at \in Place
  BY <1>3 DEF Places, Place, Kinds
<1>6. "core" \in Says \ Device /\ Unchecked \subseteq Says
  BY MachineAssumption DEF Says, Asked, ORDER, Kernel
<1>7. PICK h : h = call'[c]
  OBVIOUS
<1> DEFINE Moved ==
             /\ call' = [call EXCEPT ![c] = h]
             /\ h \in CallState /\ h.kind = call[c].kind /\ h.asks = call[c].asks
             /\ h.alone = call[c].alone /\ h.at \in Places(h.kind)
             /\ ToldWasMade(h) /\ h.made \cap Device \subseteq call[c].made
<1>8. ASSUME NEW at \in {"core", "ryzenadj"}, call' = [call EXCEPT ![c].at = at]
      PROVE  Moved
  <2>1. /\ call' = [call EXCEPT ![c] = h] /\ h = [call[c] EXCEPT !.at = at]
    BY <1>3, <1>7, <1>8
  <2>2. /\ h \in CallState /\ h.kind = call[c].kind /\ h.asks = call[c].asks
        /\ h.alone = call[c].alone /\ h.at = at
        /\ h.told = call[c].told /\ h.made = call[c].made
    BY <1>3, <1>5, <1>8, <2>1 DEF CallState
  <2> QED
    BY <1>3, <1>5, <1>8, <2>1, <2>2 DEF ToldWasMade
<1>9. ASSUME NEW told \in SUBSET Unchecked, NEW at \in {"ryzenadj", "overclock", "reply"},
             call' = [call EXCEPT ![c].told = @ \cup told, ![c].at = at]
      PROVE  Moved
  <2>1. /\ call' = [call EXCEPT ![c] = h]
        /\ h = [call[c] EXCEPT !.told = @ \cup told, !.at = at]
    BY <1>3, <1>7, <1>9
  <2>2. /\ h \in CallState /\ h.kind = call[c].kind /\ h.asks = call[c].asks
        /\ h.alone = call[c].alone /\ h.at = at
        /\ h.told = call[c].told \cup told /\ h.made = call[c].made
    BY <1>3, <1>5, <1>6, <1>9, <2>1 DEF CallState
  <2> QED
    BY <1>3, <1>5, <1>9, <2>1, <2>2 DEF ToldWasMade
<1>10. ASSUME NEW done \in {{}, {"core"}},
              call' = [call EXCEPT ![c].told = @ \cup done, ![c].made = @ \cup done,
                                   ![c].at = "cache"]
       PROVE  Moved
  <2>1. /\ call' = [call EXCEPT ![c] = h]
        /\ h = [call[c] EXCEPT !.told = @ \cup done, !.made = @ \cup done, !.at = "cache"]
    BY <1>3, <1>7, <1>10
  <2>2. /\ h \in CallState /\ h.kind = call[c].kind /\ h.asks = call[c].asks
        /\ h.alone = call[c].alone /\ h.at = "cache"
        /\ h.told = call[c].told \cup done /\ h.made = call[c].made \cup done
    BY <1>3, <1>5, <1>6, <1>10, <2>1 DEF CallState
  <2> QED
    BY <1>3, <1>5, <1>6, <1>10, <2>1, <2>2 DEF ToldWasMade
<1> HIDE DEF Moved
<1>11. Moved
  <2>1. {"cache"} \subseteq Unchecked /\ {"TDP"} \subseteq Unchecked
        /\ {"NVIDIA"} \subseteq Unchecked
    BY DEF Unchecked
  <2>2. CASE \E at \in {"core", "ryzenadj"} : call' = [call EXCEPT ![c].at = at]
    BY <1>8, <2>2
  <2>3. CASE \E done \in {{}, {"core"}} :
               call' = [call EXCEPT ![c].told = @ \cup done, ![c].made = @ \cup done,
                                    ![c].at = "cache"]
    BY <1>10, <2>3
  <2>4. CASE call' = [call EXCEPT ![c].told = @ \cup {"cache"}, ![c].at = "ryzenadj"]
    BY <1>9, <2>1, <2>4
  <2>5. CASE \E told \in {{}, {"TDP"}} :
               call' = [call EXCEPT ![c].told = @ \cup told, ![c].at = "overclock"]
    BY <1>9, <2>1, <2>5
  <2>6. CASE \E told \in {{}, {"NVIDIA"}} :
               call' = [call EXCEPT ![c].told = @ \cup told, ![c].at = "reply"]
    BY <1>9, <2>1, <2>6
  <2> QED
    BY <1>2, <2>2, <2>3, <2>4, <2>5, <2>6
<1>12. DOMAIN settings' = DOMAIN settings
  BY <1>1
<1> QED
  BY <1>1, <1>3, <1>4, <1>11, <1>12, ModeMoves DEF Moved

\* An audit looks for a sign.  What it notes is a driver of a vendor it is then done
\* with, and has seen a sign of.
LEMMA LookMoves ==
  ASSUME MachineInv, NEW c \in Call, NEW at, NEW sign, NEW there, NEW absent,
         Look(c, at, sign, there, absent),
         at \in {"nvidia-smi", "nouveau", "amd", "radeon", "amdgpu", "i915"},
         NEW notes \in SUBSET Entries, NEW next \in Places("audit") \ {"replied"},
         (IF sign \in shown THEN there ELSE absent) = [notes |-> notes, next |-> next],
         Done(at) \subseteq Done(next),
         notes = {} \/ \E e \in Entries : /\ notes = {e}
                                         /\ Vendor(e) \in Done(next) \ Done(at)
                                         /\ SignsOf(e) \cap call[c].seen # {},
         next = "amdgpu" => sign \in shown /\ sign \in {"amdgpu", "radeon"},
         \A h \in CallState :
           h.kind = "audit" /\ h.at = next /\ h.found = call[c].found \cup notes =>
             ShownIsFound(h)
  PROVE  MachineInv'
<1>1. /\ call[c].at = at
      /\ UNCHANGED <<settings, agent, report, shown, changed>>
      /\ call' = [call EXCEPT ![c].found = @ \cup notes, ![c].at = next]
  <2> DEFINE case == IF sign \in shown THEN there ELSE absent
  <2>1. call' = [call EXCEPT ![c].found = @ \cup case.notes, ![c].at = case.next]
    BY Zenon DEF Look
  <2>2. case.notes = notes /\ case.next = next
    OBVIOUS
  <2>3. call[c].at = at /\ UNCHANGED <<settings, agent, report, shown, changed>>
    BY Zenon DEF Look, On, machineUnchanged
  <2> QED
    BY Zenon, <2>1, <2>2, <2>3
<1>2. /\ call \in [Call -> CallState] /\ call[c] \in CallState /\ CallOK(call[c])
      /\ call[c].kind = "audit"
  BY <1>1, OwnCall
<1>3. PICK h : h = call'[c]
  OBVIOUS
<1>4. /\ call' = [call EXCEPT ![c] = h]
      /\ h = [call[c] EXCEPT !.found = @ \cup notes, !.at = next]
  BY <1>1, <1>2, <1>3
<1>5. next \in Place
  BY DEF Place, Kinds
<1>6. /\ h \in CallState /\ h.alone = call[c].alone /\ h.at = next /\ h.kind = "audit"
      /\ h.asks = call[c].asks /\ h.told = call[c].told /\ h.made = call[c].made
      /\ h.found = call[c].found \cup notes /\ h.seen = call[c].seen
  BY <1>2, <1>4, <1>5 DEF CallState
<1>7. RequestOK(h)' /\ Accounted(h)' /\ ToldWasMade(h)' /\ Holds(h)'
  BY <1>1, <1>2, <1>6 DEF CallOK, RequestOK, Accounted, ToldWasMade, Holds
<1>8. FoundWasSeen(h)'
  <2>1. /\ shown \subseteq call[c].seen
        /\ \A e \in call[c].found : SignsOf(e) \cap call[c].seen # {} /\ Vendor(e) \in Done(at)
        /\ \A e, f \in call[c].found : Vendor(e) = Vendor(f) => e = f
    BY <1>1, <1>2 DEF CallOK, FoundWasSeen
  <2>2. h.at = "amdgpu" => {"amdgpu", "radeon"} \cap h.seen # {}
    BY <1>6, <2>1
  <2>3. \A e \in h.found : SignsOf(e) \cap h.seen # {} /\ Vendor(e) \in Done(h.at)
    BY <1>6, <2>1
  <2>4. \A e, f \in h.found : Vendor(e) = Vendor(f) => e = f
    BY <1>6, <2>1
  <2> QED
    BY <1>1, <1>6, <2>1, <2>2, <2>3, <2>4 DEF FoundWasSeen
<1>9. ShownIsFound(h)'
  <2>1. ShownIsFound(h)
    BY <1>6
  <2> QED
    BY <1>1, <2>1 DEF ShownIsFound
<1>10. InFlight(c) /\ h.at # "idle"
  BY <1>1, <1>6 DEF InFlight, Places
<1> QED
  BY <1>1, <1>4, <1>6, <1>7, <1>8, <1>9, <1>10, OneMoves DEF CallOK

\* The audit from one look to the next.
LEMMA AuditInv ==
  ASSUME MachineInv, NEW c \in Call, Audit(c) PROVE MachineInv'
<1> USE DEF Done, Places, Entries, Vendor, SignsOf, Note, Then
<1>1. /\ call[c] \in CallState /\ shown \subseteq Signs
      /\ call[c].at \in {"nvidia-smi", "nouveau", "amd", "radeon", "amdgpu", "i915"} =>
           /\ call[c].kind = "audit"
           /\ FoundWasSeen(call[c]) /\ ShownIsFound(call[c]) /\ shown \subseteq call[c].seen
  BY OwnCall DEF CallOK, FoundWasSeen
<1>2. CASE Look(c, "nvidia-smi", "nvidia-smi", Note("proprietary", "amd"), Then("nouveau"))
  <2>1. call[c].at = "nvidia-smi"
    BY <1>2 DEF Look, On
  <2>2. CASE "nvidia-smi" \in shown
    BY <1>1, <1>2, <2>1, <2>2, LookMoves DEF ShownIsFound
  <2>3. CASE "nvidia-smi" \notin shown
    BY <1>1, <1>2, <2>1, <2>3, LookMoves DEF ShownIsFound
  <2> QED
    BY <2>2, <2>3
<1>3. CASE Look(c, "nouveau", "nouveau", Note("nouveau", "amd"), Then("amd"))
  <2>1. call[c].at = "nouveau"
    BY <1>3 DEF Look, On
  <2>2. CASE "nouveau" \in shown
    BY <1>1, <1>3, <2>1, <2>2, LookMoves DEF ShownIsFound
  <2>3. CASE "nouveau" \notin shown
    BY <1>1, <1>3, <2>1, <2>3, LookMoves DEF ShownIsFound, FoundWasSeen
  <2> QED
    BY <2>2, <2>3
<1>4. CASE Look(c, "amd", "amdgpu", Then("amdgpu"), Then("radeon"))
  <2>1. call[c].at = "amd"
    BY <1>4 DEF Look, On
  <2>2. CASE "amdgpu" \in shown
    BY <1>1, <1>4, <2>1, <2>2, LookMoves DEF ShownIsFound
  <2>3. CASE "amdgpu" \notin shown
    BY <1>1, <1>4, <2>1, <2>3, LookMoves DEF ShownIsFound, FoundWasSeen
  <2> QED
    BY <2>2, <2>3
<1>5. CASE Look(c, "radeon", "radeon", Then("amdgpu"), Then("i915"))
  <2>1. call[c].at = "radeon"
    BY <1>5 DEF Look, On
  <2>2. CASE "radeon" \in shown
    BY <1>1, <1>5, <2>1, <2>2, LookMoves DEF ShownIsFound
  <2>3. CASE "radeon" \notin shown
    BY <1>1, <1>5, <2>1, <2>3, LookMoves DEF ShownIsFound, FoundWasSeen
  <2> QED
    BY <2>2, <2>3
<1>6. CASE Look(c, "amdgpu", "amdgpu", Note("amdgpu", "i915"), Note("legacy", "i915"))
  <2>1. call[c].at = "amdgpu"
    BY <1>6 DEF Look, On
  <2>2. CASE "amdgpu" \in shown
    BY <1>1, <1>6, <2>1, <2>2, LookMoves DEF ShownIsFound
  <2>3. CASE "amdgpu" \notin shown
    BY <1>1, <1>6, <2>1, <2>3, LookMoves DEF ShownIsFound, FoundWasSeen
  <2> QED
    BY <2>2, <2>3
<1>7. CASE Look(c, "i915", "i915", Note("i915", "reply"), Then("reply"))
  <2>1. call[c].at = "i915"
    BY <1>7 DEF Look, On
  <2>2. CASE "i915" \in shown
    BY <1>1, <1>7, <2>1, <2>2, LookMoves DEF ShownIsFound
  <2>3. CASE "i915" \notin shown
    BY <1>1, <1>7, <2>1, <2>3, LookMoves DEF ShownIsFound, FoundWasSeen
  <2> QED
    BY <2>2, <2>3
<1> QED
  BY Zenon, <1>2, <1>3, <1>4, <1>5, <1>6, <1>7 DEF Audit

\* No step breaks it.
LEMMA MachineStepInv == MachineInv /\ [MachineNext]_machineVars => MachineInv'
<1> SUFFICES ASSUME MachineInv, [MachineNext]_machineVars PROVE MachineInv'
  OBVIOUS
<1>1. ASSUME NEW c \in Call, Begin(c) PROVE MachineInv'
  BY <1>1, BeginInv
<1>2. ASSUME NEW c \in Call, CallStep(c) PROVE MachineInv'
  BY <1>2, TuneKnobInv, TuneDeviceInv, TuneSchedulerInv, RestInv, SafeInv, ToolInv, AuditInv
     DEF CallStep
<1>3. CASE Detect
  BY <1>3, DetectInv
<1>4. CASE Schedule \/ WakeUp \/ Heartbeat \/ UNCHANGED machineVars
  BY <1>4, RuntimeInv
<1>5. CASE Change
  BY <1>5, ChangeInv
<1> QED
  BY <1>1, <1>2, <1>3, <1>4, <1>5 DEF MachineNext

\* The kernel, the calls and the report of the start agree in every reachable state,
\* for any number of calls, workers and devices.
THEOREM MachineAgrees == MachineSpec => []MachineInv
<1>1. MachineInit => MachineInv
  BY MachineInitInv
<1>2. MachineInv /\ [MachineNext]_machineVars => MachineInv'
  BY MachineStepInv
<1> QED
  BY <1>1, <1>2, PTL DEF MachineSpec

\* Each reply accounts for every knob it was asked for, and tells of nothing that was not
\* written, and of a machine as it is if nobody else was at it, but for the changes nobody
\* looks at, the texts left empty and the huge pages the kernel has not.
THEOREM RepliesTellTheTruth == MachineSpec => []RepliesAreTrue
<1>1. MachineInv => RepliesAreTrue
  <2> SUFFICES ASSUME MachineInv, NEW c \in Call, call[c].at = "reply"
               PROVE  /\ call[c].kind = "tune" =>
                           /\ call[c].told \cup call[c].errors = DOMAIN call[c].asks
                           /\ call[c].told \cap call[c].errors = {}
                      /\ \A k \in call[c].told \ Unchecked :
                           Silent(k, call[c].asks[k]) \/ WasMade(c, k)
                      /\ call[c].alone =>
                           \A k \in call[c].told \cap DOMAIN call[c].asks :
                             Silent(k, call[c].asks[k]) \/ AsAsked(c, k)
    BY DEF RepliesAreTrue
  <2>1. Accounted(call[c]) /\ ToldWasMade(call[c]) /\ Holds(call[c])
    BY DEF MachineInv, CallOK
  <2> QED
    BY <2>1 DEF Accounted, ToldWasMade, Holds, AsAsked, WasMade
<1> QED
  BY <1>1, MachineAgrees, PTL

\* The driver report has a sign for each of its entries, one entry at most for a vendor,
\* and one for every GPU of the agent's report as long as nothing has changed.
THEOREM AuditAgrees == MachineSpec => []AuditFitsDetection
<1>1. MachineInv => AuditFitsDetection
  <2> SUFFICES ASSUME MachineInv, NEW c \in Call,
                      call[c].kind = "audit", call[c].at = "reply"
               PROVE  /\ \A e \in call[c].found : SignsOf(e) \cap call[c].seen # {}
                      /\ \A e, f \in call[c].found : Vendor(e) = Vendor(f) => e = f
                      /\ changed = 0 => report \subseteq {Vendor(e) : e \in call[c].found}
    BY DEF AuditFitsDetection
  <2>1. /\ FoundWasSeen(call[c]) /\ ShownIsFound(call[c]) /\ ReportOK
        /\ report \subseteq {"NVIDIA", "AMD", "Intel"}
    BY DEF MachineInv, MachineTypeOK, CallOK
  <2>2. ASSUME changed = 0 PROVE report \subseteq {Vendor(e) : e \in call[c].found}
    <3>1. /\ "NVIDIA" \in report => "proprietary" \in call[c].found
          /\ "AMD" \in report => "amdgpu" \in call[c].found
          /\ "Intel" \in report => "i915" \in call[c].found
      BY <2>1, <2>2 DEF ShownIsFound, ReportOK, Done
    <3>2. Vendor("proprietary") = "NVIDIA" /\ Vendor("amdgpu") = "AMD" /\ Vendor("i915") = "Intel"
      BY DEF Vendor
    <3> QED
      BY <2>1, <3>1, <3>2
  <2> QED
    BY <2>1, <2>2 DEF FoundWasSeen
<1> QED
  BY <1>1, MachineAgrees, PTL
=============================================================================
