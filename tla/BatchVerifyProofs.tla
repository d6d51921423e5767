-------------------------- MODULE BatchVerifyProofs --------------------------
(***************************************************************************)
(* batch_verify never answers wrongly, and only threads whose verdict no   *)
(* longer matters panic, for any batch, chunk size and interleaving.       *)
(***************************************************************************)
EXTENDS BatchVerify, TLAPS

AllVerify == TheVerification!AllVerify

\* What is left of a chunk, and its verdict, are true to its items.
VerdictsTrue ==
  \A c \in Chunks :
    /\ left[c] \subseteq ItemsOf(c)
    /\ \A i \in ItemsOf(c) : i \notin left[c] => items[i] = TRUE
    /\ valid[c] = FALSE => ~AllVerify
    /\ thread[c] \in {"sent", "ended"} => left[c] = {} \/ valid[c] = FALSE

\* A negative verdict that was sent waits in the channel or was received, and
\* what waits there is true.
VerdictsKept ==
  /\ \A n \in DOMAIN channel : channel[n] = FALSE => ~AllVerify
  /\ \A c \in Chunks : thread[c] \in {"sent", "ended"} /\ valid[c] = FALSE =>
       answer = "rejected" \/ \E n \in DOMAIN channel : channel[n] = FALSE

\* When the caller receives every thread was spawned; when it accepted none
\* has still to send.
CallerKnows ==
  /\ pc \in {"start", "alone"} => \A c \in Chunks : thread[c] = "none"
  /\ pc = "alone" => items # <<>> /\ Len(items) <= ChunkSize
  /\ pc = "receiving" => Unspawned = {}
  /\ answer = "accepted" => \A c \in Chunks : thread[c] # "verifying"

\* The answer is right.
AnswerRight ==
  /\ answer = "accepted" => AllVerify
  /\ answer = "rejected" => ~AllVerify

Inv == /\ TypeOK /\ VerdictsTrue /\ VerdictsKept /\ CallerKnows
       /\ AnswerRight /\ OnlyLosersPanic

-----------------------------------------------------------------------------
\* Every item belongs to a chunk.
LEMMA ItemsInChunks ==
  ASSUME TypeOK, NEW i \in DOMAIN items
  PROVE  ChunkOf(i) \in Used /\ i \in ItemsOf(ChunkOf(i)) /\ i \in 1..MaxItems
<1>1. i \in 1..MaxItems
  BY BatchAssumption DEF TypeOK
<1>2. ChunkOf(i) \in Chunks
  BY <1>1 DEF Chunks
<1>3. i \in ItemsOf(ChunkOf(i))
  BY DEF ItemsOf
<1> QED BY <1>1, <1>2, <1>3 DEF Used

\* A number below the divisor is divided to zero.
LEMMA DivSmall ==
  ASSUME NEW n \in Nat, NEW d \in Nat \ {0}, n < d
  PROVE  n \div d = 0
OBVIOUS

\* A short batch is one chunk.
LEMMA OneChunk ==
  ASSUME TypeOK, Len(items) <= ChunkSize, NEW i \in DOMAIN items
  PROVE  1 \in Chunks /\ i \in ItemsOf(1)
<1>1. i - 1 \in Nat /\ i - 1 < ChunkSize /\ ChunkSize \in Nat \ {0}
  BY ChunkAssumption DEF TypeOK
<1>2. (i - 1) \div ChunkSize = 0
  BY <1>1, DivSmall
<1>3. ChunkOf(i) = 1
  BY <1>2 DEF ChunkOf
<1> QED BY <1>3, ItemsInChunks DEF Used

\* If nothing is left of any chunk that was used every item verifies.
LEMMA NothingLeft ==
  ASSUME TypeOK, VerdictsTrue, \A c \in Used : left[c] = {}
  PROVE  AllVerify
<1>1. ASSUME NEW i \in DOMAIN items PROVE items[i] = TRUE
  <2>1. ChunkOf(i) \in Used /\ ChunkOf(i) \in Chunks /\ i \in ItemsOf(ChunkOf(i))
    BY ItemsInChunks DEF Used
  <2> QED BY <2>1 DEF VerdictsTrue
<1> QED BY <1>1 DEF AllVerify, TheVerification!AllVerify

\* One item that does not verify settles the batch.
LEMMA OneBad ==
  ASSUME NEW i \in DOMAIN items, ~items[i]
  PROVE  ~AllVerify
BY DEF AllVerify, TheVerification!AllVerify

\* What a channel holds after a send.
LEMMA AppendFacts ==
  ASSUME NEW S, NEW s \in Seq(S), NEW e \in S
  PROVE  /\ Append(s, e) \in Seq(S)
         /\ \A n \in DOMAIN Append(s, e) : Append(s, e)[n] = e \/ (n \in DOMAIN s /\ Append(s, e)[n] = s[n])
         /\ \A n \in DOMAIN s : n \in DOMAIN Append(s, e) /\ Append(s, e)[n] = s[n]
         /\ \E n \in DOMAIN Append(s, e) : Append(s, e)[n] = e
<1>1. Len(s) + 1 \in DOMAIN Append(s, e) /\ Append(s, e)[Len(s) + 1] = e
  OBVIOUS
<1> QED BY <1>1

\* What a channel holds after a receive.
LEMMA TailFacts ==
  ASSUME NEW S, NEW s \in Seq(S), s # <<>>
  PROVE  /\ Tail(s) \in Seq(S) /\ Head(s) \in S
         /\ 1 \in DOMAIN s /\ Head(s) = s[1]
         /\ \A n \in DOMAIN Tail(s) : n + 1 \in DOMAIN s /\ Tail(s)[n] = s[n + 1]
         /\ \A n \in DOMAIN s : n = 1 \/ (n - 1 \in DOMAIN Tail(s) /\ Tail(s)[n - 1] = s[n])
OBVIOUS

-----------------------------------------------------------------------------
\* The batch never changes.
LEMMA SameBatch ==
  ASSUME items' = items
  PROVE  /\ AllVerify' = AllVerify /\ Used' = Used
         /\ \A c \in Chunks : ItemsOf(c)' = ItemsOf(c)
BY DEF AllVerify, TheVerification!AllVerify, Used, ItemsOf

\* Nothing is verified, sent or answered at the start.
LEMMA InitInv == Init => Inv
<1> SUFFICES ASSUME Init PROVE Inv
  OBVIOUS
<1>1. items \in Seq(BOOLEAN) /\ Len(items) <= MaxItems
  BY BatchAssumption DEF Init
<1>2. \A c \in Chunks : thread[c] = "none" /\ valid[c] = TRUE /\ left[c] = ItemsOf(c)
  BY DEF Init
<1>3. DOMAIN channel = {}
  BY DEF Init
<1>4. left \in [Chunks -> SUBSET DOMAIN items]
  BY DEF Init, ItemsOf
<1>5. TypeOK
  BY <1>1, <1>4 DEF Init, TypeOK
<1>6. VerdictsTrue
  BY <1>2 DEF VerdictsTrue
<1>7. VerdictsKept
  BY <1>2, <1>3 DEF VerdictsKept
<1>8. CallerKnows /\ AnswerRight /\ OnlyLosersPanic
  BY <1>2 DEF Init, CallerKnows, AnswerRight, OnlyLosersPanic
<1> QED BY <1>5, <1>6, <1>7, <1>8 DEF Inv

\* Starting: no item is accepted, no thread exists.
LEMMA StartInv == Inv /\ Start => Inv'
<1> SUFFICES ASSUME Inv, Start PROVE Inv'
  OBVIOUS
<1> USE DEF Inv
<1>1. items' = items /\ UNCHANGED <<thread, left, valid, channel>> /\ pc = "start"
  BY DEF Start, Return, Goto
<1>2. TypeOK'
  BY <1>1 DEF TypeOK, Start, Return, Goto
<1>3. VerdictsTrue'
  BY <1>1, SameBatch DEF VerdictsTrue
<1>4. \A c \in Chunks : thread[c] = "none"
  BY <1>1 DEF CallerKnows
<1>5. VerdictsKept'
  BY <1>1, <1>4, SameBatch DEF VerdictsKept
<1>6. CallerKnows'
  BY <1>1, <1>4 DEF CallerKnows, Start, Return, Goto
<1>7. items = <<>> => AllVerify
  BY DEF AllVerify, TheVerification!AllVerify
<1>8. AnswerRight'
  BY <1>1, <1>7, SameBatch DEF AnswerRight, Start, Return, Goto, TypeOK
<1>9. OnlyLosersPanic'
  BY <1>1, <1>4 DEF OnlyLosersPanic
<1> QED BY <1>2, <1>3, <1>5, <1>6, <1>8, <1>9

\* A single chunk is verified by the caller itself.
LEMMA AloneInv == Inv /\ (VerifyAlone \/ FinishAlone) => Inv'
<1> SUFFICES ASSUME Inv, VerifyAlone \/ FinishAlone PROVE Inv'
  OBVIOUS
<1> USE DEF Inv
<1>1. items' = items /\ UNCHANGED <<thread, valid, channel>> /\ pc = "alone"
  BY DEF VerifyAlone, FinishAlone, Return, batch
<1>2. /\ \A c \in Chunks : thread[c] = "none"
      /\ Len(items) <= ChunkSize
  BY <1>1 DEF CallerKnows
<1>3. CASE FinishAlone
  <2>1. pc' = "returned" /\ answer' = "accepted" /\ UNCHANGED left /\ left[1] = {}
    BY <1>3 DEF FinishAlone, Return
  <2>2. ASSUME NEW i \in DOMAIN items PROVE items[i] = TRUE
    <3>1. 1 \in Chunks /\ i \in ItemsOf(1)
      BY <1>2, OneChunk
    <3> QED BY <2>1, <3>1 DEF VerdictsTrue
  <2>3. AllVerify
    BY <2>2 DEF AllVerify, TheVerification!AllVerify
  <2>4. TypeOK'
    BY <1>1, <2>1 DEF TypeOK
  <2>5. VerdictsTrue' /\ VerdictsKept'
    BY <1>1, <1>2, <2>1, SameBatch DEF VerdictsTrue, VerdictsKept
  <2>6. CallerKnows' /\ AnswerRight' /\ OnlyLosersPanic'
    BY <1>1, <1>2, <2>1, <2>3, SameBatch DEF CallerKnows, AnswerRight, OnlyLosersPanic
  <2> QED BY <2>4, <2>5, <2>6
<1>4. CASE VerifyAlone
  <2>1. PICK i \in left[1] :
          IF items[i] THEN left' = [left EXCEPT ![1] = @ \ {i}] /\ UNCHANGED batch
          ELSE Return("rejected") /\ UNCHANGED left
    BY <1>4 DEF VerifyAlone
  <2>2. CASE ~items[i]
    <3>1. pc' = "returned" /\ answer' = "rejected" /\ UNCHANGED left
      BY <2>1, <2>2 DEF Return
    <3>2. ~AllVerify
      <4>1. 1 \in DOMAIN items
        BY <1>1 DEF CallerKnows, TypeOK
      <4>2. 1 \in Chunks
        BY <1>2, <4>1, OneChunk
      <4>3. i \in DOMAIN items
        BY <2>1, <4>2 DEF TypeOK
      <4> QED BY <2>2, <4>3, OneBad
    <3>3. TypeOK'
      BY <1>1, <3>1 DEF TypeOK
    <3>4. VerdictsTrue' /\ VerdictsKept'
      BY <1>1, <1>2, <3>1, SameBatch DEF VerdictsTrue, VerdictsKept
    <3>5. CallerKnows' /\ AnswerRight' /\ OnlyLosersPanic'
      BY <1>1, <1>2, <3>1, <3>2, SameBatch DEF CallerKnows, AnswerRight, OnlyLosersPanic
    <3> QED BY <3>3, <3>4, <3>5
  <2>3. CASE items[i]
    <3>1. left' = [left EXCEPT ![1] = @ \ {i}] /\ UNCHANGED batch
      BY <2>1, <2>3
    <3>2. TypeOK'
      BY <1>1, <3>1 DEF TypeOK, batch
    <3>3. VerdictsTrue'
      BY <1>1, <1>2, <2>3, <3>1, SameBatch DEF VerdictsTrue, TypeOK
    <3>4. VerdictsKept'
      BY <1>1, <1>2, <3>1, SameBatch DEF VerdictsKept, batch
    <3>5. CallerKnows' /\ AnswerRight' /\ OnlyLosersPanic'
      BY <1>1, <1>2, <3>1, SameBatch DEF CallerKnows, AnswerRight, OnlyLosersPanic, batch
    <3> QED BY <3>2, <3>3, <3>4, <3>5
  <2> QED BY <2>2, <2>3
<1> QED BY <1>3, <1>4

\* Spawning: a thread starts with its whole chunk to do.
LEMMA SpawnInv == Inv /\ (Spawn \/ DropSender) => Inv'
<1> SUFFICES ASSUME Inv, Spawn \/ DropSender PROVE Inv'
  OBVIOUS
<1> USE DEF Inv
<1>1. /\ items' = items /\ answer' = answer /\ UNCHANGED <<left, valid, channel>>
      /\ pc = "spawning" /\ answer = "none"
  BY DEF Spawn, DropSender, Goto, batch, TypeOK
<1>2. CASE DropSender
  <2>1. UNCHANGED thread /\ pc' = "receiving" /\ Unspawned = {}
    BY <1>2 DEF DropSender, Goto
  <2>2. Unspawned' = Unspawned
    BY <1>1, <2>1, SameBatch DEF Unspawned
  <2>3. TypeOK'
    BY <1>1, <2>1 DEF TypeOK
  <2>4. VerdictsTrue' /\ VerdictsKept'
    BY <1>1, <2>1, SameBatch DEF VerdictsTrue, VerdictsKept
  <2>5. CallerKnows' /\ AnswerRight' /\ OnlyLosersPanic'
    BY <1>1, <2>1, <2>2, SameBatch DEF CallerKnows, AnswerRight, OnlyLosersPanic
  <2> QED BY <2>3, <2>4, <2>5
<1>3. CASE Spawn
  <2>1. PICK d \in Unspawned : thread' = [thread EXCEPT ![d] = "verifying"]
    BY <1>3 DEF Spawn
  <2>2. d \in Chunks /\ UNCHANGED batch
    BY <1>3 DEF Unspawned, Used, Spawn
  <2>3. \A c \in Chunks : thread'[c] = IF c = d THEN "verifying" ELSE thread[c]
    BY <2>1, <2>2 DEF TypeOK
  <2>4. TypeOK'
    BY <1>1, <2>1, <2>2 DEF TypeOK, batch
  <2>5. VerdictsTrue' /\ VerdictsKept'
    BY <1>1, <2>3, SameBatch DEF VerdictsTrue, VerdictsKept
  <2>6. CallerKnows' /\ AnswerRight' /\ OnlyLosersPanic'
    BY <1>1, <2>2, <2>3, SameBatch DEF CallerKnows, AnswerRight, OnlyLosersPanic, batch
  <2> QED BY <2>4, <2>5, <2>6
<1> QED BY <1>2, <1>3

\* Receiving: a negative verdict ends the loop, so none is lost.
LEMMA ReceiveInv == Inv /\ Receive => Inv'
<1> SUFFICES ASSUME Inv, Receive PROVE Inv'
  OBVIOUS
<1> USE DEF Inv
<1>1. /\ items' = items /\ UNCHANGED <<thread, left, valid>> /\ pc = "receiving"
      /\ channel # <<>> /\ channel' = Tail(channel) /\ answer = "none"
  BY DEF Receive, Return, batch, TypeOK
<1>0. IF Head(channel) THEN UNCHANGED batch ELSE Return("rejected")
  BY DEF Receive
<1>2. channel \in Seq(BOOLEAN)
  BY DEF TypeOK
<1>3. /\ Tail(channel) \in Seq(BOOLEAN) /\ Head(channel) \in BOOLEAN
      /\ 1 \in DOMAIN channel /\ Head(channel) = channel[1]
      /\ \A n \in DOMAIN Tail(channel) : n + 1 \in DOMAIN channel /\ Tail(channel)[n] = channel[n + 1]
      /\ \A n \in DOMAIN channel :
           n = 1 \/ (n - 1 \in DOMAIN Tail(channel) /\ Tail(channel)[n - 1] = channel[n])
  BY <1>1, <1>2, TailFacts
<1>4. VerdictsTrue'
  BY <1>1, SameBatch DEF VerdictsTrue
<1>5. Unspawned' = Unspawned
  BY <1>1, SameBatch DEF Unspawned
<1>6. \A n \in DOMAIN channel' : channel'[n] = FALSE => ~AllVerify
  BY <1>1, <1>3 DEF VerdictsKept
<1>7. CASE Head(channel)
  <2>1. UNCHANGED batch
    BY <1>0, <1>7
  <2>2. TypeOK'
    BY <1>1, <1>3, <2>1 DEF TypeOK, batch
  <2>3. (\E n \in DOMAIN channel : channel[n] = FALSE)
          => \E n \in DOMAIN channel' : channel'[n] = FALSE
    <3>1. SUFFICES ASSUME NEW n \in DOMAIN channel, channel[n] = FALSE
                   PROVE  \E m \in DOMAIN Tail(channel) : Tail(channel)[m] = FALSE
      BY <1>1
    <3>2. n # 1
      BY <1>3, <1>7, <3>1
    <3>3. n - 1 \in DOMAIN Tail(channel) /\ Tail(channel)[n - 1] = channel[n]
      BY <1>3, <3>2
    <3>4. Tail(channel)[n - 1] = FALSE
      BY <3>1, <3>3
    <3> HIDE DEF Inv
    <3> QED BY <3>3, <3>4, Zenon
  <2>4. VerdictsKept'
    BY <1>1, <1>6, <2>1, <2>3, SameBatch DEF VerdictsKept, batch
  <2>5. CallerKnows' /\ AnswerRight' /\ OnlyLosersPanic'
    BY <1>1, <1>5, <2>1, SameBatch DEF CallerKnows, AnswerRight, OnlyLosersPanic, batch
  <2> QED BY <1>4, <2>2, <2>4, <2>5
<1>8. CASE ~Head(channel)
  <2>1. pc' = "returned" /\ answer' = "rejected"
    BY <1>0, <1>8 DEF Return
  <2>2. channel[1] = FALSE
    BY <1>3, <1>8
  <2>3. ~AllVerify
    BY <1>3, <2>2 DEF VerdictsKept
  <2>4. TypeOK'
    BY <1>1, <1>3, <2>1 DEF TypeOK
  <2>5. VerdictsKept'
    BY <1>1, <1>6, <2>1, SameBatch DEF VerdictsKept
  <2>6. CallerKnows' /\ AnswerRight' /\ OnlyLosersPanic'
    BY <1>1, <2>1, <2>3, SameBatch DEF CallerKnows, AnswerRight, OnlyLosersPanic
  <2> QED BY <1>4, <2>4, <2>5, <2>6
<1> QED BY <1>7, <1>8

\* The end of the channel: every thread has sent, and every verdict was
\* received and positive.
LEMMA DisconnectedInv == Inv /\ Disconnected => Inv'
<1> SUFFICES ASSUME Inv, Disconnected PROVE Inv'
  OBVIOUS
<1> USE DEF Inv
<1>1. /\ items' = items /\ UNCHANGED <<thread, left, valid, channel>>
      /\ pc = "receiving" /\ answer = "none" /\ channel = <<>> /\ Senders = {}
      /\ pc' = "returned" /\ answer' = "accepted"
  BY DEF Disconnected, Return, TypeOK
<1>2. ASSUME NEW c \in Used PROVE left[c] = {}
  <2>1. c \in Chunks /\ thread[c] # "none"
    BY <1>1, <1>2 DEF CallerKnows, Unspawned, Used
  <2>2. thread[c] \notin {"verifying", "sent"}
    BY <1>1, <2>1 DEF Senders
  <2>3. thread[c] # "panicked"
    BY <1>1, <2>1 DEF OnlyLosersPanic
  <2>4. thread[c] = "ended"
    BY <2>1, <2>2, <2>3 DEF TypeOK
  <2>5. valid[c] # FALSE
    <3>1. DOMAIN channel = {}
      BY <1>1
    <3> QED BY <1>1, <2>1, <2>4, <3>1 DEF VerdictsKept
  <2> QED BY <2>1, <2>4, <2>5 DEF VerdictsTrue
<1>3. AllVerify
  BY <1>2, NothingLeft
<1>4. TypeOK'
  BY <1>1 DEF TypeOK
<1>5. VerdictsTrue' /\ VerdictsKept'
  BY <1>1, SameBatch DEF VerdictsTrue, VerdictsKept
<1>6. CallerKnows' /\ AnswerRight' /\ OnlyLosersPanic'
  BY <1>1, <1>3, SameBatch DEF CallerKnows, AnswerRight, OnlyLosersPanic, Senders
<1> QED BY <1>4, <1>5, <1>6

\* A thread checks an item of its chunk.
LEMMA VerifyInv ==
  ASSUME Inv, NEW c \in Chunks, Verify(c)
  PROVE  Inv'
<1> USE DEF Inv
<1>1. UNCHANGED batch /\ UNCHANGED <<thread, channel>> /\ thread[c] = "verifying"
  BY DEF Verify
<1>2. items' = items
  BY <1>1 DEF batch
<1>3. Unspawned' = Unspawned
  BY <1>1, <1>2, SameBatch DEF Unspawned
<1>4. CallerKnows' /\ AnswerRight' /\ OnlyLosersPanic'
  BY <1>1, <1>2, <1>3, SameBatch DEF CallerKnows, AnswerRight, OnlyLosersPanic, batch
<1>5. PICK i \in left[c] :
        IF items[i] THEN left' = [left EXCEPT ![c] = @ \ {i}] /\ UNCHANGED valid
        ELSE valid' = [valid EXCEPT ![c] = FALSE] /\ UNCHANGED left
  BY DEF Verify
<1>6. i \in DOMAIN items
  BY <1>5 DEF TypeOK
<1>7. CASE items[i]
  <2>1. left' = [left EXCEPT ![c] = @ \ {i}] /\ UNCHANGED valid
    BY <1>5, <1>7
  <2>2. TypeOK'
    BY <1>1, <2>1 DEF TypeOK, batch
  <2>3. items[i] = TRUE
    BY <1>7, <1>6 DEF TypeOK
  <2>4. \A d \in Chunks : left'[d] = IF d = c THEN left[c] \ {i} ELSE left[d]
    BY <2>1 DEF TypeOK
  <2>5. VerdictsTrue'
    BY <1>1, <1>2, <2>1, <2>3, <2>4, SameBatch DEF VerdictsTrue
  <2>6. VerdictsKept'
    BY <1>1, <1>2, <2>1, SameBatch DEF VerdictsKept, batch
  <2> QED BY <1>4, <2>2, <2>5, <2>6
<1>8. CASE ~items[i]
  <2>1. valid' = [valid EXCEPT ![c] = FALSE] /\ UNCHANGED left
    BY <1>5, <1>8
  <2>2. ~AllVerify
    BY <1>6, <1>8, OneBad
  <2>3. TypeOK'
    BY <1>1, <2>1 DEF TypeOK, batch
  <2>4. \A d \in Chunks : d # c => valid'[d] = valid[d]
    BY <2>1 DEF TypeOK
  <2>5. VerdictsTrue'
    BY <1>1, <1>2, <2>1, <2>2, <2>4, SameBatch DEF VerdictsTrue
  <2>6. VerdictsKept'
    BY <1>1, <1>2, <2>4, SameBatch DEF VerdictsKept, batch
  <2> QED BY <1>4, <2>3, <2>5, <2>6
<1> QED BY <1>7, <1>8

\* A verdict is sent.
LEMMA SendInv ==
  ASSUME Inv, NEW c \in Chunks, Send(c)
  PROVE  Inv'
<1> USE DEF Inv
<1>1. /\ UNCHANGED batch /\ UNCHANGED <<left, valid>> /\ thread[c] = "verifying"
      /\ channel' = Append(channel, valid[c])
      /\ thread' = [thread EXCEPT ![c] = "sent"]
      /\ pc # "returned"
  BY DEF Send, Decided, ReceiverAlive
<1>2. left[c] = {} \/ valid[c] = FALSE
  BY DEF Send, Decided, TypeOK
<1>3. items' = items /\ answer' = answer /\ pc' = pc
  BY <1>1 DEF batch
<1>4. channel \in Seq(BOOLEAN) /\ valid[c] \in BOOLEAN
  BY DEF TypeOK
<1>5. /\ channel' \in Seq(BOOLEAN)
      /\ \A n \in DOMAIN channel' :
           channel'[n] = valid[c] \/ (n \in DOMAIN channel /\ channel'[n] = channel[n])
      /\ \A n \in DOMAIN channel : n \in DOMAIN channel' /\ channel'[n] = channel[n]
      /\ \E n \in DOMAIN channel' : channel'[n] = valid[c]
  BY <1>1, <1>4, AppendFacts
<1>6. \A d \in Chunks : thread'[d] = IF d = c THEN "sent" ELSE thread[d]
  BY <1>1 DEF TypeOK
<1>7. TypeOK'
  BY <1>1, <1>3, <1>5 DEF TypeOK
<1>8. VerdictsTrue'
  BY <1>1, <1>2, <1>3, <1>6, SameBatch DEF VerdictsTrue
<1>9. \A n \in DOMAIN channel' : channel'[n] = FALSE => ~AllVerify
  BY <1>5 DEF VerdictsKept, VerdictsTrue
<1>10. ASSUME NEW d \in Chunks, thread'[d] \in {"sent", "ended"}, valid[d] = FALSE
       PROVE  answer = "rejected" \/ \E n \in DOMAIN channel' : channel'[n] = FALSE
  <2>1. CASE d = c
    BY <1>5, <1>10, <2>1
  <2>2. CASE d # c
    <3>1. answer = "rejected" \/ \E n \in DOMAIN channel : channel[n] = FALSE
      BY <1>6, <1>10, <2>2 DEF VerdictsKept
    <3> QED BY <1>5, <3>1
  <2> QED BY <2>1, <2>2
<1>11. VerdictsKept'
  BY <1>1, <1>3, <1>9, <1>10, SameBatch DEF VerdictsKept
<1>12. CallerKnows' /\ AnswerRight' /\ OnlyLosersPanic'
  BY <1>1, <1>3, <1>6, SameBatch DEF CallerKnows, AnswerRight, OnlyLosersPanic, Unspawned
<1> QED BY <1>7, <1>8, <1>11, <1>12

\* A thread ends, or finds no receiver: then the batch was rejected, because
\* an accepted one leaves no thread behind.
LEMMA EndInv ==
  ASSUME Inv, NEW c \in Chunks, SendPanics(c) \/ End(c)
  PROVE  Inv'
<1> USE DEF Inv
<1>1. UNCHANGED batch /\ UNCHANGED <<left, valid, channel>>
  BY DEF SendPanics, End
<1>2. items' = items /\ answer' = answer /\ pc' = pc
  BY <1>1 DEF batch
<1>3. CASE SendPanics(c)
  <2>1. thread[c] = "verifying" /\ pc = "returned" /\ thread' = [thread EXCEPT ![c] = "panicked"]
    BY <1>3 DEF SendPanics, Decided, ReceiverAlive
  <2>2. answer = "rejected"
    BY <2>1 DEF CallerKnows, TypeOK
  <2>3. \A d \in Chunks : thread'[d] = IF d = c THEN "panicked" ELSE thread[d]
    BY <2>1 DEF TypeOK
  <2>4. TypeOK'
    BY <1>1, <1>2, <2>1 DEF TypeOK
  <2>5. VerdictsTrue' /\ VerdictsKept'
    BY <1>1, <1>2, <2>3, SameBatch DEF VerdictsTrue, VerdictsKept
  <2>6. CallerKnows' /\ AnswerRight' /\ OnlyLosersPanic'
    BY <1>1, <1>2, <2>1, <2>2, <2>3, SameBatch
    DEF CallerKnows, AnswerRight, OnlyLosersPanic, Unspawned
  <2> QED BY <2>4, <2>5, <2>6
<1>4. CASE End(c)
  <2>1. thread[c] = "sent" /\ thread' = [thread EXCEPT ![c] = "ended"]
    BY <1>4 DEF End
  <2>2. \A d \in Chunks : thread'[d] = IF d = c THEN "ended" ELSE thread[d]
    BY <2>1 DEF TypeOK
  <2>3. TypeOK'
    BY <1>1, <1>2, <2>1 DEF TypeOK
  <2>4. VerdictsTrue' /\ VerdictsKept'
    BY <1>1, <1>2, <2>1, <2>2, SameBatch DEF VerdictsTrue, VerdictsKept
  <2>5. CallerKnows' /\ AnswerRight' /\ OnlyLosersPanic'
    BY <1>1, <1>2, <2>1, <2>2, SameBatch
    DEF CallerKnows, AnswerRight, OnlyLosersPanic, Unspawned
  <2> QED BY <2>3, <2>4, <2>5
<1> QED BY <1>3, <1>4

\* Doing nothing keeps everything.
LEMMA StutterInv == Inv /\ UNCHANGED vars => Inv'
<1> SUFFICES ASSUME Inv, UNCHANGED vars PROVE Inv'
  OBVIOUS
<1>1. /\ items' = items /\ pc' = pc /\ answer' = answer
      /\ UNCHANGED <<thread, left, valid, channel>>
  BY DEF vars, batch
<1> QED BY <1>1, SameBatch
        DEF Inv, TypeOK, VerdictsTrue, VerdictsKept, CallerKnows, AnswerRight,
            OnlyLosersPanic, Unspawned

\* Every step of the caller and of every thread keeps the invariant.
LEMMA NextInv == Inv /\ [Next]_vars => Inv'
BY StartInv, AloneInv, SpawnInv, ReceiveInv, DisconnectedInv, VerifyInv, SendInv, EndInv,
   StutterInv
DEF Next, Caller, Thread

\* The invariant holds in every reachable state.
LEMMA Always == Spec => []Inv
BY InitInv, NextInv, PTL DEF Spec

-----------------------------------------------------------------------------
\* Every variable keeps its type.
THEOREM TypeCorrect == Spec => []TypeOK
<1>1. Inv => TypeOK
  BY DEF Inv
<1> QED BY <1>1, Always, PTL

\* A thread panics only when the batch was rejected, for any interleaving.
THEOREM LosersOnly == Spec => []OnlyLosersPanic
<1>1. Inv => OnlyLosersPanic
  BY DEF Inv
<1> QED BY <1>1, Always, PTL

\* The answer is the conjunction of all verifications.
THEOREM AnswersRight == Spec => []AnswerRight
<1>1. Inv => AnswerRight
  BY DEF Inv
<1> QED BY <1>1, Always, PTL

\* Every step decides the batch as Verification does, or leaves it undecided.
LEMMA StepDecides ==
  ASSUME Inv, Inv', [Next]_vars
  PROVE  [TheVerification!Decide]_<<items, answer>>
<1>1. items' = items
  BY DEF Next, Caller, Thread, Start, VerifyAlone, FinishAlone, Spawn, DropSender, Receive,
         Disconnected, Verify, Send, SendPanics, End, Return, Goto, batch, vars
<1>2. answer' = answer \/ (answer = "none" /\ answer' \in {"accepted", "rejected"})
  BY DEF Next, Caller, Thread, Start, VerifyAlone, FinishAlone, Spawn, DropSender, Receive,
         Disconnected, Verify, Send, SendPanics, End, Return, Goto, batch, vars, Inv, TypeOK
<1>3. answer' = "accepted" => TheVerification!AllVerify
  BY <1>1, SameBatch DEF Inv, AnswerRight, AllVerify
<1>4. answer' = "rejected" => ~TheVerification!AllVerify
  BY <1>1, SameBatch DEF Inv, AnswerRight, AllVerify
<1> QED BY <1>1, <1>2, <1>3, <1>4 DEF TheVerification!Decide

\* batch_verify implements Verification but for the fairness: it starts where
\* that starts, and every step is one of its steps or a stutter.
THEOREM BatchImplements ==
  Spec => TheVerification!Init /\ [][TheVerification!Decide]_<<items, answer>>
<1>1. Init => TheVerification!Init
  BY BatchAssumption DEF Init, TheVerification!Init
<1>2. Inv /\ Inv' /\ [Next]_vars => [TheVerification!Decide]_<<items, answer>>
  BY StepDecides
<1> QED BY <1>1, <1>2, Always, PTL DEF Spec
=============================================================================
