----------------------------- MODULE BatchVerify -----------------------------
(***************************************************************************)
(* batch_verify of src/core/crypto/schnorr.rs: the signatures of a block   *)
(* are cut into chunks, one thread per chunk verifies its items and sends  *)
(* one verdict through an mpsc channel, and the caller receives until a    *)
(* verdict is negative or every sender is gone.                            *)
(*                                                                         *)
(* A step is what a thread does between two points where another one can   *)
(* notice: verifying an item, sending, dropping a sender, receiving.       *)
(* Verification of one signature is external: an item verifies or not.     *)
(***************************************************************************)
EXTENDS Integers, Sequences, FiniteSets

CONSTANTS
  ChunkSize,   \* chunk_size
  Batches,     \* the batches to verify: for each item, whether it verifies
  MaxItems     \* bound on their length

ASSUME ChunkAssumption == ChunkSize \in Nat \ {0}
ASSUME BatchAssumption ==
  MaxItems \in Nat /\ \A b \in Batches : b \in Seq(BOOLEAN) /\ Len(b) <= MaxItems

ChunkOf(i) == (i - 1) \div ChunkSize + 1
Chunks == {ChunkOf(i) : i \in 1..MaxItems}

VARIABLES
  items,
  pc,        \* where the caller is
  answer,    \* what it returned, "none" before
  thread,    \* where the thread of each chunk is
  left,      \* the items of each chunk not verified yet
  valid,     \* the verdict of each chunk so far
  channel    \* the verdicts sent and not received

batch == <<items, pc, answer>>
vars  == <<batch, thread, left, valid, channel>>

ItemsOf(c) == {i \in DOMAIN items : ChunkOf(i) = c}
Used == {c \in Chunks : ItemsOf(c) # {}}

TypeOK ==
  /\ items \in Seq(BOOLEAN) /\ Len(items) <= MaxItems
  /\ pc \in {"start", "alone", "spawning", "receiving", "returned"}
  /\ answer \in {"none", "accepted", "rejected"}
  /\ thread \in [Chunks -> {"none", "verifying", "sent", "ended", "panicked"}]
  /\ left \in [Chunks -> SUBSET DOMAIN items]
  /\ valid \in [Chunks -> BOOLEAN]
  /\ channel \in Seq(BOOLEAN)
  /\ answer = "none" <=> pc # "returned"

Init ==
  /\ items \in Batches
  /\ pc = "start" /\ answer = "none"
  /\ thread = [c \in Chunks |-> "none"]
  /\ left = [c \in Chunks |-> ItemsOf(c)]
  /\ valid = [c \in Chunks |-> TRUE]
  /\ channel = <<>>

-----------------------------------------------------------------------------
(* The caller. *)

\* Faulty variant: the verdict is noted and the loop goes on.
NoteAnswer(a) == answer' = a /\ UNCHANGED <<pc, items>>

Return(a) == answer' = a /\ pc' = "returned" /\ UNCHANGED items

Goto(to) == pc' = to /\ UNCHANGED <<items, answer>>

\* No item: accepted.  One chunk: no thread.
Start ==
  /\ pc = "start"
  /\ \/ items = <<>> /\ Return("accepted")
     \/ items # <<>> /\ Len(items) <= ChunkSize /\ Goto("alone")
     \/ Len(items) > ChunkSize /\ Goto("spawning")
  /\ UNCHANGED <<thread, left, valid, channel>>

\* The first item of a chunk not verified yet.
Next1(c, i) == i \in left[c] /\ \A j \in left[c] : i <= j

VerifyAlone ==
  /\ pc = "alone"
  /\ \E i \in left[1] :
       /\ Next1(1, i)
       /\ IF items[i] THEN left' = [left EXCEPT ![1] = @ \ {i}] /\ UNCHANGED batch
          ELSE Return("rejected") /\ UNCHANGED left
  /\ UNCHANGED <<thread, valid, channel>>

FinishAlone ==
  /\ pc = "alone" /\ left[1] = {}
  /\ Return("accepted")
  /\ UNCHANGED <<thread, left, valid, channel>>

Unspawned == {c \in Used : thread[c] = "none"}

Spawn ==
  /\ pc = "spawning"
  /\ \E c \in Unspawned :
       /\ \A d \in Unspawned : c <= d
       /\ thread' = [thread EXCEPT ![c] = "verifying"]
  /\ UNCHANGED <<batch, left, valid, channel>>

\* drop(tx): from here on the threads hold the only senders.
DropSender ==
  /\ pc = "spawning" /\ Unspawned = {}
  /\ Goto("receiving")
  /\ UNCHANGED <<thread, left, valid, channel>>

\* Faulty variant: the first verdict decides.
ReceiveFirst ==
  /\ pc = "receiving" /\ channel # <<>>
  /\ channel' = Tail(channel)
  /\ Return(IF Head(channel) THEN "accepted" ELSE "rejected")
  /\ UNCHANGED <<thread, left, valid>>

Receive ==
  /\ pc = "receiving" /\ channel # <<>>
  /\ channel' = Tail(channel)
  /\ IF Head(channel) THEN UNCHANGED batch ELSE Return("rejected")
  /\ UNCHANGED <<thread, left, valid>>

\* A thread holds its sender until it has ended.
Senders == {c \in Chunks : thread[c] \in {"verifying", "sent"}}

\* Faulty variant: the caller takes an empty channel for the end.
DisconnectedIfEmpty ==
  /\ pc = "receiving" /\ channel = <<>>
  /\ Return("accepted")
  /\ UNCHANGED <<thread, left, valid, channel>>

\* The loop over rx ends when it is empty and every sender was dropped.
Disconnected ==
  /\ pc = "receiving" /\ channel = <<>> /\ Senders = {}
  /\ Return("accepted")
  /\ UNCHANGED <<thread, left, valid, channel>>

Caller ==
  Start \/ VerifyAlone \/ FinishAlone \/ Spawn \/ DropSender \/ Receive \/ Disconnected

-----------------------------------------------------------------------------
(* The thread of chunk c.  It stops at the first item that does not verify. *)

Verify(c) ==
  /\ thread[c] = "verifying" /\ valid[c]
  /\ \E i \in left[c] :
       /\ Next1(c, i)
       /\ IF items[i] THEN left' = [left EXCEPT ![c] = @ \ {i}] /\ UNCHANGED valid
          ELSE valid' = [valid EXCEPT ![c] = FALSE] /\ UNCHANGED left
  /\ UNCHANGED <<batch, thread, channel>>

Decided(c) == thread[c] = "verifying" /\ (left[c] = {} \/ ~valid[c])

\* The receiver lives until the caller returns.
ReceiverAlive == pc # "returned"

Send(c) ==
  /\ Decided(c) /\ ReceiverAlive
  /\ channel' = Append(channel, valid[c])
  /\ thread' = [thread EXCEPT ![c] = "sent"]
  /\ UNCHANGED <<batch, left, valid>>

\* Faulty variant: the thread waits for a receiver that is gone.
WaitForReceiver(c) == FALSE /\ UNCHANGED vars

\* unwrap on the SendError of a channel without receiver; nobody joins the
\* thread, so nobody sees the panic.
SendPanics(c) ==
  /\ Decided(c) /\ ~ReceiverAlive
  /\ thread' = [thread EXCEPT ![c] = "panicked"]
  /\ UNCHANGED <<batch, left, valid, channel>>

End(c) ==
  /\ thread[c] = "sent"
  /\ thread' = [thread EXCEPT ![c] = "ended"]
  /\ UNCHANGED <<batch, left, valid, channel>>

Thread(c) == Verify(c) \/ Send(c) \/ SendPanics(c) \/ End(c)

Next == Caller \/ \E c \in Chunks : Thread(c)

\* The operating system runs every thread that can run.
Fairness == WF_vars(Caller) /\ \A c \in Chunks : WF_vars(Thread(c))

Spec == Init /\ [][Next]_vars /\ Fairness

-----------------------------------------------------------------------------
\* Whatever the interleaving of the threads, the caller gets one answer, it
\* gets it in the end, and it is the conjunction of all verifications: a
\* negative verdict is never overtaken by the end of the other threads.
TheVerification == INSTANCE Verification
ImplementsVerification == TheVerification!Spec

\* A thread panics only when its verdict no longer matters: the batch was
\* rejected before, by another chunk.
OnlyLosersPanic ==
  \A c \in Chunks : thread[c] = "panicked" => answer = "rejected"

\* No thread stays behind, also when the caller returned early and nobody
\* receives any more.
ThreadsEnd ==
  \A c \in Chunks : thread[c] = "verifying" ~> thread[c] \in {"ended", "panicked"}
=============================================================================
