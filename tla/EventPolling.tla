---------------------------- MODULE EventPolling ----------------------------
(***************************************************************************)
(* pollEvents of shared/utils/index.ts, on which both off-chain workers    *)
(* stand.  A poll reads the number of the latest block, walks from its     *)
(* cursor to that block in chunks, and calls a handler for each event, in  *)
(* order.  An error in the query or in the handler makes it read the rest  *)
(* of the range again in smaller chunks; an error in a single block skips  *)
(* the block.                                                              *)
(*                                                                         *)
(* A poll is a record.  The operators below are its steps, between one     *)
(* await and the next; the handlers, and the steps they take, belong to    *)
(* the worker that polls.                                                  *)
(***************************************************************************)
EXTENDS Integers, Sequences

CONSTANT MaxLogBlockRange       \* MAX_LOG_BLOCK_RANGE

ASSUME MaxLogBlockRangeAssumption == MaxLogBlockRange \in Nat \ {0}

\* What a poll waits for: the latest block, a query, or a step of the handler of
\* the first of its events.
Waits == {"head", "chunk", "event", "order", "proof", "submit", "sent"}

\* `start` is the next block to read, and the result when `at` is "done".
Polls(Event) == [at : Waits \cup {"done"}, start : Nat, head : Nat,
                 chunk : 1 .. MaxLogBlockRange, todo : Seq(Event)]

PollFrom(block) ==
    [at |-> "head", start |-> block, head |-> 0, chunk |-> MaxLogBlockRange, todo |-> <<>>]

ChunkEnd(poll) ==
    LET last == poll.start + poll.chunk - 1 IN
    IF last < poll.head THEN last ELSE poll.head

\* The chunk is through: on to the next one, or return currentBlock + 1.
Onward(poll) ==
    LET next == ChunkEnd(poll) + 1 IN
    IF next > poll.head
    THEN [PollFrom(next) EXCEPT !.at = "done"]
    ELSE [PollFrom(next) EXCEPT !.at = "chunk", !.head = poll.head]

\* getBlockNumber has answered; `! currentBlock` holds of 0 too.
HeadRead(poll, currentBlock) ==
    IF currentBlock = 0 \/ currentBlock < poll.start
    THEN [poll EXCEPT !.at = "done"]
    ELSE [poll EXCEPT !.at = "chunk", !.head = currentBlock]

\* getBlockNumber has failed: the same blocks are left for the next poll.
HeadFailed(poll) == [poll EXCEPT !.at = "done"]

\* queryFilter has returned these events of the chunk.
Queried(poll, events) ==
    IF events = <<>> THEN Onward(poll) ELSE [poll EXCEPT !.at = "event", !.todo = events]

\* The handler of the first event has returned.
Returned(poll) ==
    IF Len(poll.todo) = 1 THEN Onward(poll)
    ELSE [poll EXCEPT !.at = "event", !.todo = Tail(@)]

Waiting(poll, what) == [poll EXCEPT !.at = what]

\* Mutant: a single bad block is tried again for ever.
RetriesForever(poll) ==
    [poll EXCEPT !.at = "chunk", !.todo = <<>>,
                 !.chunk = IF poll.chunk > 1 THEN poll.chunk \div 2 ELSE 1]

\* Mutant: an error skips the chunk, whatever its size.
SkipsTheChunk(poll) == Onward(poll)

\* The query or the handler has thrown: half of the chunk, or skip the block.
\* The events before the one that failed are delivered again.
ChunkFailed(poll) ==
    IF poll.chunk > 1
    THEN [poll EXCEPT !.at = "chunk", !.chunk = @ \div 2, !.todo = <<>>]
    ELSE Onward(poll)

\* The chunk that failed was a single block, whose events are lost.
Skips(poll) == poll.chunk = 1

=============================================================================
