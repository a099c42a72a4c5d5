# A TLA+ verification of a file transfer over UDP

The program (`src/src`) is a pair of C programs for the course LINFO1341: `sender` reads a file or its
standard input, cuts it into packets of at most 512 bytes and sends them over UDP with selective repeat;
`receiver` puts them back in order and writes them out. `src/link_sim_repo` is the proxy the tests put
between the two: it loses, delays, cuts and corrupts packets.

This directory holds the models of the program, the TLC configurations that check them on small
instances, and theorems, proved with TLAPS, that hold for every value of the constants.

## 1. The system

| part | state | operations | interacts with |
|---|---|---|---|
| sender loop, `read_write_loop_sender.c` | next seqnum, `pktInWindow`, `sendingWindowSize`, `nb` (the last result of `read()`), the queue of unacknowledged packets | poll; read and send a block; handle an ACK, a NACK; resend what timed out; close | reads the input; datagrams to and from the receiver |
| receiver loop, `read_write_loop_server.c` | `waitedSeqnum`, `receivePkt`, the list of early packets, the output | handle a packet that was cut, the one waited for, another one, the closing one; time out after 3 s | writes the output; datagrams |
| client rendezvous, `wait_for_client.c` | whether a first datagram came | block in `recvfrom(MSG_PEEK)` | starts the receiver loop |
| sender queue, `queue.c` | ring of 31 slots, `size`, `ptrAdd`, `ptrPop` | `add`, `peek`, `dequeue`, `is_higher_or_equal`, `get` | called by the sender loop only |
| receiver list, `sorted_list.c` | array of 31 slots, `size`, `ptr` | `add`, `peek`, `pop`, `reset` | called by the receiver loop only |
| packet codec, `packet_implem.c` | a `struct pkt`, reused by the receiver | `pkt_encode`, `pkt_decode`, setters | both loops |
| link simulator, `link_sim.c` and `min_queue.c` | clock, heap of delayed packets, the two addresses | read the clock, deliver, receive and alter | both programs' datagrams |
| `main()` of both programs, `sender.c`, `receiver.c`, `create_socket.c` | descriptors; in the kernel: who has the port, the error pending on a connected socket | open, connect or bind, loop, return | starts the two loops; refusals of datagrams |
| statistics, option parsing, logging | counters | straight-line | - |

Everything in a program runs in one thread. The concurrency is between the two programs, the network,
the writer of the input and the clock: each part of a loop turn may be separated from the next by any
number of their steps.

What is hard here:

- **Ordering.** A seqnum is one byte and a transfer has any number of packets. Both loops must tell an
  old datagram from a new one by a byte, with four comparisons written in four different ways
  (`in_window`, `ind`, `is_higher_or_equal`, and the two increments).
- **Failure.** Any datagram may be lost, repeated, reordered, cut or corrupted; the closing packet is sent
  once; the programs start in any order, and the receiver may give up while the sender still works: a
  refused datagram makes whatever call comes next on the sender's socket fail. A `read()` of the input may
  fail, and -1 is taken for a length.
- **State that is carried over.** `nb` is shared by two `read()` calls and decides when to close; the
  structs that are decoded into and the array of the list are never cleared.
- **Searches without a bound.** `get()` and `peek()` run over an array until a pointer stops them.

What makes each part correct: the output is a beginning of the input at every moment and all of it when
the sender has closed; a packet is forgotten only when it is on disk; no store outside an array; the
three counts of unacknowledged packets agree; both programs end. `PROJECT.json` lists the hazards at their
lines, with the properties that watch each of them.

## 2. The modules

| module | models | remarks |
|---|---|---|
| `SeqNum` | the byte arithmetic of both programs | constants for 256, 31, 32 and 100, with the assumption that correctness needs of them |
| `Network` | the two directions of the UDP path | a set per direction; delivery leaves the datagram there |
| `Lookup` | what `get()` returns, an ACK takes off, the timer check visits | used by `Sender`, shown of the code by `Queue` |
| `Sender` | the sender loop | five values of `spc`, one per part of a turn, one action per branch |
| `Receiver` | rendezvous and receiver loop | one action per kind of datagram, as a turn never gives way |
| `Transfer` | both over the network | safety properties, invariants, refinement of `FileTransfer` |
| `Programs` | both from `main()` to the return, with the errors of the sender's socket | fairness and liveness; refines `FileTransfer` too |
| `ReadErrors` | `Transfer` with a `read()` of the input that may fail | refines `FileTransfer` as a transfer that may stall |
| `FileTransfer` | what a transfer promises | abstract: no packet, window or network |
| `Queue` | the ring of slots, `get()` turn by turn | with the three loops of its caller |
| `SortedList` | the array of early packets, `peek()` turn by turn | with the drain loop of its caller; refines `ReorderBuffer` |
| `ReorderBuffer` | what the list promises | abstract: a set; a drain is one step |
| `Codec` | building, encoding, cutting, altering, decoding | CRC32 is taken for collision-free |
| `MinQueue`, `LinkSim` | the heap, the loop of the proxy | `LinkSim` instantiates the heap with `timeval_cmp` |
| `SeqNumProofs`, `MCSeqNumProofs` | - | theorems about `SeqNum`, and about every pair of seqnums |
| `TransferProofs`, `FaultProofs` | - | theorems about `Transfer`; about `Programs` and `ReadErrors` |
| `QueueProofs`, `SortedListProofs`, `CodecProofs`, `LinkSimProofs` | - | theorems about the module of that name, `LinkSimProofs` with those about `MinQueue` |
| `MCSeqNum`, `MCLinkSim` | - | model-checking definitions only |

The three levels fit together as follows. `Transfer` composes `Sender`, `Receiver` and `Network` and
treats the two data structures by what they do at once: `Sender` by `FirstMatch` of `Lookup`, `Receiver` by
`DrainsExactly` and `Shifted`. `Queue` and `SortedList` open these up, step by step, and show that a search
finds just what `FirstMatch` says (`GetIsLookup`), that the loop of an ACK and the timer check come to what
`Lookup` says of them (`LoopsAreLookups`), and that a drain with its `reset()` is one step that takes
the run up to the first gap (`ImplementsReorderBuffer`). What they in turn assume of their callers, that
no packet is added to a full ring and none without a slot in the array, is `CountsAgree` and `NoOverrun`
of `Transfer`. `Codec` shows that what decodes without error is what was encoded, which is why `Network` treats a
cut datagram as its header alone and a corrupted one as lost to the receiver; in the sender a corrupted one still
leaves its length in `nb` (`ReceiveGarbled`). `Programs` and `ReadErrors` extend
`Transfer`: each keeps its actions and adds the steps in which a call fails, so the two kinds of failure are
looked at one by one.

Definitions that end in `Bug` are plausible faults of the definition that follows them; each property is
tested by putting one in place.

### How the state corresponds to the code

- `Sender`: the variables carry the names of the code's locals. `spc` is the position in the loop body.
  `inReady` and `inbox` are what `poll()` reported; the datagram of `inbox` is chosen at `poll()`.
  `window` is the content of the queue from its head. Timestamps are left out: any packet the timer check
  visits may have expired, at any turn. `nb` keeps only whether it is 0.
- `Receiver`: `list` is `window` of `list_t`; `out` is what was written; `rstate = "overrun"` is entered by
  a store outside the array. `receivePkt` keeps only whether it is 0, which is all the code asks.
- A packet of data carries its block number, an ACK the number of blocks written when it was built.
  Neither program reads them, apart from the test for an empty payload. They express the lifetimes below and
  the properties.
- `Programs`: `smain` and `rmain` are the position in `main()`. A program fails when it cannot make its socket, the
  sender at a `poll()` that fails (`PollFails`), the receiver at a `recvfrom()` or `connect()` of its rendezvous, when
  its port is bound already (`ReceiverFails`). An input that `open()` refuses does not stop the sender: `sender.c:74`
  tests for less than -1, and the loop polls descriptor -1, which is a pipe on which nothing arrives. `refused` is the error the kernel keeps for a
  connected socket (`ECONNREFUSED`); the next `send()` or `read()` reports it, whatever it was about, and
  clears it. A `send()` of a new block that fails ends the loop, one of a resend or of the closing packet
  is only logged; a failed `read()` is not noticed at all, the loop decodes the 12 bytes `buffer` still
  holds (`stale` says that this happened in this turn). An error on the receiver's
  socket changes nothing: a `recv()` that fails gives a length of -1, which `pkt_decode()` refuses as too
  short, and an ACK that is not sent is one that is lost.
- `ReadErrors`: `failed` records where a `read()` returned -1 and what the length field of the packet built
  from it then was. `malloc()` does not clear the struct, and `pkt_set_length()` and `pkt_set_payload()`
  refuse -1 with results nobody looks at; so the length is what was there before. It may be 0 (then the
  packet is a closing packet in the middle of the data), up to 512 (then an old payload is sent as a
  block), or more (then `pkt_encode()` fails and the loop returns).
- `Codec` keeps `pkt` over calls, and starts it from any content. `wire` is what arrives.
- `LinkSim` counts time in the microseconds of a `timeval`; `UsPerMs` and `MsPerSec` stand for 1000 each, delays are
  in milliseconds. A datagram too short to be a packet is dropped like one of an alien host.
- `SortedList` starts from an array of null pointers if `ZeroedHeap`, else from any.

## 3. What the runs check

| run | question | size |
|---|---|---|
| `seqnum` | do the four comparisons agree with distance on the circle? | the program's own constants, all 65536 pairs |
| `transfer` | safety, the inductive invariant and `FileTransfer`, over a regular file and a receiver that may give up at any moment | 6 seqnums, window 2, 7 blocks |
| `transfer_wide` | what does a `read()` that fails do to the transfer of a pipe? (`ReadErrors`) | 7 seqnums, window 3, 4 blocks, one error |
| `transfer_live` | does the transfer complete and do both programs return? (`Programs`) | 6 seqnums, window 2, 3 blocks |
| `sorted_list` | does the array stay consistent, and implement `ReorderBuffer`? | 12 seqnums, 5 slots |
| `queue` | do `get()` and the loops of its caller do what the sender's model says, and end? | 10 seqnums, 4 slots |
| `codec` | is what decodes what was sent? | payloads of 0 to 2 bytes |
| `link_sim` | heap, clock, waits and delays of the proxy | 5 packets, milliseconds of 2 µs, seconds of 2 ms |
| `empty_file`, `pipe_early`, `pipe_end`, `timers` | the findings of section 5 | small |

**Bounds.** The numbers of the program are scaled down with their relations kept (`SeqNumAssumption`,
`NetworkAssumption`), including the mismatch between the 31 slots of the array and the distance of 32
that `in_window` accepts. In `transfer` there is one more block than there are seqnums, so all of them are
used, the counter wraps, and the first block's seqnum comes back. With `DataLife = 2` no copy of the first block
is left by then: that is the assumption on lifetimes below, which no run goes beyond. `transfer_wide` has the window of 3 that is needed for a packet to stay in the list across a drain
(with 2 the list is always empty after one) and for a NACK to leave more packets outstanding than the
halved window allows; there an ACK older than the last one handled is dropped (`AckLife = 1`), while
`transfer` delivers such ones. One error is enough: after a failed read of length 0 or above 512 one of the
programs ends, and one of a short length is a block like any other. The three blocks of `transfer_live` fill the
window and leave one to be read after it moved; its seqnums do not wrap, which `transfer` is for. `sorted_list` and `queue` have no bound other than the size of the array:
seqnums are cyclic, so a run covers transfers of any length. The heap of `link_sim` needs five packets to
have a third level below the root; two microseconds in a millisecond are what it takes for less than a
millisecond to be left before a date; its clock stops at `MaxTime`, its packets are interchangeable
(`Symmetry`). The theorems of section 4 need none of these bounds.

**Lifetimes.** Selective repeat with one byte cannot work if a datagram may be arbitrarily old when it
arrives. `DataLife` and `AckLife` bound how many blocks may be written (leave the window) while a
datagram is on its way. With the program's numbers, `DataLife + 32 < 256` lets a packet be overtaken by
up to 223 blocks, and `AckLife <= 100` an ACK by 99. This is an assumption: UDP does not promise it and nothing
in the repository guarantees it. In the 10 s by which the link simulator may delay a packet, a fast connection can
write more than 223 blocks. What then becomes of the output the models do not say.

**Fairness** (`Programs`, run `transfer_live`). Each program gets its turns (weak fairness of starting,
returning and of the sender's loop, whose `poll()` has a timeout and whose calls do not block). The links are
fair-lossy: of infinitely many datagrams of a kind some arrive undamaged (`FairAcks` for ACKs with news; strong
fairness of `ReceiverAdvances` and `ReceiverRepeats`). `FairAcks` is not stated as strong fairness of one action
because a network that empties the line before every `poll()` would never enable it. A timer that is
checked for ever is sometimes found to have run out, and a refusal does not meet every resend
(`ResendAll`). The sender sometimes finds its socket empty (`FindsNothing`): it needs this, because the
length of the datagram it reads overwrites the 0 that announced the end of the file. When the sender has
returned, three silent seconds come (`SilenceComes`).

Nothing is assumed of the receiver's patience: its three seconds may pass while the sender is at work, and
either program may fail to start or, in `poll()` or the rendezvous, later. `CompletesUnlessMissed` and `ReturnUnlessMissed` say that the
transfer completes and both return unless that happened (`Missed`), and `ReturnsOrResends` what becomes
of the sender when it did: it returns at the first new block it cannot send, or, with its window full or its
input at the end, resends for ever. It does not idle (on a regular file). A refusal is taken to be back at once,
as on one host: none is under way when the receiver binds its port, but one that is pending then stays so
until the sender's next call.

In `queue` the caller goes on with a search it began.

Deadlock is checked except where the system may really stop: a receiver that no datagram reaches waits
for ever (`transfer_live`, `transfer_wide` and the violation runs), and the link simulator waits when it has nothing to do.

## 4. What is proved

TLAPS proves, for all constants that satisfy the named assumptions:

| module | of | theorems |
|---|---|---|
| `SeqNumProofs`, `MCSeqNumProofs` | the arithmetic | `ind()` is the distance ahead, and 256 minus it behind; blocks less than 256 apart have different seqnums; `in_window()` agrees with `ind()`; an ACK covers the packets of a window up to it and an old one covers none; the properties of the run `seqnum` |
| `TransferProofs` | `Transfer` | every state invariant of `transfer`, `NackResendsOnlyWritten`, and that it implements `FileTransfer` |
| `FaultProofs` | `Programs`, `ReadErrors` | `ProgramsInv`, `ClosedIsWritten` and the refinement of `FileTransfer` with the errors of sockets; `ErrorsInv` and the three properties of `transfer_wide`, a refinement among them, with the errors of `read()`; that a sender that has read from a pipe never closes |
| `SortedListProofs` | `SortedList` | `ListInv`, `PeekInBounds`, `RefusesOnlyDuplicates`, and that it implements `ReorderBuffer` |
| `QueueProofs` | `Queue` | `QueueInv`, `RingHoldsLast`, `GetIsLookup`, `LoopsAreLookups` |
| `CodecProofs` | `Codec` | `CodecInv`, `AcceptedIsSent`, `HonestIsAccepted` |
| `LinkSimProofs` | `LinkSim`, `MinQueue` | `LinkSimInv`, `HeadIsLeast`, `QueueHoldsQueued`, `SleepsNoLonger`, `NeverASecondEarly` |

Each invariant that is proved inductive is checked by TLC in the run of its module too, but for `EndInv`, `ProgramsInv`,
`ErrorsInv` and the invariant behind `PipeStaysOpen`, which only the proofs use.

**The transfer.** A one-byte seqnum says nothing by itself; so the invariant `Inv` ties each seqnum in the
system to the block it stands for and each block to a range in which its seqnum is unambiguous:

- `WindowInv`: the sender's window holds the blocks after the acknowledged ones, consecutively;
- `PositionsInv`: acknowledged <= written <= read, and `waitedSeqnum` is the seqnum of the block after
  the last one written;
- `FlightInv`: a data packet on its way is a block that was read, no more than `DataLife` behind, or the
  closing packet, in which case everything is written; an ACK names a place the receiver reached and is
  no more than `AckLife` behind;
- `ListIsAhead`: a packet in the list is the block its slot says;
- and `TypeOK`, `CountsAgree`, `OutputIsPrefix`, `NoOverrun`.

With the window at most `MaxWindow` wide, all the blocks a comparison can meet lie within less than
`SeqMod` of each other, and the lemmas of `SeqNumProofs` turn equal seqnums into equal blocks and
`is_higher_or_equal` into <=. This is why no packet without a slot is ever stored although
`in_window` would accept one: a packet 31 ahead has not been sent. There is one lemma per action.

`ClosedIsWritten` needs a second invariant, `EndInv`, about `nb`: on a regular file it is 0 only before the
first `read()` and after the end. `StepsMap` shows each step of `Transfer` to be one of `FileTransfer` or a
stutter, and `Implementation` concludes.

**The programs.** A step of `Programs` is one of `Transfer`, a step of a socket, or a call that fails; the lemmas of
`TransferProofs` serve for the first. `SocketInv` adds what the refinement needs: a packet that is decoded a
second time from a buffer never refilled is still one the receiver sent, and an error that the `send()` of a new
block can meet is there only once the receiver is gone. The second holds because the window is 1 until an
ACK has come: a refusal from before the receiver bound its port is met by a resend or a `read()`, never by a
new block. With it `ProgramsImplement` shows that the sender aborts only after the receiver did.

**Reads that fail.** `Inv` does not hold in `ReadErrors`: a packet without payload may stand for a block.
`ErrorsInv` has its parts with one change, that the packet of place `n` carries `Carried(n)`, which is nothing
where a `read()` left a length of 0 and block `n` elsewhere. `PlacesInv` adds that such a place is read and
never written, so that the sender cannot close behind one (`ClosedHasNothingLeft`), and that a loop has failed only because the receiver is gone
or the length was too long. `ErrorsDrain` says what a drain does with a place without payload in the list: it
stops just before it and takes leave. Every step of `ReadErrors` is then a step of `FileTransfer` or a
stutter (`ErrorsMap`): a program that a failed `read()` stops takes no more steps.

**The list.** `ListInv` says that a packet lies in the slot of its distance from `Base`, which is `waitedSeqnum`
outside a drain and stays put in one; that `size` is the number of filled slots; and that a drain has emptied the
slots before `ptr`. So `peek()` meets a filled slot before it reaches the end of the array. The theorems have
the hypothesis `ZeroedHeap`: without it they are false (section 5).

**The ring.** `RingInv` gives the content of each slot as the last packets added, in order. `SearchInv` says that
a search has passed over no match and meets the head again only when the ring is full; `AckInv` that what an
ACK took off is what it covers. `TimerInv` says that a timer check has looked at the first `n` visits of
`Visits` and goes on behind the last of them. That `n` does not outgrow the window is `IsNth`: the seqnums
it looks for go round modulo 31, so after 31 of them it is back at the head; if the head is past 30 they
stop before 30, since a window that wraps round ends at 29 at most (`PastTheWindow`). `Visits` is a recursive function; its values come by `Induction`, which is stated of
a set of numbers because the library's theorem cannot be used (see the heap below). `GetFindsFirst` and
`LoopsComeToLookups` then compare the end of each loop with what `Lookup` says at once, so `Sender` may use
`Lookup` in their place.

**The codec.** `SentInv` and `LinkInv` describe what can lie on the wire: a packet built by one of the
programs, as it was, cut, or with one part altered. `JunkAssumption` is that an altered CRC is the CRC of
nothing else.

**The heap.** `HeapInv` says that no slot is later than its parent and that each packet is in one slot. `minq_push()`
and `minq_pop()` lift and sink along a path, and are recursive functions on indices. That these functions have values, that the path ends, and that
the heap's root is its least slot are inductions. The library's induction theorems cannot be used here, so the module proves
`Least`, that a set of naturals that is not empty has a least element, and each induction looks at the least
index for which a statement fails. The proofs cover heaps of any size, and the slot 0 whose left child is itself.
`DateInv` bounds what a date that is not normalised can be off by, from which `NeverASecondEarly` and `SleepsNoLonger` follow by arithmetic, in
microseconds, for any number of them in a millisecond and of milliseconds in a second.

**Only model-checked**: liveness (`transfer_live`, `SearchEnds`), which the prover does not reach. Every other
property that a passing run checks is a theorem.

## 5. What was found

1. **`empty_file`**: `read_write_loop_sender.c:240` says that the receiver stops by itself if the closing
   packet is lost. An empty file has no other packet, and the receiver is then still in `wait_for_client()`,
   which has no timeout: it waits for ever.
2. **`pipe_early`**: `sender.c:104` says "close when finished". `nb` starts at 0, so a sender whose input is a
   pipe that is slower than the timeout of `poll()` closes before it has read anything.
3. **`timers`**: the timer check is meant to go over the window (`send_window_test.c:86`). It steps to the
   next seqnum modulo 31 rather than 256, so from seqnum 30 on it stops early and only the head of the
   window is resent in time. The transfer still completes (`CompletesUnlessMissed`), slowly.
4. **`pipe_end`**: the same line of `sender.c`, at the other end. Once a pipe is empty and closed by its writer
   `poll()` reports POLLHUP and not POLLIN, so the `read()` that would return 0 is never made: a sender that has read
   and has acknowledged all of a pipe polls for ever. The receiver ends by its timer. `PipeStaysOpen` proves that it never
   closes, for every pipe of one block or more.

Also worth knowing, though no run of its own is given to them:

- A NACK never brings back the packet that was cut (`NackResendsOnlyWritten`): it names the packet waited
  for, and the sender resends the one before.
- `new_list()` of `sorted_list.c` does not clear its array, although line 17 calls the new list empty, and `add()`
  refuses packets that were never there if `malloc()` returned used memory. The run `sorted_list` and its proofs are for
  zeroed memory; with `ZeroedHeap = FALSE` TLC refutes `RefusesOnlyDuplicates` in the first `add()`.
- `timeval_diff()` does not return the difference that `link_sim.c:114` announces if less than a second is left and
  the date lies in the next second: the second is taken off and not added, and the result is negative. `select()`
  then waits for a millisecond, again and again until the second is over. `SleepsNoLonger` holds all the same:
  no wait is longer than the larger of what is left and a millisecond.
- A delayed packet may leave the link simulator up to a second before its date, never more
  (`NeverASecondEarly`), because the date is not normalised. Its delay is taken modulo 10 s
  (`link_sim.c:217`), where the comment above says "capped".
- A `read()` that fails, as on a directory, puts a packet of garbage in the transfer. If the length left in it is
  0 the receiver takes leave at that place with a beginning of the input (`EndsAtError`); the blocks
  before it are all written, none behind it is.
- `sender` returns `EXIT_SUCCESS` whatever its loop did.
- A sender that is started first loses nothing by it: its first packet is resent, and the refusals never meet
  the `send()` of a new block, since the window is 1 until an ACK has come (`CompletesUnlessMissed`; with a
  first window of 2 it fails).

## 6. What is not modelled

- Statistics (`stat.c`): counters which the loops write and never read. No step depends on them, and what
  they should add up to is written nowhere.
- Option parsing, the translation of names, logging: straight-line code before the first action, or
  without an effect on the transfer. `main()` is modelled from the opening of the input on.
- Errors of `write()`: the code tests for 0 only, which `write()` of a payload does not return. What a
  short write leaves on disk is outside the program; the `out` of the models is what it asked to be written.
- A failing `malloc()`, at which the code returns or crashes.
- The bytes of a packet: CRC32 is modelled as the content it covers, so a collision cannot happen.
- Timestamps, and the round-trip statistics computed from them: any packet the timer check looks at may
  have run out.
- Both kinds of failure at once: `ReadErrors` has no refusals before the receiver is gone, `Programs` no
  failing `read()` of the input.
- `tests/`: read as documentation of what the authors expect.

## 7. Plan

Done: `SeqNum`, `Network`, `Sender`, `Receiver`, `Transfer` with its proofs; the data structures
`SortedList` and `Queue`; `Codec`; `LinkSim`; then `Programs` and `ReadErrors`, the three loops around the
queue and the delays of the link simulator.

Then the proofs of section 4, which leave only liveness to the runs.

## 8. Running the checks

    tlc -config MCTransfer.cfg Transfer.tla        # likewise for each cfg, see PROJECT.json
    tlapm TransferProofs.tla                       # likewise for each module of proofs
