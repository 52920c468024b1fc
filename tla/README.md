# A model of selective_reject

`rcopy` fetches a file from `server` over UDP with a sliding window, cumulative
acknowledgements (RR) and selective rejects (SREJ).  This directory holds TLA+
modules of the two programs, the TLC runs that check them on small instances,
and TLAPS proofs of the main results for every value of the parameters.

1. [The system](#the-system)
2. [The modules](#the-modules)
3. [What the runs show](#what-the-runs-show)
4. [What is proved](#what-is-proved)
5. [Disagreements found](#disagreements-found)
6. [What is not modelled](#what-is-not-modelled)
7. [Plan](#plan)

## The system

| part | source | state | operations |
|---|---|---|---|
| dispatcher | `server.c` main, wait_for_children; `util.c` s_fork | the listening socket, the children | receive a FILE_NAME, fork a child for it, reap ended children |
| server set-up | `server.c` process_client, file_name | `File`, `Server->remote` | open the file, answer FILE_NAME, wait for FILE_BEGIN, answer it |
| server transfer | `server.c` file_transfer, file_eof | `Window`, position in the file, `Server->seq`, retry counters | fill, send, wait for an answer, repeat, slide; announce the end |
| rcopy set-up | `rcopy.c` process_server, file_name | `Client->num_wait`, `Client->remote`, local file | ask for the file, await the answer, open the local file, begin |
| rcopy transfer | `rcopy.c` file_transfer, file_eof | `Window`, the datagram buffer, the local file | wait for data, answer RR or SREJ, write, slide; answer the end |
| window | `libsrj.c` | ring of frames, `bottom`, `top`, `rr`, `srej`, `eof`, `num_wait`, `top_sent` | allocate, test and set frames, slide |
| packets | `libsrj.c` | a `pkt`: the datagram, its length, the header read from it | build, checksum, send, receive, read a request |
| cpe464 | vendored | none | send with losses and bit flips, `in_cksum` |

**How they interact.**  The processes share no memory; everything is a datagram.
`rcopy` sends FILE_NAME to the dispatcher's port.  The dispatcher forks a child
with a socket of its own, and that child answers FILE_NAME_ACK from there.
`recv_pkt` stores the source of every datagram in `remote`, so that rcopy's
next packet, FILE_BEGIN, goes to the child it heard last.  The child answers
FILE_BEGIN_ACK and starts the transfer at once: it fills its window from the
file, sends it, and waits for one answer.  rcopy answers the block it expects
with RR (next number) and a block ahead of it with SREJ (the number missing),
writes in order, and slides.  At the end the child sends FILE_EOF, rcopy answers
FILE_EOF_ACK once and exits.

**What makes it hard.**  Datagrams are lost, damaged, late, repeated and out of
order.  Four timers run against each other: the child waits 10 s for
FILE_BEGIN, 2 s for an answer to its window and 1 s for FILE_EOF_ACK; rcopy
waits 1 s in the set-up and 10 s for data, once.  Nobody is told when a process
ends or is killed.  Two windows over the same numbers move at different times.
Some fields are read before anything is stored in them.  Every buffer is used
again for packets of other lengths, and `pkt_fill_frame` copies a struct of
pointers, so all of rcopy's frames show the datagram received last.  A repeated
FILE_NAME means a second child.  Ended children keep their place in the process
table until the next FILE_NAME.  The full list, each item at its line, is under
`hazards` in `PROJECT.json`.

**What makes it correct.**

- window: a frame belongs to one sequence number of the window at a time;
  sliding frees only what has been acknowledged.
- transfer: the local file is always a prefix of the remote one; rcopy takes the
  end of the file only when nothing is missing, and it is announced only when
  rcopy has taken every block, the last perhaps not yet written; no block is
  forgotten by the server before rcopy has it; with few faults the whole file
  arrives; both always end, the child soon after rcopy.
- packets: what is believed is what was created, and what arrives whole is
  believed if the two pkts have room for it, whatever they held before.
- set-up: one child alone serves a request; rcopy and all children end; rcopy
  gives up the set-up only when its datagrams were lost; together with the
  transfer they deliver the file.
- dispatcher: zombies do not add up, only a full process table ends it, and it
  waits for no child.

## The modules

| module | models | extends |
|---|---|---|
| `SrejWindow` | the window of `libsrj.c` as operators on a record | |
| `Packets` | flag, sequence number and payload of a datagram | |
| `Sender` | `file_transfer` and `file_eof` of `server.c` | SrejWindow, Packets |
| `Receiver` | `file_transfer` and `file_eof` of `rcopy.c` | SrejWindow, Packets |
| `FileCopy` | the abstract promise: a file grows as a prefix and is declared complete only when it is | |
| `Transfer` | both halves over a network that does anything | Sender, Receiver; FileCopy by refinement |
| `TransferInvariant` | its inductive invariant, in named parts | Transfer |
| `MCTransfer` | the instance TLC checks | TransferInvariant |
| `TimedTransfer` | Transfer with FIFO delivery, counted faults and timers | Transfer, also by refinement |
| `TimedInvariant` | its inductive invariant: order of queues, numbers of answers, clocks | TimedTransfer, TransferInvariant |
| `Server` | a whole child: `process_client`, `file_name`, `file_begin` around Sender | Sender |
| `Rcopy` | rcopy whole: `process_server`, `file_name`, `file_begin` around Receiver | Receiver |
| `Session` | dispatcher, two children (instances of Server) and one rcopy, with source addresses | Rcopy; FileCopy by refinement |
| `SessionInvariant` | its inductive invariants: who is in conversation with whom, and the transfer they carry out | Session; TransferInvariant by INSTANCE |
| `Dispatcher` | `main`, `s_fork` and `wait_for_children` over the process table | |
| `Datagram` | a packet created, sent, damaged and received word by word | |
| `DatagramInvariant` | its inductive invariant | Datagram |
| `MCDatagram` | the instance TLC checks | DatagramInvariant |
| `SrejWindowProofs` | lemmas about the ring and the window operators | SrejWindow |
| `TransferProofs` | the theorems about Transfer | TransferInvariant, SrejWindowProofs |
| `TimedProofs` | the theorems about TimedTransfer | TimedInvariant, TransferProofs |
| `DispatcherProofs` | the theorems about Dispatcher | Dispatcher |
| `SessionProofs` | who serves in a Session | SessionInvariant, SrejWindowProofs |
| `SessionCopyProofs` | a Session copies the file | SessionProofs; TransferProofs by INSTANCE |
| `SessionTriesProofs` | why a try of rcopy to set up a Session fails | SessionCopyProofs |
| `DatagramProofs` | the theorems about Datagram | DatagramInvariant |

### Correspondence with the code

**States.**  `sstate` and `rstate` are the `STATE` variables of the loops, with
the names of the source.  A loop nested in another never has two live states, so
one variable follows both.  `Server` splits the child's `S_SEND` by the packet it
sends, and `Rcopy` names the select inside `file_begin` `S_WAIT_ON_BEGIN`.  One
pass through a `case` of the switch is one action; a function that loops around
`select_call` is one action for each way a turn of the loop can go.

**Data.**  `swin` and `rwin` are the two `window` structs, field by field.
`fpos` is the number of blocks read from `File->fp`: block *i* is the *i*-th read
of `buffsize` bytes, and `PartialLast` says whether the last is short, which
decides whether the read that returns it or the next sets `eof`.  The number 1
as `sseq` or `rseq` is the increment of `create_file_eof`.  `out` is the local
file, as pairs of the block whose bytes were written (`data`) and the block
whose length was used (`len`): `rbuf` models the one datagram all frames share,
and a frame owns only its `data_len`.

**Memory nobody wrote.**  `num_wait` and `top_sent` of a new window, and
`Client->num_wait`, take any value of `MallocWait`, `MallocTop` and
`ClientWait`: the code stores nothing in them.  `top_sent` of the server matters
(it decides the end of the transfer); on rcopy's side the fields are never read.
`lfp` is `LocalFile->fp`: "unset" until `fopen` returns.  In `Datagram` a pkt
starts with whatever `malloc` returned.

**Sources.**  In `Session` a datagram carries its source, because `recv_pkt`
writes it to `remote` before the checksum is looked at: a damaged datagram
redirects rcopy too.  Children only ever hear rcopy, so their `remote` is
constant.

**Steps.**  A window is sent in one step, and written in one step: nothing else
in the process runs in between, and other processes see only the datagrams, in
order.

**Kills.**  `Kill` of Session ends any one process at any point, with its socket
and what waits there.  The test script kills the server in this way, and a system
call that fails has the same effect: the wrappers of `util.c` end the program.

**The process table.**  `Dispatcher` counts children instead of following them:
`running`, `zombies`, and `peak`, the most that ever ran at once.  A child may
end between any two steps, those of the loop around `waitpid` included, or
never.  The limit of the table is `ProcLimit`.

**Words.**  `Datagram` takes the 16-bit word of `in_cksum` as its unit, of
`WordValues` values (65,536 in the code).  `Memories` are the contents `malloc`
may leave in the buffers.  The sequence number and the two sizes of a request are two words
each, in network order.  The flag and the byte `struct hdr` is padded with make
one word; the pad byte is cleared by `create_hdr` and is part of what is summed.
`in_cksum` is external: the headers call it the Internet checksum, and that is
what the module defines.

**Room.**  The pkts of rcopy and of its child are allocated for one block of the
size rcopy asks for; main's has `MAX_BUFF_SIZE`.  `receiver` says which of the
three receives; the sender is rcopy, or the child if rcopy receives.  DATA is a
block at most, and fits.  A FILE_NAME is as long as its name and nine bytes more,
and nothing compares that with the block size (`rcopy.c:222`): `create_pkt` may
write over the end of its pkt.  Then either the program aborts, and sends
nothing; or what follows the pkt is overwritten, in which `data` itself may lie,
cleared by `memset` before it is copied, and what was written there may be lost
again before it is sent (`Overrun`, `TailLost`).  `recv_pkt` lets `s_recvfrom`
read no more than the receiver's room and a header (`Limit`, `Arrived`): main
cuts a name longer than `MAX_BUFF_SIZE` allows, and a child a repeated FILE_NAME
longer than its block.  `Extent` is how many words of memory behind a header the
model shows; it bounds nothing in the program.

The other modules have no lengths: they assume that a FILE_NAME fits one block,
that is, a name at least nine bytes shorter than the block size, and that the
block size is no more than `MAX_BUFF_SIZE`.  The code checks neither.

### The networks

- `Transfer`: `net` is the set of everything ever sent; any of it may be
  received at any time, any number of times or never, and either side may time
  out or receive a damaged datagram at any moment.  `Leftovers` are packets of
  the set-up that may still arrive.  Everything safe here is safe on any
  network, whatever the timers.
- `TimedTransfer`: FIFO queues, at most `MaxFaults` losses or damages, and a
  clock in seconds that moves only when neither program has anything to do but
  wait.  `selectC` goes on after rcopy has left, so that one can say how long
  ago that was.  `ImplementsTransfer` says that its steps are steps of Transfer.
- `Session`: the same with one queue per process and sources; `FaultFlags`
  limits what is lost, `MaxDelays` datagrams may be held back for any time, and
  `MaxKills` processes may be killed.

Computing and delivering take no time in the last two.  The shortest timer is
one second; a network slower than that is what `Delay` of Session is for.

### Fairness

`TimedSpec` and `SessionSpec` assume weak fairness of each process's steps and
of Tick: the operating system runs a process that is ready, and time passes.
Nothing is assumed of losses, damages, delays or kills but their bounded number;
a datagram that is held back may never arrive.  `DispatcherSpec` assumes weak
fairness of the dispatcher's own steps and nothing of the children, which may run
for ever.  Weak fairness is enough because a process that can step stays able to
until it does.  Transfer and Datagram have no fairness: they are for safety only.

## What the runs show

| run | module | states | checks |
|---|---|---|---|
| transfer | MCTransfer | 505,314 | IInv, OutputIsPrefix, EofMeansComplete, DiscardedIsTaken, DataFitsWindow, NumbersFit, ImplementsFileCopy, NeverTakenBack |
| timed | TimedInvariant | 27,753 | TimedInv, ImplementsTransfer, Completes, AckAnswersEof |
| patience | TimedTransfer | 238,274 | EofMeansComplete, FollowsRcopy, BothLeave |
| session | SessionInvariant | 23,716 | SessionIInv, OneFile, OneChildServes, SessionImplementsFileCopy, FilesAgree |
| session_ends | SessionInvariant | 367,061 | NoTryForNothing, EveryTryWasLost, AllLeave |
| dispatcher | Dispatcher | 1,364 | DispatcherInv, TableBounded, ClosesOnlyWhenFull, AlwaysListens |
| datagram | MCDatagram | 1,834,870 | DatagramIInv, GoodIsAsCreated, WholeIsGood, RequestArrives |
| stale_num_wait | TimedTransfer | | GivesUpAfterMaxTries is violated |
| late_eof | TimedTransfer | | BreaksOut is violated |
| children_close | TimedTransfer | | ChildrenClose is violated |
| lost_begin_ack | Session | | FilesAgree is violated |
| late_file_name | Session | | CompleteFilesAgree is violated |

**transfer**: window 3, five blocks with a short last one.  The file is longer
than the window and than the ring, so slots are reused while old packets of the
same slot are still in `net`; a window of three has a first, a middle and a last
block, so that RR and SREJ can differ by more than one.  One retry of each kind
is enough: `net` keeps everything, so a further retry sends nothing new.
`MallocTop` has a value below, inside and above the numbers used.

**timed**: window 2, three blocks, the real retry limits and timers.  Four faults
are the most for which `Completes` can hold: rcopy's patience is 10 s and each
silence of the server's window costs 2 s, so five well placed losses exhaust it.
`MallocWait` and `MallocTop` are {0} here because with other values the transfer
may indeed fail: see stale_num_wait and late_eof below.  `PartialLast` is TRUE
because of late_eof too.

**patience**: the cases timed leaves out, where the copy may fail: six faults, a
file of whole blocks with its late end of file, `num_wait` starting at 0 or 8
and `top_sent` at 0 or 9.  Both programs still end, the end of the file is never
announced before rcopy has taken every block, and no child outlives rcopy by more than twelve seconds: ten
further waits of two seconds and the present one, less the ten seconds rcopy
waited itself.  Twelve is reached; with eleven TLC finds a counterexample.

**session**: window 2, three blocks, real limits and timers, up to three faults
on any packet but FILE_BEGIN_ACK (lost_begin_ack shows why), no delays
(late_file_name shows why).  A lost FILE_NAME_ACK has the dispatcher fork a
second child; a damaged one sends the repeated FILE_NAME to the first child.
Two children are enough as long as the environment does not lose what would call
for a third; `Spared` and `Answered` say so in the model.

**session_ends**: window 1, one block, the remote file or the local file may fail
to open, `Client->num_wait` starts at 0 or 9, one fault on any packet, one delay
of any packet, and one process killed at any point.  It includes a FILE_NAME that
reaches a child in the middle of its transfer, which then reopens the file and
waits for a FILE_BEGIN that never comes, and FILE_NAME_ERR_ACK, which rcopy
ignores until its tries are used up.  One block is enough to bring every process
to every wait, and `AllLeave` asks only that each wait ends.  `EveryTryWasLost`
is about why rcopy ends in the set-up, with `LocalFile->fp` still what malloc
left: starting from 9, one datagram is enough, which is the hazard of the
uninitialised `num_wait`, but it takes one; starting from 0 it takes more than
there are.  A FILE_NAME_ERR_ACK, which rcopy drops, and a killed process are left
aside there, for then the tries are in vain without any loss.

**dispatcher**: three places in the process table, so that the table can be full
with any mixture of running children and zombies; six arrivals, so that it fills,
empties and fills again; a socket that holds two datagrams and drops more.

**datagram**: words of four values, so that sums carry, wrap around and meet both
zeros of ones' complement; sequence numbers with and without a high word; bare
headers, odd and even payloads, requests that fill one block exactly, miss it by
the zero after the name and by nearly everything, and that fit a block but not
main's pkt.  main's room is 7 words, which lies between the block sizes 1, 6 and 9.
Two datagrams go through the same two buffers: the second is shorter or longer
than the first, or the first again.  Each has at most one word damaged.

Deadlock is checked in all runs but two: the only states with nothing to do are
`Terminated`, `TimedTerminated` and `SessionOver`, each written out as a step.
The dispatcher never ends of itself and stops when `MaxArrivals` is used up and
no child is left; Datagram stops after `MaxSends`.

Every property has a mutant, a change of one modelled definition the way a
programming error would change it, under which the run finds the property
violated.  The mutants stand next to the definition they change and are marked
`Mutant`.

## What is proved

Every theorem holds for all values of the constants the named assumptions allow.
For `Transfer` that is every window size above 0, every number of blocks, either
kind of last block, any retry limits, any values malloc may have left, and any
left-over packets (`WindowSizeAssumption`, `SenderAssumption`,
`LeftoversAssumption`).  `TimedTransfer` adds `MaxFaultsAssumption`, a natural
number of faults.  `Dispatcher` rests on `DispatcherAssumption`, natural numbers
for its three bounds.  `Session` rests on `WindowSizeAssumption`,
`RcopyAssumption` and `SessionAssumption`: natural numbers for blocks, tries and
for the faults, delays and kills of the environment, and either outcome of each
`fopen`.  `Datagram` rests on `DatagramAssumption`: a word has room for
the flags, a name ends before its first
zero, what memory holds are words, and `Extent` is large enough to show them all.
No request is assumed to fit a pkt.
Nothing else is assumed; where a theorem has a hypothesis it is in its statement.

| module | theorem | statement |
|---|---|---|
| TransferProofs | Invariance | `Spec => []IInv` |
| | TypeCorrect | `Spec => []TypeOK` |
| | PrefixAlways | `Spec => []OutputIsPrefix` |
| | EofAlwaysComplete | `Spec => []EofMeansComplete` |
| | DiscardedAlwaysTaken | `Spec => []DiscardedIsTaken` |
| | DataAlwaysFits | `Spec => []DataFitsWindow` |
| | NumbersAlwaysFit | `Spec => []NumbersFit` |
| | Refinement | `Spec => ImplementsFileCopy` |
| | NothingTakenBack | `Spec => NeverTakenBack` |
| TimedProofs | TimedInvariance | `TimedSpec => []TimedInv` |
| | TimedRefines | `TimedSpec => ImplementsTransfer` |
| | TimedPrefixAlways | `TimedSpec => []OutputIsPrefix` |
| | AckAlwaysAnswersEof | `TimedSpec => AckAnswersEof` |
| | AlwaysFollowsRcopy | `TimedSpec => []FollowsRcopy` |
| DispatcherProofs | DispatcherInvariance | `DispatcherSpec => []DispatcherInv` |
| | TableAlwaysBounded | `DispatcherSpec => []TableBounded` |
| | ClosesOnlyFull | `DispatcherSpec => []ClosesOnlyWhenFull` |
| SessionProofs | SessionInvariance | `SessionSpec => []SessionIInv` |
| | SessionTypeCorrect | `SessionSpec => []SessionTypeOK` |
| | SessionOneChildServes | `SessionSpec => [](delays = 0 => OneChildServes)` |
| | OneChildAlwaysServes | if `MaxDelays = 0`: `SessionSpec => []OneChildServes` |
| SessionCopyProofs | SessionOneFile | `SessionSpec => []OneFile` |
| | SessionFilesAgree | `SessionSpec => [](delays = 0 => CompleteFilesAgree)` |
| | SessionCopies | `SessionSpec /\ [](delays = 0) => SessionImplementsFileCopy` |
| | SessionAlwaysCopies | if `MaxDelays = 0`: `SessionSpec => SessionImplementsFileCopy` |
| SessionTriesProofs | SessionTriesCounted | `SessionSpec => []NoTryForNothing` |
| | SessionEveryTryWasLost | `SessionSpec => [](delays = 0 => EveryTryWasLost)` |
| | EveryTryIsLost | if `MaxDelays = 0`: `SessionSpec => []EveryTryWasLost` |
| DatagramProofs | DatagramInvariance | `DatagramSpec => []DatagramIInv` |
| | DatagramGoodIsAsCreated | `DatagramSpec => []GoodIsAsCreated` |
| | DatagramWholeIsGood | `DatagramSpec => []WholeIsGood` |
| | DatagramRequestArrives | `DatagramSpec => []RequestArrives` |

**Transfer.**  None of the properties is inductive.  The local file is a prefix
because the only frame ever written is the one whose block was received last, and
that because rcopy answers, writes and slides before it reads again; that no old
packet is taken for a new one in a reused slot needs that a DATA packet carries
the block of its number (`NetShape`), which needs that the server's frames do
(`SenderShape`), which needs that a window slides only over acknowledged blocks
and that its numbers have distinct slots.  The chain that ties the two programs
together is `Knowledge`:

    swin.bottom, swin.rr, swin.srej  =<  rwin.rr  =<  fpos + 1, swin.top_sent + 1

the server knows no more than rcopy has, and rcopy has no more than was sent.
`AdjustDone` then gives `EndOfFile`: with `eof` set, `fpos = NumBlocks`, and an
RR above `top_sent` puts `rwin.rr` at `NumBlocks + 1`, whatever malloc left in
`top_sent`, because `SenderSent` makes it at least `fpos` whenever the server
hears an answer.  So a FILE_EOF in `net` means `rwin.rr = NumBlocks + 1`
(`NetShape`), and the file lacks at most the block rcopy is about to write; it
lacks nothing once rcopy reads again, which it must to take the FILE_EOF.  `NumbersFit` is the same chain read from above: no number
goes beyond `NumBlocks + WindowSize`.  The loops of the code count one further to
end, so that the unbounded numbers of the model are its `uint32_t` as long as
`NumBlocks + WindowSize + 1` is below 2^32.

`TransferProofs` has one lemma per kind of step, named after it.
`ServerMovesStep` and `RcopyMovesStep` put them together end by end: a move of
one end is any step of it that takes its packets from `net` and adds no others
than it sends, and it keeps the invariant while the other end stands still.
`NextIInv` follows because every step of Transfer is such a move; those of Session
are too, which is what the proofs about it use.  `SrejWindowProofs` holds what they need of arithmetic
modulo the window size: distinct numbers of a window have distinct slots
(`SlotInjective`), a slot returns after a full turn (`SlotPeriod`), what
`SetFrames` and `Slide` change and keep, and that `Rank` counts an interval of
empty frames.

**TimedTransfer.**  A step of it is a step of Transfer because what a queue holds
is in `net` or damaged (`QueueShape`), and because a timer that fires is always
allowed to in Transfer.  With `TimedRefines` whatever is proved of Transfer holds
with timers; `TimedPrefixAlways` is one instance.

`wait_on_ack` compares numbers alone, and RR and SREJ have numbers of their own,
which start at 1 too.  That it nevertheless takes nothing but the FILE_EOF_ACK
is due to the order of the queue: the numbers of answers never go down
(`AnswersInOrder`), an RR has 2 or more, and the server is past its transfer only
after it has taken one (`AnswerNumbers`), so that no answer still under way has
the number 1.

`FollowsRcopy` compares two programs that do not hear each other.  `Silences`
says that the seconds since rcopy could last have sent something are never more
than the server's counters of tries account for: the counters are reset only when
something arrives, and while something is on its way no time passes.  A
`num_wait` that malloc left above `MAX_TRIES` accounts for nothing and ends the
child at its next timeout.

**Dispatcher.**  `DispatcherInv` says where zombies may be: after a turn of
`wait_for_children` they and the children fit into what the busiest moment took,
and during one there is one place more.

**Session: who serves.**  The set-up has no sequence numbers, no acknowledged
close and, after a lost answer, two children.  That one child alone serves is
due to there being, until rcopy has its FILE_NAME_ACK, one thing that goes round
(`OneRequest`): the request, the child that is about to answer it, or the answer.
It is with at most one process at a time, and when a second of silence has passed
it is with none, so that the next FILE_NAME is again the only one.  When the
answer is read everybody else has nothing to read and nothing to answer, and from
then on rcopy speaks with its peer alone (`OnePeer`): the other child, if there is
one, never hears a FILE_BEGIN.  rcopy may be killed and leaves a child behind that
nobody will ever ask (`OneForgotten`).

All of this needs that a datagram is read or lost before its sender's timer
fires, and nothing else: losses, damage and kills are allowed in any number, as
far as the two children of the model go round: `Spared` and `Answered` leave out
the losses and the kills that would call for a third.  Hence the hypothesis `delays = 0`, no datagram has been held back yet.  It cannot
be dropped: late_file_name is the counterexample.

**Session: what is copied.**  `OneFile` says that the two ends that speak with
each other carry out a transfer of Transfer: with the state variables of Transfer
read off the session's, its whole invariant holds (`T!IInv`).  The server of that
transfer is rcopy's peer, and one that has not got to `file_transfer` counts as
one that is about to fill its first window (`PeerState`); rcopy in its set-up
counts as waiting for data (`ClientState`); the network is what lies in the
queues and belongs to a transfer (`Underway`).  The invariant is established at
the moment rcopy reads its FILE_NAME_ACK, when nothing of a transfer has ever
been sent and neither end has moved (`AnswerStartsTransfer`).  From then on every
step of the session is a move of the server's end (`Peer1Moves`, `Peer2Moves`),
a move of rcopy's (`ClientMoves`), or loses packets, and the lemmas of
TransferProofs, instantiated, do the rest.  A child that rcopy did not choose
sends nothing of a transfer (`Child1Elsewhere`, `Child2Elsewhere`).  A child may
also be killed, which is a server that leaves, and rcopy may be, which leaves the
file as it is.  `SessionCopies` follows because rcopy's moves are those of
FileCopy (`RcopyMovesCopy`).

**Session: why a try fails.**  `EveryTryWasLost` counts three things against each
other: the tries in `Client->num_wait`, the datagrams lost or damaged, and the
seconds of the children.  `TriesCounted` says that every try counted has cost a
datagram, and that the present one has as soon as there is nothing left that
could answer it (`WaitsInVain`).  That holds because each FILE_NAME that is not
lost finds someone to answer it: the dispatcher, or the child rcopy heard last,
which is still in `file_begin` because it waits ten seconds and each failed try
takes one (`PeerStays`), and had only just begun to wait when its answer went out
(`JustAnswered`).  With ten losses the child may be gone, and the next FILE_NAME
goes to a closed socket; hence the first alternative of the property.  The proof
uses `SessionIInv` for who is asked and `OneFile` for there being nothing of a
transfer in rcopy's queue, and both only while no datagram was late.

The two children are instances of the same module with variables of their own;
the prover has no way to say "the same for the other", and the lemmas about the
second child are those about the first.

**Datagram.**  The checksum is a sum over the words of a packet, defined as a
recursive function on its prefixes; that sums of the same words are equal and
that one changed word changes the sum are proved by the least prefix on which
they fail to be so.  In ones' complement there are two zeros: a sum is
determined up to a multiple of the largest word, and zero and that word are one
value (`Nothing`).  `create_hdr` stores the complement of the sum of the packet
with a cleared checksum, so that the sum of the whole is `Nothing` (`Sealed`),
and a packet that differs from a sealed one in one word is sealed only if the two
words are the two zeros.  The theorems about what is believed leave that one
damage out, as the properties do; no checksum of this kind can find it.
`DatagramIInv` says that the buffers carry the packet that was created last, up to
that one word (`Carries`, `SameBut`), although they were used before and hold
older words behind it.  `RoomHolds` says that only a FILE_NAME can be longer than
a pkt.  Of one that was written over the end of rcopy's pkt the invariant keeps
the length alone, and nothing is promised of its contents.  Of one that is cut
the receiver holds a beginning, and `GoodIsAsCreated` says that it is the right
one if it was not damaged; whether it is believed depends on what the words that
were cut off add up to, which is why `WholeIsGood` and `RequestArrives` ask for
room at both ends.

**Only model-checked.**  Liveness (Completes, BothLeave, FilesAgree, AllLeave,
AlwaysListens) is out of the prover's reach, and TLC shows it on the instances
above.  That the violations are possible is shown by their runs.  Everything
safe that a passing run checks is proved.

## Disagreements found

- **stale_num_wait.**  `server.c:207` says that `num_wait = 0` is to be
  initialised; nothing does.  One lost datagram may end a healthy transfer.
- **late_eof.**  `server.c:263` asks that the function can break out at the end
  of the file.  When the file is a whole number of blocks and the last RR was
  consumed before the empty read, `eof` is set after the test: the window is
  empty, nothing is sent, no answer comes and `timeout_on_response` never goes
  back to the test.  The server gives up and rcopy is never told; no datagram
  needs to be lost.  Whatever the file, `BreaksOut` is violated in the same way
  when malloc left a number above the last block in `top_sent`, which
  `window_alloc` does not store and `send_window` only raises (`MallocTop = {9}`,
  `PartialLast = TRUE` in `LateEof.cfg`).
- **children_close.**  `testRandError.sh:53-67` gives the children ten seconds to
  end after rcopy has.  A lost FILE_EOF_ACK has the child repeat FILE_EOF until
  its tries are used up, eleven seconds after rcopy ended.
- **lost_begin_ack.**  `testRandError.sh` compares the files after a run with
  random errors.  A lost FILE_BEGIN_ACK makes rcopy repeat FILE_BEGIN to a child
  that is in its transfer, which ends on any packet it does not know.
- **late_file_name.**  A FILE_NAME that is late has two children serve one
  rcopy.  An RR for one moves the window of the other past blocks it has not
  read, and rcopy completes with a file that lacks a block.

## What is not modelled

- Damage that passes the checksum: zeros for ones in one word, or several words
  whose changes cancel.  Outside `Datagram` a packet is its flag, number and
  block, or damaged.
- A select that fails: the programs give it a valid descriptor and have no signal
  handlers, so nothing makes it fail.
- What `fclose` does with the pointer malloc left in `LocalFile->fp`
  (`rcopy.c:61`); `EveryTryWasLost` says what it takes to get that far.
- What else lies behind the pkt that an overlong FILE_NAME is written over, and
  what becomes of the program that overwrote it.
- FILE_NAME_ERR_ACK in `Datagram`: its four bytes are as much too long for a block
  size below four, and rcopy drops it in any case.
- Other failures of system calls, which end the program as `Kill` does; memory
  that is never freed; printing; the arguments.
- Several rcopies: their sessions share the dispatcher's socket and process
  table, which `Dispatcher` has, and nothing else.
- The `cpe464` library is vendored, and in the tree only as headers and binaries:
  its losses and bit flips are the faults of the environment.
- The test script and the make rules, but for the expectations quoted above.

## Plan

The order was, and is: the transfer first, for it carries the data; then timers,
set-up, dispatcher, packets.

1. Done: window, both halves of the transfer, their composition, the abstract
   copy, the inductive invariant and its proof; timers, their refinement and its
   proof; set-up and session with kills; the process table and its proof; the
   datagrams word by word.
2. Left in the model: a session of two rcopies over one process table.
   Their conversations would each need the argument of `OneRequest`.
3. Left in the proofs: nothing that a passing run checks but liveness.  Next would
   be what still holds of a session when datagrams are late: the local file of
   late_file_name lacks a block, but is still made of blocks of the file.
