# recpt1 and the pt1 driver in TLA+

This directory models the recording program `recpt1` (`src/recpt1`) and the
Linux driver of the PT1/PT2 tuner card (`src/driver-pt1`). It has three parts:

* modules that describe components as state machines, translated from the C code;
* `MC*.tla` and `*.cfg`, small instances that TLC checks;
* `*Proofs.tla`, theorems for every instance, which the TLA+ proof system checks.

`PROJECT.json` is the index: components, runs, the mutants that show that each
property can fail, the source lines behind each definition, findings, hazards
and theorems. A claim in this file is one of three: *proved* (section 5),
*model-checked* in a run (section 3), or seen while modelling (section 7).

```
tlc -workers 2 -config MCBlockQueue.cfg MCBlockQueue.tla    # one run
tlapm BlockQueueProofs.tla                                  # one proof module
```

## 1. Inventory of the system

A broadcast goes from the card into the DMA ring in memory; the driver's thread
sorts its micropackets by channel and puts complete 188-byte packets into a ring
per channel; `recpt1`'s main thread reads the device file in large blocks and
hands them, through a queue of pointers, to the reader thread; that one decodes
(B25), splits (by service) and writes to a file and to a udp socket. Meanwhile
`recpt1ctl` may change channel and duration, and a signal may end it all.

| Component | State | Operations | Talks to |
|---|---|---|---|
| Block queue (`recpt1.c` 153-277) | `in`, `out`, `num_avail`, `num_used`, `buffer`, a mutex, two condition variables | `create_queue`, `enqueue`, `dequeue`, `destroy_queue` | main, reader thread, `cleanup` |
| Main thread (`main`) | `cur_time`, tuner descriptor, `tdata` | start, read loop, stop, drain loop, sentinel, joins | driver, queue, all threads |
| Reader thread (`reader_func`) | block, decoder and splitter buffers, `file_err` | dequeue, decode, split, write, finish | queue, decoder, splitter, signal thread |
| Ipc thread (`mq_recv`) | `tdata->table`, `recsec` | change channel, extend, set total time | `recpt1ctl` over a message queue; driver |
| Signal thread (`process_signals`, `cleanup`) | none; handles one signal | stop the stream, raise `f_exit`, signal both conditions | everybody |
| Tuner sessions (`recpt1core.c`) | descriptor, channel table, LNB, recording time | `tune`, `close_tuner`, `parse_time` | driver, channel tables |
| Channel tables (`pt1_dev.base.h`, `pt1_tuner_data.c`) | constant | `searchrecoff`, PLL words | sessions, tuner programming |
| TS splitter (`tssplitter_lite.c`) | `pids`, PMT versions, `pmt_retain`, `pmt_counter`, the PAT and its counter | `split_select`, `split_ts`, PAT/PMT analysis, rescan | reader thread |
| B25 decoder (`decoder.c`) | library state | decode, finish | reader thread |
| recpt1ctl, checksignal | none; `f_exit` | send a message; tune and show the signal | ipc thread; sessions |
| HTTP mode (`main` again) | listening and connected sockets | accept, parse, record, clean up, again | all of the above |
| Driver: device files (`pt1_pci.c`) | `valid` per channel, device lock, channel locks | `open`, `release`, `read`, `ioctl` | programs, DMA thread, i2c |
| Driver: DMA thread (`pt1_thread`) | `packet_buf`, `packet_size`, `req_dma`, position in the DMA ring | sort micropackets, wait for a reader, reset on errors | card, `read` |
| Driver: channel ring | `buf`, `pointer`, `size`, `maxsize` | put a packet, read bytes, forget | DMA thread, `read`, `open` |
| Driver: i2c (`pt1_i2c.c`) | the card's FIFO and result register, a lock per card | `i2c_write`, `i2c_read`: a program of words, polls | tuner programming, chips |
| Driver: tuners (`pt1_tuner.c`) | the chips' registers | `bs_tune`, `isdb_t_tune`, signal strength, sleep | i2c, channel tables |
| Driver: probe, remove (`pt1_pci.c`) | `device[]`, `card_number`, what a card holds | set up, undo, remove | kernel, `open`, DMA |

Behaviours that are hard to get right, and hard to test:

* Four threads share the queue, `f_exit`, the tuner descriptor and `tdata`; only
  the queue has a lock. Signals to condition variables come after the unlock.
* The end of a recording is told to the reader in three ways: a NULL in the
  queue, `f_exit`, and an error flag of its own. Each comes from another thread.
* A channel change stops the stream, waits until the queue is empty, retunes and
  starts again, while main goes on reading and may decide that the time is up.
* The driver has a lock per card and one per channel, and takes them in both
  orders. One DMA thread serves all channels and waits for the slowest reader.
* Streams start in the middle of a packet. A file may be closed with unread data.
* Ring arithmetic: `pointer + size` against `maxsize`, in five cases.
* The tuners of a card share one FIFO and one result register. A transfer is a
  program of words that pulls two lines; a word too early is another protocol.
* The splitter learns the streams of a service from tables that are cut into
  packets, repeated, lost and replaced while it filters by what it has learnt.
* A probe may fail at every step, often in the middle of what other programs can
  already open; a removal meets a DMA that runs and files that are open.
* The http server goes round main's loop with the state of the last connection.

What makes each component correct:

* Queue: mutual exclusion, counters and indices that agree, FIFO order, no lost
  wake-up, calls that return.
* Recorder: everything read is written, in order and once; it does not end
  early; it ends when its time is up, after a signal, and after an error; it
  streams between two messages.
* Channel ring: it is a byte stream.
* Driver: one user per channel, one transfer on the bus, no deadlock of the
  locks, whole packets without a hole, a DMA thread that goes on.
* I2C and tuners: chips see the transfer that was meant, answers reach who asked,
  a tuner that says it is tuned is on the frequency and TS asked for, and
  `SET_CHANNEL` comes back.
* Splitter: what passes is what PAT and PMTs of the chosen services say, no more
  and no less, also across new versions; the PAT's counter has no gap.
* Probe and removal: a failure undoes what was done before; open finds every
  card and no freed one; the DMA writes into no freed page.
* Sessions: a tuner that could be used is used, tuned as asked, and given back;
  each connection of the server leaves what it found; checksignal obeys a signal.

The hazards behind these, each at its line, are in `PROJECT.json`.

## 2. Modules

```
BlockFifo     <-- refined by --  BlockQueue    <- MCBlockQueue,  BlockQueueProofs
    ^------- used as its queue by -- Recorder  <- MCRecorder,    RecorderProofs
PacketStream  <-- refined by --  ChannelRing   <- MCChannelRing, ChannelRingProofs
                                 Pt1Driver     <- MCPt1Driver,   Pt1DriverProofs
             Channels, I2cBus <- Tuning        <- MCTuning,      TuningProofs
             Channels         <- Sessions      <- MCSessions,    SessionsProofs
                                 Splitter      <- MCSplitter,    SplitterProofs
                                 Card          <- MCCard,        CardProofs
```

(`A <- B`: B extends A.) The layers meet where one module has as a single step
what another takes apart: a recording is one state of Sessions and the whole of
Recorder; a sequence of transfers is one step of Pt1Driver and the whole of
Tuning; a card in Pt1Driver is one that Card has brought to "ready"; the ring in
Pt1Driver is a sequence of packets and ChannelRing its bytes; the splitter is
three modes in Recorder and a PID map in Splitter.

**BlockFifo** is what the queue promises: a bounded FIFO whose calls take effect
at one instant, and which may give up only when `f_exit` is up.

**BlockQueue** is `QUEUE_T`. A thread's `pc` names the points between which the C
code cannot be interrupted visibly: before the mutex (`lock`), after it (`test`),
in `pthread_cond_timedwait` (`wait`, then `relock` when it was woken or its
second was over), between the store and the counters (`count`), between the
unlock and `pthread_cond_signal` (`signal`). The critical section is two steps
on purpose: mutual exclusion is then a property of the mutex and not of the
grain of the model. `CondSignal` wakes one waiter, or none; a wake-up without a
signal is `TimeOut`. `cleanup()` is three steps of a thread that does not own
the mutex.

**Recorder** is a recording between the creation of its threads and
`close_tuner`. Each action is a stretch of one thread between two accesses to
what threads share; `Main*`, `Reader*`, `Ipc*`, `Signal*` follow the functions in
the order of their statements. Its queue is the FIFO; `UsesQueue` shows that
main and the reader use it as `BlockFifo` allows, and BlockQueue implements that.
The waits on the condition variables are states (`putwait`, `getwait`), because
a woken waiter looks at `f_exit` before it looks at the queue again. The decoder
holds back any number of the latest blocks until `b25_finish`, and its calls may fail
(`DecodedWrong`, `FlushedWrong`): what `decoder.c` hands out then is written, for nobody
looks at its result. The splitter is in one of its modes (select, on, off). A channel change that stays with the kind
of tuner is an ioctl, another kind closes the tuner and opens a new one. Blocks
are numbered, so that order, loss and repetition are visible; what freed memory
may hold is `Garbage`.

**PacketStream** and **ChannelRing** are the promise and the index arithmetic of a
channel's ring: three cases of a packet write, two of a read. Every operation is
one step because the driver does each under the channel's mutex.

**Pt1Driver** is a card: the device lock, the channel locks, the DMA thread, the LNB
and programs that use it in the order of `tune()` and `close_tuner()`. A channel's
buffer is a sequence of packets, each a sequence of micropackets that know where
they come from; that the bytes behind it are in order is ChannelRing's part.

**Channels** has the tables: the channel names and frequency numbers of
`pt1_dev.base.h` (`searchrecoff`), the PLL words of `pt1_tuner_data.c` and the
arithmetic of `getfrequency`. Against them stands what the code does not
contain: what a PLL does with its words, and the broadcasters' frequency plan.

**I2cBus** is one transfer: `i2c_write` and `i2c_read` take the card's lock, put a
program of words into the FIFO (`blockwrite`, `blockread`, their `makei2c` bits and
the chain of next-word addresses), start it, poll and return. `Wire` reads the
program as a chip on the two lines does: START and STOP are data edges while
the clock is high, a bit is the data line during a clock pulse.
**Tuning** makes of such transfers `SET_CHANNEL` and `GET_SIGNAL_STRENGTH`, in the
order of `pt1_tuner.c`: `step` names the transfer that comes next, `try` and `lp`
are the loops, and the chips take what the wire brings.

**Splitter** is `split_select` and `split_ts` under the reader's loop, on blocks
that a stream on the air fills packet by packet. PIDs and services are names; a
PMT section is a sequence of cells, cut into packets; an entry of its stream list
is a header cell and descriptor cells, behind them come the CRC and stuffing, so that a
section read from the wrong place, or by the length of another one (`Nall`), is read
wrongly, as in the code. The marks 0, 1, 2 in `pids`, the count of
PMTs, and the counter byte of the PAT with its flag bits are the code's.

**Card** is `pt1_pci_init_one` with `xc3s_init` and `tuner_init`, one action per
stretch between two things that may fail, one per error label, then
`pt1_pci_remove_one`. What a card holds is a set (`held`); programs search
`device[]` and open and release at any moment. A conf is the `PT1_DEVICE` of one
probe, so that a card that comes again is another conf.

**Sessions** is `tune()` with its three modes (a device that was named, a search,
checksignal's search that goes on), `close_tuner`, `parse_time`, and the three
programs around them: recpt1, its http server, checksignal. Open files, LNBs and
frequencies of the devices are part of the state. `LNB_ENABLE` may leave the LNB off and
`LNB_DISABLE` leave it on: the program only warns, and Pt1Driver has when the driver
ignores them.

## 3. Runs

| Run | Instance | Shows |
|---|---|---|
| `queue` | 1 producer, 1 consumer, ring of 2, 2 retries | `MutexHeld`, `RingConsistent`, `NoLostWakeUp`, `ImplementsFifo`, `CallsReturn` |
| `recorder_timed` | ring 2, 5 blocks, one extension | a recording that runs its time has no hole (`NoHole`), is complete (`CompleteOnTimeUp`) and not early (`NotEarly`); `UsesQueue` |
| `recorder_output` | decoder, splitter, udp, channel changes in and across kinds, signals, failing tuner, outputs, decoder | nothing is written twice or out of order until a failed call of the decoder shows (`NothingTwice`); after a change the stream runs (`StreamOn`) |
| `recorder_ends` | endless tuner, timed and indefinite, a new total time, all failures | the recording ends: `EndsOnTime`, `EndsOnSignal` |
| `channel_ring` | 9 bytes, packets of 2, bytes 0 and 1 | `ImplementsStream` |
| `driver_locks` | 3 programs, 3 channels, all failures | `BusExclusive`, `OneUser`, `NoEmbrace` |
| `driver_flow` | 2 programs, 2 terrestrial channels, 3 packets, stopped in order or left unread | `PacketsWhole`, `NoGap`, `DmaGoesOn` |
| `splitter` | 2 services, 4 PMT versions, a lost packet, 7 `--sid` texts | `NoneMissing`, `NothingForeign`, `PatContinuous`, `Settles` |
| `tuning` | a satellite and a terrestrial tuner on one FIFO that may hang | `ChipsSee`, `OwnAnswer`, `TunedRight`, `SetFreqReturns` |
| `card` | 3 cards for 2 slots, every step may fail | `NothingLeft`, `OpenSafe`, `Reachable`, `DmaSafe`, `AsleepUnlessOpen` |
| `sessions` | 3 programs, 3 tuners, every channel, 13 time texts | `ChannelTuned`, `TriesAll`, `StartsAfresh`, `TimeRight`, `StopsOnSignal` |
| `finding_decoder_tail` | `recorder_timed` with the decoder | `CompleteOnTimeUp` fails (section 7) |

Bounds, and why they are enough:

* Queue: a ring of 2 (the code's 8192) has the empty, the partly filled, the
  full ring and the wrap; three items are NULL and two that differ. `MaxRetry`
  is 2 for the code's 60: the counter is only compared. The proofs have no bounds.
* Recorder: a ring of 2 and 5 blocks fill the ring, the driver's ring and main's
  hands together, and go round. `MaxStart` is the last second before the
  recording starts, `MaxClock` the last one at all: the clock stops there, after
  every time limit that a message can set. `MaxMessages` counts messages.
  `SelectLimit` is the code's own 4 seconds; `recorder_output` runs past it.
* `PromptWake` (in `recorder_timed`): a reader that was signalled leaves its wait
  within the half second that `read()` waits for data. Without it a reader may
  wake after `f_exit`, return NULL at once and leave blocks behind; that is what
  the code does on a machine that stalls.
* Failures are spread over the runs: those of the decoder, the tuner and the outputs in
  `recorder_output`, a memory that runs out in `recorder_ends`.
* Endless runs have no log of the blocks, so that their state space is finite.
* Channel ring: 9 is odd and 2 even, so that a packet ends before, at and behind
  the end of the ring; the margin of a packet and 4 bytes is there as in the code.
* Driver: a packet has 2 micropackets for 63, a buffer 1 or 2 packets. Two
  parts are a head and a rest. In `driver_locks` a packet is one micropacket,
  since only locks matter there; `MaxSessions` is one session per program, after
  which a second program may take the channel it left. In `driver_flow` three packets
  are one more than a buffer holds, so that each channel can make the DMA thread wait, be
  read or closed with packets in it, and go on; its channels are terrestrial, which leaves
  out the LNB. `DmaGoesOn` excepts the channel that was closed: section 7.
* Splitter: `Room`, two cells of a section per packet, makes sections of one and of two
  packets; one version has an entry across the cut. The versions bring a stream
  that stays, one that goes, one that comes, a data stream, a new PCR. `Cc` is 2
  for the counters' 16: they wrap after every second packet. Blocks have up to
  two packets, which end in every part of a section; one PMT packet is lost. Sections of
  9 and 7 cells, with stuffing in the last packet, can be taken for one another. The
  instance has `CounterTells` (`MCCounterTells` asserts it).
  The `--sid` texts are a number, a word, `all`, a word with epg, `epg1seg`, a
  service that is not there, and two words that choose nothing.
* Tuning: BS-9 has two TS, so that the one asked for is not the one locked last;
  on CS-8 nothing is received, so that every loop runs out. `MaxPolls`,
  `MaxTries` and `MAX_BS_TS_ID` are 2 for the code's 100, 100 to 1000 and 8: each
  has a first, a last and no further turn. `HwTime`: a sound FIFO has run
  its program after one sleep. `Transfers` are all transfers that the requests lead to,
  with the code's bytes; the run also evaluates, for every name of the channel table,
  that its transfers are of bytes and fit the FIFO (`TableAssumption`).
* Card: three probes for two slots make a full table and a hole. One tuner (two
  channels) and a DMA ring of two pages are the smallest with a first and a next.
  `StopPolls` is 2 for 10, and the DMA stops in time, too late or never.
* Sessions: two satellite tuners and one terrestrial, each busy or not, give
  every outcome of a search. `INT_MAX` is 65535, above the longest text of the
  run and below a product of two. `MaxFds` is two connections. checksignal gets
  every name of the tables, the others one of each kind and one unknown.

For each property `PROJECT.json` has a change of the code, of the size of a
plausible slip (a guard dropped, an index off by one, a signal forgotten), under
which the property fails. They are defined next to what they change and marked
"mutant". Properties that except something the code does (the texts say "unless")
except exactly what section 7 tells.

`CHECK_DEADLOCK FALSE` stands where the system may stop: no packet comes any
more, all programs have ended, all cards are gone, or nobody tunes.

## 4. Fairness

* BlockQueue: `SF` for getting the mutex (a pthread mutex that is free again and
  again is got), `WF` for going on in a call, and for the end of a timed wait:
  it has a timeout of a second. No one has to make a call, and no signal has to
  arrive: `CallsReturn` rests on the timeouts alone.
* Recorder: `WF` for every thread (a thread that can run does, reads and waits
  have timeouts) and for the clock. The tuner need not deliver, the user need
  not signal, `recpt1ctl` need not send. The ipc thread need not get a message;
  `msgrcv` fails when the queue is removed, which is `IpcNoQueue`.
* Pt1Driver: `WF` for the DMA thread outside its lock, `SF` for kernel mutexes,
  for the progress of calls and for programs that read (recpt1's main loop reads
  as long as it runs). The card need not deliver, and no program need close.
* Tuning: `WF` for the code between transfers and for the polls (each sleeps a
  millisecond), `SF` for the card's mutex, `WF` for a sound FIFO. A FIFO that hangs
  never finishes: `SetFreqReturns` rests on the limits of the loops then.
* Sessions: `WF` for the threads of a program. Nobody has to connect, to send a
  signal or a message, and a tuner need never tune; ioctls return, which
  is `SetFreqReturns`.
* Splitter: none. `Settles` assumes in its own text that the stream carries its
  tables and the reader reads them, again and again (`Broadcast`).
* Card: `FairSpec` lets removals go on, but no property of it needs fairness.

## 5. What is proved

Each theorem holds for every value of the constants that its module's assumption
admits. Nothing else is assumed, except where a theorem has a hypothesis of its own
(`Steady => ...`): that is a condition on the constants which says when the code keeps
the property, the run that checks the property fulfils it, and without it the property
does not hold; each is explained below.

**BlockQueueProofs**, for all finite or infinite sets of producers and consumers,
every size and every retry limit, from `QueueAssumption`:

* `Typing`, `MutualExclusion`, `RingSafety`. Each is part of the inductive
  invariant `IInv == TypeOK /\ MutexHeld /\ RingConsistent /\ HandOver`.
  `RingConsistent` is not inductive by itself: that nobody moves `in` between
  another thread's store and its count needs `MutexHeld`. `HandOver` says that a
  block that is stored but not counted is in the slot behind the content, and
  which labels hold a block; the refinement needs it.
* `QueueRefinement`: `Spec => ImplementsFifo`. An enqueue takes effect where it
  counts its block, a dequeue where it moves `out`; giving up is GiveUpPut or
  GiveUpTake; all else is a stutter. The arithmetic (`(out + i) % Size`) is in
  the `Mod*` lemmas: SMT does not do `%` by itself, so that they split it into
  the two cases with and without a wrap.
* `WakeUpSafety`: no lost wake-up, with one producer and one consumer, as in
  recpt1. `SignalComing` is its inductive form. With more consumers it does not
  hold: a woken consumer that finds `f_exit` leaves without passing its signal on.

**ChannelRingProofs**, for every ring and packet size with
`maxsize >= PACKET_SIZE + 4` (below it the unsigned difference in the code wraps)
and every set of bytes:

* `RingTyping`: `pointer` and `size` stay in range; `TypeOK` is inductive.
* `RingRefinement`: `Spec => ImplementsStream`. One lemma per case of a write
  shows that the packet's bytes come to lie behind the unread ones
  (`Appended`), one shows that a read takes the oldest (`ReadStep`).

**Pt1DriverProofs**, for every set of programs, whatever devices each tries in
whatever order, every set of channels and every size, with all failures, from
`DriverAssumption`:

* `Typing`: the variables keep their ranges. In particular no buffer passes its
  limit, although the DMA thread tests it in one step and stores in another.
* `BusExclusion`, `SingleUse`, `LockOrder`: the theorems of the three properties
  of `driver_locks`.

The inductive invariant is `IInv == TypeOK /\ Locks /\ DmaInside`. `Locks` ties each
lock to the labels between its taking and its release (`DeviceLock`,
`ChannelLock`; both are needed, since open and release take the channel lock
inside the device lock and an ioctl does the reverse), and each channel that is
`valid` to its one user (`Users`). None of the three properties is inductive:
that a second program is not let in rests on `valid`, which is read and written
under the device lock, while a user of the channel holds no lock at all most of
the time. `LockOrder` then follows: whoever waits for a channel lock with the device
lock in hand sets up or clears a channel that nobody else is using, and only a
user takes the locks in the other order. `DmaInside` is what the limit of a buffer needs.

* `WholePackets`, `NoHoles`: `OnceEach => (Spec => [](PacketsWhole))` and the same for
  `NoGap`. `OnceEach` says that a channel has one session in all and that the DMA does not
  fail: the driver leaves micropackets of the session before in the ring and in
  `packet_buf`, and a reset of the DMA drops what is in the ring (section 7). The invariant
  adds `Flow` to `IInv`. For every channel it names the micropacket that comes next
  (`Upcoming`: the first of the channel in the ring, or else what is on the air) and says
  that file, buffer and `packet_buf` end right before it (`InStep`). `Headless` is the
  stream that began in the middle of a packet, whose rest must be dropped.
  `Untouched` says that the ring has nothing of a channel before its session.

**RecorderProofs**, for every size of the queue and of the driver's ring and any numbers
of blocks, seconds and messages, from `RecorderAssumption`:

* `QueueUse`: `Spec => UsesQueue`, with every failure. Together with `QueueRefinement` it
  lets BlockQueue stand for the queue of a recording.
* `Streaming` (`StreamOn`), with every failure. The stream is on while main records and
  the ipc thread is between two messages (`Streams`).
* `FileInOrder`: `UseB25 => (Spec => []NothingTwice)`, with every failure, and
  `WrittenInOrder`, the same for what the reader's loop writes, with or without decoder.
  Both speak of a run as long as no failed call of the decoder has shown in what it handed
  out (`failed`): after a failed get a block is written raw and comes again, and after a
  failed flush, as always without decoder, the exit path writes a freed block. `Chain` lists the places of a
  block from the file back to the tuner, and says that each holds only older blocks than
  those behind it.
* `Gapless`: `Steady => (Spec => []NoHole)`. `Steady` excludes what makes a hole on
  purpose: signals, an enqueue that gives up, a write error with udp on, a new total
  time (main drops what is in the tuner), a splitter, a decoder that fails. The invariant counts: what was taken
  is as much as is written, in the decoder, at the reader, in the queue and at main, block
  by block (`Whole`). That `f_exit` is up only when main enqueues no more (`ExitLate`)
  and that the NULL is the last in the queue (`Sentinel`) are part of it.
* `LongEnough`: `Patient => (Spec => []NotEarly)`: no signal, no failing write or
  allocation, and extensions that extend.
* `Complete`: `Prompt => (Spec => []CompleteOnTimeUp)`. `Prompt` has no decoder, whose tail
  is lost (the finding of section 7), no retuning to another kind of tuner, which drops
  the old driver ring, and `PromptWake`. `Drained` is where the half second enters:
  once main has found the tuner silent, a reader that still waits has an empty queue.

**CardProofs**, for any number of confs, slots, tuners, pages and looks, from `CardAssumption`:

* `AllGivenBack` (`NothingLeft`), `NoFreedConf` (`OpenSafe`), `Findable` (`Reachable`),
  `NoStrayDma` (`DmaSafe`), `OnlyUsedAwake` (`AsleepUnlessOpen`). `Invariance` is their one
  inductive invariant: for each phase what a card holds at least (`AtLeast`) and at most
  (`AtMost`), with the loop counter for the channels; that `device[]` and `card_number`
  point at each other while the table was never full (`Table`); and that a chip is awake
  exactly for a channel in `user` from the end of `tuner_init` to the removal
  (`ChipsFit`). None of the five is inductive: each label undoes what its `goto` has left,
  so that what is freed must be known to be held.

**SessionsProofs**, for any devices, lists, retries and texts, from `SessionsAssumption`:

* `OnChannel` (`ChannelTuned`), `EveryTuner` (`TriesAll`), `Afresh` (`StartsAfresh`),
  `TimeAsWritten` (`TimeRight`). The invariant says at each point of the program which
  device files are open, how far the search has come, what a connection has left behind,
  and that the frequency is that of the channel. Nothing is claimed of the LNB. `FoundOnPlan` compares
  `searchrecoff` and the PLL words with the broadcasters' plan for every name of the
  tables. `parse_time` is proved for texts of any length over any numbers; the proof
  found the lower bound of a readable text, `-INT_MAX - 1`.

**TuningProofs**, for any number of callers and cards, any transfers and any
limit of polls above the time a sound FIFO takes, from `I2cAssumption`:

* `ChipsSeeTransfers`: `Spec => []ChipsSee`, for every transfer of bytes that fits the
  FIFO's 1024 words (`BlocksAssumption`, `TransfersAssumption`): any address, any number
  of bytes written and read. What a chip has seen so far is a property of the words so
  far (`Told`: the signals, the one that the pulse has still to tell, the races), and
  each call of `pt1_i2c.c` takes one such state to another: `BitOn` for `writebits`,
  `StartOn`, `AgainOn`, `StopOn`, `ByteOn`, `ReadByteOn`. A word is read from those
  before it alone (`SeenBefore`), which makes the states compose; `AddsAll` composes
  them along a loop. The loops are folds over sequences: `Looped` shows that a function
  with the loop's steps exists by the least number at which it would not (`Least`), so
  that no induction theorem is needed. `Ordered` and `Handed` are the other half: the FIFO has
  the program of one of `Transfers`, whatever a hung FIFO has answered.

* `OwnAnswers`: `Spec => OwnAnswer`. The invariant is
  `BusInv == BusTypes /\ Holds /\ Served`: who polls or returns holds the lock of its
  card, and finds its own program running for no more than `HwTime` of its sleeps, or
  its answer there. A caller that gives up because its polls are over would need more
  than `HwTime` sleeps, which is where the limit of polls enters.
* `TunesRight`: `Spec => []TunedRight`, from `TuningAssumption` too: requests are entries of
  the table (`bs_tune` and `isdb_t_frequency` refuse larger numbers), and a frequency on the
  air has a TS-ID per slot. `Right` says what a chip is tuned to before each step of
  the sequence, which TS-IDs the loop has collected, and that the FIFO has the transfer
  that belongs to the step. `OwnAnswers` gives the answers their meaning.

**SplitterProofs**, for any PAT, any PMTs with any versions and sections of any length, any
lists of words, packets and blocks of any size, any modulus of the counters and any number of
packets lost, from `SplitterAssumption` (a PID carries one thing; what the ES loop reads among
descriptors or from a CRC is never the PID of a PMT):

* `OnlyChosen`: `CounterTells => (Spec => []NothingForeign)`. The invariant has a part for each mode. While it
  selects (`Selecting`), `pmt_counter` is the number of the PMTs marked 2 and `pmt_retain` at
  least that of the chosen ones, so that a selection that is complete has marked every chosen
  PMT 2 (`CompleteSplits`). While it splits (`Splitting`), each chosen PMT is marked 2 in
  `pmt_pids`, and as long as a rescan is under way also in `pids`: the step at its end, which
  lowers every mark by one, cannot unmark it (`FinishKeeps`). `Clean` is the second half of the
  property: what else is marked was listed by a version seen since the last clear. It rests
  on `PartFound`: a packet that begins with an entry yields only streams of its section,
  which is about the ES loop's jumps and where the cuts fall; and on `Known` (below), by
  which a packet is never read beyond the end of its section into CRC and stuffing.
* `CountsOn`: `Spec => PatContinuous`, also for the blocks that the reader splits at the end of
  a recording. `InStep` says that `pat_count` is the count of the last PAT written.
* `NothingMissing`: `CounterTells => (Spec => []NoneMissing)`. What is missing is harder to
  exclude than what was not chosen, for a packet that goes on with a section must be the next of
  the same section, and `AnalyzePmt` has only the continuity counter to tell. The hypothesis
  is about the stream: a section of several packets that are cut at entries has a number of
  them that divides the modulus, and no earlier version of its PMT took several. Then the
  counter tells which packet of its section each one is, also after losses, skipped packets
  and changes of versions, and `Known` can say it: there is a numbering of each PMT's packets
  by their counters that what is on the air keeps to and every packet in the block bears;
  the versions in the block only grow; and a section that is open, read up to the packet
  with the last counter, has the streams of its packets so far among the marks, 1 or 2 by
  the pass. A new version may choose its numbering anew because before it nothing long
  was sent (`BeatFrom`). `StreamsFound` joins it up: the ES loops over the packets of
  such a section come by all its entries (`PartFinds`). Without `CounterTells` this theorem
  and `OnlyChosen` are false, see the continuity counters in section 7. The instance of the run satisfies
  it, which `MCSplitter` asserts, with a section of two packets among its versions.
* `split_select`, `split_ts` and the ES loop are recursive functions over blocks and cells.
  `SplitTsAt`, `SplitSelectAt` and `EsLoops` show once that such a function exists and that
  its result is in the last of any sets that its steps lead through; all else cites these.

Only model-checked:

* everything temporal under fairness (`CallsReturn`, `EndsOn*`, `DmaGoesOn`,
  `SetFreqReturns`, `StopsOnSignal`, `Settles`): the proof system has no rule for it here.

## 6. External code

Modelled from how the code uses it: pthread condition variables and timed
waits, System V messages, signals, the clock, `memcpy`, the B25 library, the
card's FIFO, chips and DMA (a stream that starts anywhere in a packet), the
PLLs' reading of their words, and what is on the air: frequencies, TS-IDs, PAT and PMTs.

## 7. Findings and known deviations

`finding_decoder_tail` is a run that ends in a violation, and its trace is a run of the
code: the reader takes the NULL at the end of a timed recording for an empty queue
and leaves without `b25_finish`: the decoder's last blocks are not in the file.
That is why `CompleteOnTimeUp` is checked without decoder in `recorder_timed`.

While modelling, more came up that no comment or document of the code contradicts,
or that is outside what a run can show in reasonable time. The models contain the behaviour
unless it says "not modelled", and the properties are stated around it.

Recorder:
* A channel change may leave a block of the old channel behind in the queue.
* During a channel change the ipc thread polls `num_used` and nothing else. If the
  reader has left with blocks in the queue (a write error), main waits in
  its joins for ever. `recorder_ends` therefore has messages that set the time only.
* A channel that the tuner refuses leaves the stream off (`StreamOn`: "unless").
* Without decoder the exit path writes the last block again from freed memory
  (`NothingTwice` is therefore checked with the decoder). With one it does so when the
  flush or the get of `b25_finish` fails (`decoder.c` 147).
* Nobody looks at what `b25_decode` returns. After a failed get the block goes to the file as
  it came, and again when the decoder gives it out; after a failed put what the decoder
  held goes before the block, is lost (no memory), or the block comes twice (a
  withdraw that fails too). `NothingTwice` holds until then (`failed`).
* A channel change may restart a stream that main has stopped for good.
* `--time` sent to an indefinite recording has no effect.

Driver:
* `pt1_release` wakes the DMA thread, which looks at `size` only: a channel closed
  with a full buffer stops all channels of the card until somebody opens it again, although
  the comment at 405 says that a stopped thread is woken there, as it is. `DmaGoesOn`
  excepts such a channel (`~valid`), and `driver_flow` has it.
* Two satellite channels opened before either enables the LNB count two users each,
  and neither powers it.
* After an error of the card `reset_dma` drops micropackets; the next packet may be made of
  two ends. No property speaks of the data after it.
* A session may begin with micropackets of the one before (`NoGap` and
  `PacketsWhole` are checked with one session per channel and no DMA failure).

I2C and tuners:
* The sleeps between polls are interruptible: with a signal pending they do not
  last, the hundred polls pass at once, and the answer is the one before (not modelled).
* `i2c_write` gives up after its polls without a word to its caller; after a FIFO has
  hung, answers are stale (`OwnAnswer`, `TunedRight`: "unless the FIFO hangs").
* The result of the last `ts_lock` is ignored, so is a TS-ID that is still zero after the
  last read (`TunedRight` excepts it).
* A read of several bytes changes the data line together with the falling clock.
* `state` in `pt1_i2c.c` is one static variable for all cards.

Probe and removal:
* `out_err_regbase` frees neither the conf nor the DMA control page nor the region; a
  failed allocation of a channel undoes nothing; failures after the registration
  leave the slot of `device[]`, the numbers, cdevs and nodes (`NothingLeft` and
  `OpenSafe` except these); `pci_disable_device` is never called; `kthread_run`
  is not checked.
* A removal frees the DMA buffers after ten looks, stopped or not (`DmaSafe`).
* When the table is full, a card keeps `card_number` 0; a hole in the table hides
  the cards behind it (`Reachable`); an open during a removal finds freed memory (`OpenSafe`).

Splitter:
* A PMT that is repeated during a rescan is counted again (the comment at
  `tssplitter_lite.c` 255-257 describes the count), so that a rescan may end before every
  PMT was read. `NoneMissing` speaks of the PMTs that were read.
* A service chosen by two words is counted twice; the selection then never succeeds,
  and after four seconds everything is recorded (`Settles`: "by two words").
* The PIDs of `epg1seg` are lost at a rescan (`NoneMissing`: by the word `epg`); with `all,epg` the EPG comes with the
  first rescan only.
* A section that continues in the middle of an entry is misread (`Aligned`).
* PAT changes are not followed. Before its first PAT, `split_ts` at the end of the
  recording runs with `pat` NULL (state `crashed`).
* `split_select` does not look at the last packet of a block. A gap in a section shows in
  the continuity counter, but a gap of 16 packets of one PMT does not: the tail of a later
  version then passes for the tail of the one that was begun. It is read by the length
  that one had left: if that is more, CRC and stuffing are read for entries, and streams
  with foreign PIDs pass; if it is less, the reading stops short and streams are missing.
  Packets that go by while no section is begun count too, so that fewer than
  16 losses can do it: three of two packets each if `Cc` were 4, nine for 16. A lost head
  costs its section, and packets skipped have no bound. `CounterTells` excludes it, which
  is why `OnlyChosen` and `NothingMissing` have it as hypothesis: in the run the only version
  that could be put together so is the one that is misread anyway (`Aligned`). With a last
  version of two aligned packets TLC finds `NoneMissing` violated, by one skipped and one
  lost packet for `Cc = 2`, and with one of another length `NothingForeign`.

Sessions:
* With retries, a tuner that tunes at the attempt after `MAX_RETRY` failures is
  closed and passed over (`recpt1core.c` 461-475); `TriesAll` counts it as tried.
* The server reads its queue after `destroy_queue` has freed it (`Crash` is one
  outcome); a failed `tune` leaves the connection and the splitter behind, until
  no descriptor is left (`StartsAfresh` counts them); a SIGINT between two connections ends
  the next one only.
* `-1` as a time means no limit, `5M1H` is five hours.
* When `LNB_ENABLE` fails, or the driver ignores it (above), tuning goes on after a warning or
  none, so that a program that has tuned need not have its LNB on.
* Unless tuning retries, a failed attempt leaves the LNB on. The ipc thread sets the
  table before it closes the old tuner, whose kind `close_tuner` then gets wrong: the
  LNB stays on, or a terrestrial tuner is told to switch it off.

## 8. Not modelled, and what is left

* Option parsing of the three programs, the parsing of a http request, usage texts, the
  C/N figure (`calc_cn`), `mkpath`: text in, text or a path out, and nothing that
  lasts or interleaves.
* The values of CRCs and the layout of the rewritten PAT: data below the level of Splitter,
  which says which services the PAT names, what its counter is, and what becomes of a CRC
  that is read as an entry.
* The initial values of the chips' registers: `tuner_init` is a step of Card, and
  its transfers are those of I2cBus.
* Byte layout of micropackets, and packets whose header is not as the card makes it.
* The B25 library and the card's firmware are not in the repository. Build files
  and udev rules have no behaviour.
