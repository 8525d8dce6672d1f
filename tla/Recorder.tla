----------------------------- MODULE Recorder -----------------------------
(***************************************************************************)
(* One recording of recpt1, from the spawning of its threads to the close   *)
(* of the tuner: main reads the tuner and feeds the queue, the reader       *)
(* thread empties it into the file, the ipc thread obeys recpt1ctl, and the *)
(* signal thread waits for the one signal it will ever handle.              *)
(*                                                                         *)
(* The queue is the FIFO that BlockQueue implements.  A wait on one of its  *)
(* condition variables is a state of its own ("putwait", "getwait"): the    *)
(* waiter looks at f_exit before it looks at the queue again.  Sixty waits  *)
(* in a row are the choice of MayGiveUp.                                     *)
(*                                                                         *)
(* Blocks are numbered in the order the tuner delivers them.  With Endless  *)
(* the tuner never falls silent by itself; its blocks are then all alike    *)
(* and no log of them is kept.                                              *)
(***************************************************************************)
EXTENDS Integers, Sequences

CONSTANTS
  Size,          \* MAX_QUEUE
  DeviceSize,    \* blocks the driver's ring holds
  Endless, MaxBlocks,
  Epoch,         \* time(NULL) when the process starts, in seconds
  MaxStart,      \* bound: the last second before the recording starts
  MaxClock,      \* bound: the last second of the model
  Rectimes,      \* rectime arguments in seconds; -1 is "-"
  UseB25, UseSplitter, UseUdp,
  Channels, Satellite,   \* known channels, and which of them are CHTYPE_SATELLITE
  FirstChannel,
  Messages,      \* messages recpt1ctl may send: [ch, t, e]
  MaxMessages,   \* bound on how many it sends
  PromptWake,    \* a reader that was signalled runs within half a second
  MaySignal,     \* the user may send SIGINT or SIGTERM
  MayGiveUp,     \* the other end of the queue may stall for a minute
  MayWriteFail, MayTuneFail, MayRunOutOfMemory,
  MayDecodeFail  \* calls of the B25 library, and the malloc after one, may fail

ASSUME RecorderAssumption ==
  /\ Size \in Nat \ {0} /\ DeviceSize \in Nat \ {0} /\ MaxBlocks \in Nat \ {0}
  /\ Satellite \subseteq Channels /\ FirstChannel \in Channels
  /\ Epoch \in Nat \ {0} /\ MaxStart \in Nat /\ MaxClock \in Nat /\ Rectimes \subseteq Nat \cup {-1}
  /\ \A m \in Messages : m.t \in Int /\ m.e \in Int

NullBlock == 0       \* the NULL sentinel
Garbage   == -1      \* what freed memory may hold
SelectLimit == 4     \* seconds the splitter may look for its PIDs

VARIABLES
  queue, f_exit,                       \* shared between all threads
  tfd, streaming, device, delivered,   \* tuner: open, STREAM bit, driver ring
  now, start_time, recsec, indefinite, \* clock and thread_data's times
  signalled,                           \* a blocked signal is pending
  msgq, sent,                          \* message queue exists; messages so far
  mpc, mnext, mblk, mcur, taken,       \* main: pc, pc after enqueue, block, cur_time, log
  rpc, rblk, rerr, held, split,        \* reader: pc, qbuf, file_err, inside b25, splitter
  written, tail,                       \* what the loop and the exit path wrote
  failed,                              \* history: a failed call of the decoder has shown
  ipc, msg, table, retype,             \* ipc thread; tdata->table; type changes
  refused,                              \* history: the tuner refused the last channel change
  spc                                  \* signal thread

queueVars == <<queue, f_exit>>
tunerVars == <<tfd, streaming, device, delivered>>
timeVars  == <<now, start_time, recsec, indefinite>>
msgVars   == <<msgq, sent>>
mainVars  == <<mpc, mnext, mblk, mcur, taken>>
readerVars == <<rpc, rblk, rerr, held, split, written, tail, failed>>
ipcVars   == <<ipc, msg, table, retype, refused>>
vars == <<queueVars, tunerVars, timeVars, signalled, msgVars, mainVars,
          readerVars, ipcVars, spc>>

Init ==
  /\ queue = <<>> /\ f_exit = FALSE
  /\ tfd = TRUE /\ streaming = FALSE /\ device = <<>> /\ delivered = 0
  /\ now = Epoch /\ start_time = 0
  /\ recsec \in Rectimes /\ indefinite = (recsec = -1)
  /\ signalled = FALSE
  /\ msgq = TRUE /\ sent = 0
  /\ mpc = "start" /\ mnext = "loop" /\ mblk = NullBlock /\ mcur = 0 /\ taken = <<>>
  /\ rpc = "get" /\ rblk = NullBlock /\ rerr = FALSE /\ held = <<>>
  /\ split = (IF UseSplitter THEN "select" ELSE "off")
  /\ written = <<>> /\ tail = <<>> /\ failed = FALSE
  /\ ipc = "recv" /\ msg = [ch |-> FirstChannel, t |-> 0, e |-> 0]
  /\ table = FirstChannel /\ retype = FALSE /\ refused = FALSE
  /\ spc = "wait"

Log(log, blocks) == IF Endless THEN log ELSE log \o blocks

\* The driver stops the stream of a closed device and forgets its ring.
CloseTuner == tfd' = FALSE /\ streaming' = FALSE /\ device' = <<>>

-----------------------------------------------------------------------------
(* Main thread *)

\* START_REC fails only on a closed descriptor; main() then returns, which
\* ends every thread.  Otherwise it notes the time and starts to read.
MainStart ==
  /\ mpc = "start"
  /\ IF tfd THEN /\ streaming' = TRUE /\ mpc' = "clock"
                 /\ UNCHANGED <<rpc, ipc, spc>>
            ELSE /\ mpc' = "exited" /\ rpc' = "done" /\ ipc' = "done" /\ spc' = "done"
                 /\ UNCHANGED streaming
  /\ UNCHANGED <<queueVars, tfd, device, delivered, timeVars, signalled, msgVars,
                 mnext, mblk, mcur, taken, rblk, rerr, held, split, written, tail, failed,
                 msg, table, retype, refused>>

MainClock ==
  /\ mpc = "clock"
  /\ start_time' = now
  /\ mpc' = "loop"
  /\ UNCHANGED <<queueVars, tunerVars, now, recsec, indefinite, signalled, msgVars,
                 mnext, mblk, mcur, taken, readerVars, ipcVars, spc>>

MainLoop ==
  /\ mpc = "loop"
  /\ IF f_exit THEN mpc' = "rmid" /\ UNCHANGED mcur
               ELSE mpc' = "read" /\ mcur' = now
  /\ UNCHANGED <<queueVars, tunerVars, timeVars, signalled, msgVars,
                 mnext, mblk, taken, readerVars, ipcVars, spc>>

\* malloc fails, in the loop or in the drain loop
MainNoMemory ==
  /\ mpc \in {"read", "drain"} /\ MayRunOutOfMemory
  /\ f_exit' = TRUE
  /\ mpc' = "rmid"
  /\ UNCHANGED <<queue, tunerVars, timeVars, signalled, msgVars,
                 mnext, mblk, mcur, taken, readerVars, ipcVars, spc>>

\* read() finds data, to be enqueued
MainRead ==
  /\ mpc \in {"read", "drain"}
  /\ tfd /\ device # <<>>
  /\ mblk' = Head(device)
  /\ device' = Tail(device)
  /\ taken' = Log(taken, <<Head(device)>>)
  /\ mnext' = (IF mpc = "read" THEN "due" ELSE "drain")
  /\ mpc' = "put"
  /\ UNCHANGED <<queueVars, tfd, streaming, delivered, timeVars, signalled, msgVars,
                 mcur, readerVars, ipcVars, spc>>

DueTooEarly(t) == t - start_time <= recsec /\ ~indefinite   \* mutant
Due(t) == t - start_time >= recsec /\ ~indefinite

\* read() returns 0 after its half second, or -1: the loop ends if the time
\* that was noted before the read is up, the drain loop ends.  PromptWake: the
\* half second is enough for a reader that was signalled to be out of its wait.
MainReadNothing ==
  /\ mpc \in {"read", "drain"}
  /\ ~tfd \/ device = <<>>
  /\ PromptWake /\ tfd => ~(rpc = "getwait" /\ queue # <<>>)
  /\ mpc' = (IF mpc = "drain" \/ Due(mcur) THEN "quit" ELSE "loop")
  /\ UNCHANGED <<queueVars, tunerVars, timeVars, signalled, msgVars,
                 mnext, mblk, mcur, taken, readerVars, ipcVars, spc>>

MainQuit ==
  /\ mpc = "quit"
  /\ f_exit' = TRUE
  /\ mpc' = "sentinel"
  /\ UNCHANGED <<queue, tunerVars, timeVars, signalled, msgVars,
                 mnext, mblk, mcur, taken, readerVars, ipcVars, spc>>

MainSentinel ==
  /\ mpc = "sentinel"
  /\ mblk' = NullBlock
  /\ mnext' = "rmid"
  /\ mpc' = "put"
  /\ UNCHANGED <<queueVars, tunerVars, timeVars, signalled, msgVars,
                 mcur, taken, readerVars, ipcVars, spc>>

AlwaysRoom == TRUE   \* mutant
HasRoom == Len(queue) < Size

\* enqueue(): stores when there is room,
MainPut ==
  /\ mpc = "put" /\ HasRoom
  /\ queue' = Append(queue, mblk)
  /\ mpc' = mnext
  /\ UNCHANGED <<f_exit, tunerVars, timeVars, signalled, msgVars,
                 mnext, mblk, mcur, taken, readerVars, ipcVars, spc>>

\* waits when there is none,
MainPutWait ==
  /\ mpc = "put" /\ ~HasRoom
  /\ mpc' = "putwait"
  /\ UNCHANGED <<queueVars, tunerVars, timeVars, signalled, msgVars,
                 mnext, mblk, mcur, taken, readerVars, ipcVars, spc>>

\* and, woken, returns without having stored if f_exit is set.
PutOnce  == mnext   \* mutant: waits with "if" and not with "while"
PutRetry == IF f_exit' THEN mnext ELSE "put"

MainPutWake ==
  /\ mpc = "putwait"
  /\ f_exit' \in {f_exit} \cup {b \in {TRUE} : MayGiveUp}
  /\ mpc' = PutRetry
  /\ UNCHANGED <<queue, tunerVars, timeVars, signalled, msgVars,
                 mnext, mblk, mcur, taken, readerVars, ipcVars, spc>>

MainDue ==
  /\ mpc = "due"
  /\ mcur' = now
  /\ mpc' = (IF Due(now) THEN "stop" ELSE "loop")
  /\ UNCHANGED <<queueVars, tunerVars, timeVars, signalled, msgVars,
                 mnext, mblk, taken, readerVars, ipcVars, spc>>

StopAction(stream, flag) ==
  /\ mpc = "stop"
  /\ streaming' = stream
  /\ f_exit' = flag
  /\ mpc' = "drain"
  /\ UNCHANGED <<queue, tfd, device, delivered, timeVars, signalled, msgVars,
                 mnext, mblk, mcur, taken, readerVars, ipcVars, spc>>

MainStopNot  == StopAction(streaming, f_exit)   \* mutant: no STOP_REC
MainStopExit == StopAction(FALSE, TRUE)         \* mutant: f_exit before the drain loop
MainStop == StopAction(FALSE, f_exit)

MainRemoveMessages ==
  /\ mpc = "rmid"
  /\ msgq' = FALSE
  /\ mpc' = "kill"
  /\ UNCHANGED <<queueVars, tunerVars, timeVars, signalled, sent,
                 mnext, mblk, mcur, taken, readerVars, ipcVars, spc>>

MainKill ==
  /\ mpc = "kill"
  /\ signalled' = TRUE
  /\ mpc' = "join"
  /\ UNCHANGED <<queueVars, tunerVars, timeVars, msgVars,
                 mnext, mblk, mcur, taken, readerVars, ipcVars, spc>>

\* The three joins, then close_tuner and destroy_queue.
MainJoin ==
  /\ mpc = "join"
  /\ rpc = "done" /\ spc = "done" /\ ipc = "done"
  /\ CloseTuner
  /\ mpc' = "done"
  /\ UNCHANGED <<queueVars, delivered, timeVars, signalled, msgVars,
                 mnext, mblk, mcur, taken, readerVars, ipcVars, spc>>

-----------------------------------------------------------------------------
(* Reader thread *)

Dequeued    == Tail(queue)

\* dequeue(): takes the oldest block; NULL ends the thread at once,
ReaderGet ==
  /\ rpc = "get" /\ queue # <<>>
  /\ queue' = Dequeued
  /\ rblk' = Head(queue)
  /\ rpc' = (IF Head(queue) = NullBlock THEN "done" ELSE "write")
  /\ UNCHANGED <<f_exit, tunerVars, timeVars, signalled, msgVars, mainVars,
                 rerr, held, split, written, tail, failed, ipcVars, spc>>

\* waits when there is none,
ReaderGetWait ==
  /\ rpc = "get" /\ queue = <<>>
  /\ rpc' = "getwait"
  /\ UNCHANGED <<queueVars, tunerVars, timeVars, signalled, msgVars, mainVars,
                 rblk, rerr, held, split, written, tail, failed, ipcVars, spc>>

\* and, woken, returns NULL if f_exit is set.
GetRetry == IF f_exit' THEN "done" ELSE "get"

ReaderGetWake ==
  /\ rpc = "getwait"
  /\ f_exit' \in {f_exit} \cup {b \in {TRUE} : MayGiveUp}
  /\ rpc' = GetRetry
  /\ rblk' = (IF f_exit' THEN NullBlock ELSE rblk)
  /\ UNCHANGED <<queue, tunerVars, timeVars, signalled, msgVars, mainVars,
                 rerr, held, split, written, tail, failed, ipcVars, spc>>

\* What b25_decode may make of the next block: any number of the latest blocks
\* stay inside the decoder.
DecodedRight ==
  IF ~UseB25 THEN {[out |-> <<rblk>>, held |-> held]}
  ELSE LET all == Append(held, rblk)
       IN  {[out |-> SubSeq(all, 1, n), held |-> SubSeq(all, n+1, Len(all))] :
              n \in 0 .. Len(all)}

\* Its result is not looked at, and it returns the block as it came when a call has
\* failed.  put: what withdraw takes back goes before the block, when there is memory;
\* but withdraw may fail as well, and then the block is taken for it.  get: the decoder
\* has the block by then and will return it again.
PutFails == {[out |-> held \o <<rblk>>, held |-> <<>>], [out |-> <<rblk, rblk>>, held |-> held]}
NoMemory == {[out |-> <<rblk>>, held |-> h] : h \in {<<>>, held}}
GetFails == {[out |-> <<rblk>>, held |-> Append(held, rblk)]}
DecodedWrong ==
  IF UseB25 /\ MayDecodeFail THEN PutFails \cup NoMemory \cup GetFails ELSE {}
Decoded == DecodedRight \cup DecodedWrong

\* What the splitter may make of that.  While it has not found its PIDs nothing
\* passes; when it has not after SelectLimit seconds, or memory runs out, it is
\* switched off and everything passes.
Splitted(in) ==
  LET pass(mode) == [out |-> in, split |-> mode]
  IN  IF split = "off" \/ in = <<>> THEN {pass(split)}
      ELSE {pass("on")}
           \cup {pass("off") : x \in {y \in {1} : MayRunOutOfMemory}}
           \cup (IF split = "on" THEN {}
                 ELSE IF now - start_time > SelectLimit THEN {pass("off")}
                 ELSE {[out |-> <<>>, split |-> "select"]})

\* Decode, split and write one block.  An error on the file ends the loop; one
\* on the socket is only signalled.
ReaderWrite ==
  /\ rpc = "write"
  /\ \E d \in Decoded : \E s \in Splitted(d.out) :
       /\ held' = d.held
       /\ failed' = (failed \/ d \notin DecodedRight)
       /\ split' = s.split
       /\ \/ written' = Log(written, s.out) /\ UNCHANGED <<rerr, signalled>>
          \/ /\ MayWriteFail /\ s.out # <<>>
             /\ rerr' = TRUE /\ signalled' = TRUE /\ UNCHANGED written
          \/ /\ MayWriteFail /\ UseUdp /\ s.out # <<>>
             /\ written' = Log(written, s.out) /\ signalled' = TRUE /\ UNCHANGED rerr
  /\ rpc' = "test"
  /\ UNCHANGED <<queueVars, tunerVars, timeVars, msgVars, mainVars,
                 rblk, tail, ipcVars, spc>>

\* "normal exit"
NormalExit == f_exit /\ queue = <<>>

ReaderTest ==
  /\ rpc = "test"
  /\ rpc' = (IF NormalExit \/ rerr THEN "finish" ELSE "get")
  /\ UNCHANGED <<queueVars, tunerVars, timeVars, signalled, msgVars, mainVars,
                 rblk, rerr, held, split, written, tail, failed, ipcVars, spc>>

\* The last write: what b25_finish flushed, or, without a decoder or when its flush or
\* get fails, the buffer of the last block, which was freed.  buffer_size of the split
\* buffer is never set, so with the splitter the last write is empty.
Freed == {<<rblk>>, <<Garbage>>}
FlushedLast == {<<rblk>>}   \* mutant: the last block instead of what the decoder held
FlushedRight ==
  IF split # "off" THEN {<<>>} ELSE IF UseB25 THEN {held} ELSE Freed
FlushedWrong == IF UseB25 /\ MayDecodeFail /\ split = "off" THEN Freed ELSE {}
Flushed == FlushedRight \cup FlushedWrong

ReaderFinish ==
  /\ rpc = "finish"
  /\ \E out \in Flushed :
       /\ failed' = (failed \/ out \notin FlushedRight)
       /\ \/ tail' = (IF rerr THEN <<>> ELSE Log(<<>>, out)) /\ UNCHANGED <<rerr, signalled>>
          \/ /\ MayWriteFail /\ out # <<>> /\ ~rerr
             /\ rerr' = TRUE /\ signalled' = TRUE /\ UNCHANGED tail
  /\ held' = <<>>
  /\ rpc' = "done"
  /\ UNCHANGED <<queueVars, tunerVars, timeVars, msgVars, mainVars,
                 rblk, split, written, ipcVars, spc>>

-----------------------------------------------------------------------------
(* Ipc thread (mq_recv) *)

IpcReceive(m) ==
  /\ ipc = "recv" /\ msgq /\ sent < MaxMessages
  /\ sent' = sent + 1
  /\ msg' = m
  /\ IF m.ch # table /\ m.ch \in Channels
       THEN /\ table' = m.ch
            /\ retype' = ((m.ch \in Satellite) # (table \in Satellite))
            /\ ipc' = "stop"
       ELSE ipc' = "extend" /\ UNCHANGED <<table, retype>>
  /\ UNCHANGED <<queueVars, tunerVars, timeVars, signalled, msgq, mainVars,
                 readerVars, refused, spc>>

\* msgrcv fails once main has removed the message queue.
IpcNoQueue ==
  /\ ipc = "recv" /\ ~msgq
  /\ ipc' = "done"
  /\ UNCHANGED <<queueVars, tunerVars, timeVars, signalled, msgVars, mainVars,
                 readerVars, msg, table, retype, refused, spc>>

IpcStop ==
  /\ ipc = "stop"
  /\ streaming' = FALSE
  /\ ipc' = "remainder"
  /\ UNCHANGED <<queueVars, tfd, device, delivered, timeVars, signalled, msgVars,
                 mainVars, readerVars, msg, table, retype, refused, spc>>

\* "wait for remainder": polls num_used, and nothing else
IpcPoll ==
  /\ ipc = "remainder"
  /\ ipc' = (IF queue = <<>> THEN "switch" ELSE "remainder")
  /\ UNCHANGED <<queueVars, tunerVars, timeVars, signalled, msgVars, mainVars,
                 readerVars, msg, table, retype, refused, spc>>

IpcSetChannelOnly ==   \* mutant: no START_REC afterwards
  /\ ipc = "switch" /\ ~retype
  /\ ipc' = "extend"
  /\ UNCHANGED <<queueVars, tunerVars, timeVars, signalled, msgVars, mainVars,
                 readerVars, msg, table, retype, refused, spc>>

\* The same kind of tuner: SET_CHANNEL, and back to the message if that fails.
IpcSetChannel ==
  /\ ipc = "switch" /\ ~retype
  /\ \/ tfd /\ ipc' = "restart" /\ UNCHANGED refused
     \/ (MayTuneFail \/ ~tfd) /\ ipc' = "extend" /\ refused' = TRUE
  /\ UNCHANGED <<queueVars, tunerVars, timeVars, signalled, msgVars, mainVars,
                 readerVars, msg, table, retype, spc>>

\* The other kind: close_tuner,
IpcClose ==
  /\ ipc = "switch" /\ retype
  /\ CloseTuner
  /\ ipc' = "tune"
  /\ UNCHANGED <<queueVars, delivered, timeVars, signalled, msgVars, mainVars,
                 readerVars, msg, table, retype, refused, spc>>

\* and tune, whose result nobody looks at.
IpcTune ==
  /\ ipc = "tune"
  /\ \/ tfd' = TRUE
     \/ MayTuneFail /\ UNCHANGED tfd
  /\ ipc' = "restart"
  /\ UNCHANGED <<queueVars, streaming, device, delivered, timeVars, signalled, msgVars,
                 mainVars, readerVars, msg, table, retype, refused, spc>>

IpcRestart ==
  /\ ipc = "restart"
  /\ IF tfd THEN streaming' = TRUE /\ refused' = FALSE /\ ipc' = "extend"
            ELSE ipc' = "done" /\ UNCHANGED <<streaming, refused>>
  /\ UNCHANGED <<queueVars, tfd, device, delivered, timeVars, signalled, msgVars,
                 mainVars, readerVars, msg, table, retype, spc>>

\* CHECK_TIME_TO_ADD
IpcExtend ==
  /\ ipc = "extend"
  /\ recsec' = recsec + msg.e
  /\ ipc' = "limit"
  /\ UNCHANGED <<queueVars, tunerVars, now, start_time, indefinite, signalled, msgVars, mainVars,
                 readerVars, msg, table, retype, refused, spc>>

\* A new total time, which ends the recording when it has passed already.
IpcLimit ==
  /\ ipc = "limit"
  /\ IF msg.t = 0 THEN UNCHANGED <<recsec, f_exit>>
     ELSE IF now - start_time > msg.t THEN f_exit' = TRUE /\ UNCHANGED recsec
     ELSE recsec' = msg.t /\ UNCHANGED f_exit
  /\ ipc' = (IF f_exit' THEN "done" ELSE "recv")
  /\ UNCHANGED <<queue, tunerVars, now, start_time, indefinite, signalled, msgVars, mainVars,
                 readerVars, msg, table, retype, refused, spc>>

-----------------------------------------------------------------------------
(* Signal thread: sigwait, once, then cleanup.  Its two condition signals     *)
(* wake nobody who would not wake by himself within a second.                 *)

SignalWait ==
  /\ spc = "wait" /\ signalled
  /\ signalled' = FALSE
  /\ spc' = "stop"
  /\ UNCHANGED <<queueVars, tunerVars, timeVars, msgVars, mainVars, readerVars, ipcVars>>

SignalStop ==
  /\ spc = "stop"
  /\ streaming' = FALSE
  /\ spc' = "exit"
  /\ UNCHANGED <<queueVars, tfd, device, delivered, timeVars, signalled, msgVars,
                 mainVars, readerVars, ipcVars>>

ExitAction(flag) ==
  /\ spc = "exit"
  /\ f_exit' = flag
  /\ spc' = "done"
  /\ UNCHANGED <<queue, tunerVars, timeVars, signalled, msgVars, mainVars,
                 readerVars, ipcVars>>

SignalExitNot == ExitAction(f_exit)   \* mutant: the flag is forgotten
SignalExit    == ExitAction(TRUE)

-----------------------------------------------------------------------------
(* What comes from outside *)

TunerDelivers ==
  /\ tfd /\ streaming /\ Len(device) < DeviceSize
  /\ Endless \/ delivered < MaxBlocks
  /\ delivered' = (IF Endless THEN 0 ELSE delivered + 1)
  /\ device' = Append(device, IF Endless THEN 1 ELSE delivered + 1)
  /\ UNCHANGED <<queueVars, tfd, streaming, timeVars, signalled, msgVars, mainVars,
                 readerVars, ipcVars, spc>>

UserSignals ==
  /\ MaySignal /\ ~signalled /\ spc = "wait"
  /\ signalled' = TRUE
  /\ UNCHANGED <<queueVars, tunerVars, timeVars, msgVars, mainVars, readerVars,
                 ipcVars, spc>>

Tick ==
  /\ now < (IF start_time = 0 THEN MaxStart ELSE MaxClock)
  /\ now' = now + 1
  /\ UNCHANGED <<queueVars, tunerVars, start_time, recsec, indefinite, signalled, msgVars,
                 mainVars, readerVars, ipcVars, spc>>

-----------------------------------------------------------------------------
Main ==
  \/ MainStart \/ MainClock \/ MainLoop \/ MainNoMemory \/ MainRead \/ MainReadNothing
  \/ MainQuit \/ MainSentinel \/ MainPut \/ MainPutWait \/ MainPutWake \/ MainDue
  \/ MainStop \/ MainRemoveMessages \/ MainKill \/ MainJoin

Reader ==
  \/ ReaderGet \/ ReaderGetWait \/ ReaderGetWake \/ ReaderWrite \/ ReaderTest
  \/ ReaderFinish

IpcWork ==
  \/ IpcNoQueue \/ IpcStop \/ IpcPoll \/ IpcSetChannel \/ IpcClose \/ IpcTune
  \/ IpcRestart \/ IpcExtend \/ IpcLimit

Ipc == IpcWork \/ \E m \in Messages : IpcReceive(m)

SignalThread == SignalWait \/ SignalStop \/ SignalExit

Over == mpc \in {"done", "exited"}

Next ==
  \/ Main \/ Reader \/ Ipc \/ SignalThread
  \/ TunerDelivers \/ UserSignals \/ Tick
  \/ Over /\ UNCHANGED vars

Spec == Init /\ [][Next]_vars

\* Every thread that can go on does, and the clock runs.  The tuner need not
\* deliver, the user need not signal, recpt1ctl need not send.
Fairness ==
  /\ WF_vars(Main) /\ WF_vars(Reader) /\ WF_vars(IpcWork) /\ WF_vars(SignalThread)
  /\ WF_vars(Tick)

FairSpec == Spec /\ Fairness

-----------------------------------------------------------------------------
(* Properties *)

Serial == {Garbage, NullBlock} \cup 1 .. MaxBlocks

Output == written \o tail

\* With a decoder nothing goes into the file twice, out of order, or from nowhere, as long
\* as no call of the decoder fails and shows it: losses on the air, a full queue, retuning,
\* and errors of the file and of memory do not disturb the order.  After a failed get the
\* block is written as it came and once more later, and after a failed flush the freed
\* block is written.
NothingTwice ==
  ~failed => /\ \A i \in DOMAIN Output : Output[i] # Garbage
             /\ \A i, j \in DOMAIN Output : i < j => Output[i] < Output[j]

Queue == INSTANCE BlockFifo WITH
           Producers <- {"main"}, Consumers <- {"reader"},
           Item <- Serial, Null <- NullBlock, NoCall <- -2,
           fifo <- queue,
           call <- [p \in {"main"} |-> IF mpc \in {"put", "putwait"} THEN mblk ELSE -2],
           got <- [c \in {"reader"} |-> rblk]

\* main and the reader use the queue as the FIFO that BlockQueue implements.
UsesQueue == Queue!FifoSpec

\* What is in the file at any time is the beginning of what was read from the
\* tuner: the recording has no hole.
NoHole ==
  \A i \in DOMAIN written : i \in DOMAIN taken /\ written[i] = taken[i]

\* A recording that ran its time has everything main read from the tuner.
CompleteOnTimeUp ==
  mpc = "done" => \A i \in DOMAIN taken : \E j \in DOMAIN Output : Output[j] = taken[i]

\* ... and it has run its time, the shortest it may have been started with, also
\* when an extension arrives in between.
NotEarly == mpc = "done" => \E r \in Rectimes : now - start_time >= r

\* Between two messages the tuner streams, unless it has refused the channel or
\* somebody has stopped the recording for good.
StreamOn ==
  mpc \in {"loop", "read", "due"} /\ spc = "wait" /\ ipc \in {"recv", "extend", "limit"}
    => streaming \/ refused

\* A recording ends when its time is up, however much the tuner delivers.
EndsOnTime == (mpc = "loop" /\ Due(now)) ~> Over

\* A signal ends the recording, and so does an error on the output, which the
\* reader turns into a signal, and a queue that has stalled, which raises f_exit:
\* all threads come to their end.
EndsOnSignal == (signalled \/ f_exit) ~> Over
=============================================================================
