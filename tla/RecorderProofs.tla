-------------------------- MODULE RecorderProofs --------------------------
(***************************************************************************)
(* Proofs about Recorder for every size of the queue and of the driver's    *)
(* ring, any number of blocks, seconds and messages: how main and the reader *)
(* use the queue, that the stream runs between messages, and what is in the  *)
(* file.                                                                     *)
(***************************************************************************)
EXTENDS Recorder, SequenceTheorems, TLAPS

Putting == mpc \in {"put", "putwait"}        \* main is inside enqueue()
Serials == 1 .. MaxBlocks

MainTypes ==
  /\ mpc \in {"start", "clock", "loop", "read", "put", "putwait", "due", "stop", "drain", "quit",
              "sentinel", "rmid", "kill", "join", "done", "exited"}
  /\ mnext \in {"loop", "due", "drain", "rmid"}
  /\ mblk \in Serials \cup {NullBlock} /\ mcur \in Nat /\ taken \in Seq(Serials)
  /\ Putting => (mblk = NullBlock <=> mnext = "rmid")
FailedTypes ==
  /\ failed \in BOOLEAN
  /\ ~(UseB25 /\ MayDecodeFail) => ~failed
  /\ UseB25 /\ ~failed => tail \in Seq(Serials)
ReaderTypes ==
  /\ rpc \in {"get", "getwait", "write", "test", "finish", "done"}
  /\ rblk \in Serials \cup {NullBlock}
  /\ rpc = "write" => rblk # NullBlock
  /\ held \in Seq(Serials) /\ split \in {"select", "on", "off"} /\ written \in Seq(Serials)
  /\ tail \in Seq(Serial)
  /\ FailedTypes
IpcTypes ==
  /\ ipc \in {"recv", "stop", "remainder", "switch", "tune", "restart", "extend", "limit", "done"}
  /\ msg.t \in Int /\ msg.e \in Int
SharedTypes ==
  /\ queue \in Seq(Serials \cup {NullBlock})
  /\ device \in Seq(Serials) /\ delivered \in 0 .. MaxBlocks
  /\ now \in Nat /\ start_time \in Nat /\ recsec \in Int
  /\ spc \in {"wait", "stop", "exit", "done"}
Types == MainTypes /\ ReaderTypes /\ IpcTypes /\ SharedTypes

USE DEF NullBlock, Garbage, Serial, Serials
USE DEF queueVars, tunerVars, timeVars, msgVars, mainVars, readerVars, ipcVars

-----------------------------------------------------------------------------
(* Types, thread by thread. *)

LEMMA InitTypes == Init => Types
<1>1. Init => MainTypes  BY RecorderAssumption DEF Init, MainTypes, Putting
<1>2. Init => ReaderTypes
  <2> SUFFICES ASSUME Init PROVE ReaderTypes
    OBVIOUS
  <2>1. FailedTypes
    <3>1. failed = FALSE /\ tail = <<>>  BY DEF Init
    <3>2. <<>> \in Seq(Serials)  OBVIOUS
    <3> QED  BY <3>1, <3>2, Zenon DEF FailedTypes
  <2> QED  BY <2>1, RecorderAssumption DEF Init, ReaderTypes
<1>3. Init => IpcTypes  BY RecorderAssumption DEF Init, IpcTypes
<1>4. Init => SharedTypes  BY RecorderAssumption DEF Init, SharedTypes
<1> QED  BY <1>1, <1>2, <1>3, <1>4 DEF Types

\* A log of blocks stays one.
LEMMA LogType ==
  ASSUME NEW S, NEW log \in Seq(S), NEW blocks \in Seq(S)
  PROVE  Log(log, blocks) \in Seq(S)
  BY ConcatProperties DEF Log

\* A block is a log of one.
LEMMA Single ==
  ASSUME NEW S, NEW e \in S
  PROVE  <<e>> \in Seq(S) /\ Len(<<e>>) = 1 /\ <<e>>[1] = e
  OBVIOUS

\* The pieces of the decoder's input are sequences of blocks that make it up, while no
\* call fails.
LEMMA RightType ==
  ASSUME Types, rpc = "write", NEW d \in DecodedRight
  PROVE  /\ d.out \in Seq(Serials) /\ d.held \in Seq(Serials)
         /\ Append(held, rblk) \in Seq(Serials)
         /\ Len(Append(held, rblk)) = Len(held) + 1
         /\ ~UseB25 => d.out = <<rblk>> /\ d.held = held
         /\ UseB25 => \E n \in 0 .. Len(held) + 1 :
              /\ d.out = SubSeq(Append(held, rblk), 1, n)
              /\ d.held = SubSeq(Append(held, rblk), n + 1, Len(held) + 1)
<1> DEFINE all == Append(held, rblk)
<1>1. held \in Seq(Serials) /\ rblk \in Serials  BY DEF Types, ReaderTypes
<1>2. /\ all \in Seq(Serials) /\ Len(all) = Len(held) + 1
      /\ \A i \in 1 .. Len(all) : all[i] \in Serials
  BY <1>1, AppendProperties, ElementOfSeq
<1>3. CASE ~UseB25
  <2>1. d = [out |-> <<rblk>>, held |-> held]  BY <1>3 DEF DecodedRight
  <2>2. <<rblk>> \in Seq(Serials)  BY <1>1, Single
  <2> QED  BY <1>1, <1>2, <1>3, <2>1, <2>2
<1>4. CASE UseB25
  <2>1. PICK n \in 0 .. Len(all) : d = [out |-> SubSeq(all, 1, n), held |-> SubSeq(all, n + 1, Len(all))]
    BY <1>4 DEF DecodedRight
  <2>2. Len(held) \in Nat  BY <1>1
  <2>3. d.out \in Seq(Serials) /\ d.held \in Seq(Serials)
    <3>1. n \in Int /\ n + 1 \in Int /\ Len(all) \in Int /\ 1 \in Int  BY <1>2, <2>2
    <3>2. \A i \in 1 .. n : all[i] \in Serials  BY <1>2, <2>2
    <3>3. \A i \in n + 1 .. Len(all) : all[i] \in Serials  BY <1>2, <2>2
    <3>4. SubSeq(all, 1, n) \in Seq(Serials)  BY ONLY <3>1, <3>2, SubSeqProperties
    <3>5. SubSeq(all, n + 1, Len(all)) \in Seq(Serials)  BY ONLY <3>1, <3>3, SubSeqProperties
    <3> QED  BY <2>1, <3>4, <3>5
  <2> QED  BY <1>2, <1>4, <2>1, <2>2, <2>3
<1> QED  BY <1>3, <1>4

\* Without failures the decoder works.
LEMMA WorksRight ==
  ASSUME ~(UseB25 /\ MayDecodeFail)
  PROVE  Decoded = DecodedRight /\ Flushed = FlushedRight
  BY DEF Decoded, DecodedWrong, Flushed, FlushedWrong

\* A decoder that fails returns and keeps blocks as well.
LEMMA DecodedType ==
  ASSUME Types, rpc = "write", NEW d \in Decoded
  PROVE  d.out \in Seq(Serials) /\ d.held \in Seq(Serials)
<1>1. held \in Seq(Serials) /\ rblk \in Serials /\ <<>> \in Seq(Serials)
  BY DEF Types, ReaderTypes
<1>2. /\ <<rblk>> \in Seq(Serials) /\ held \o <<rblk>> \in Seq(Serials)
      /\ Append(held, rblk) \in Seq(Serials) /\ <<rblk, rblk>> \in Seq(Serials)
  BY <1>1
<1>3. CASE d \in DecodedRight
  BY <1>3, RightType
<1>4. CASE d \in PutFails
  <2>1. CASE d = [out |-> held \o <<rblk>>, held |-> <<>>]  BY <1>1, <1>2, <2>1
  <2>2. CASE d = [out |-> <<rblk, rblk>>, held |-> held]  BY <1>1, <1>2, <2>2
  <2> QED  BY <1>4, <2>1, <2>2 DEF PutFails
<1>5. CASE d \in NoMemory
  <2>1. PICK h \in {<<>>, held} : d = [out |-> <<rblk>>, held |-> h]  BY <1>5 DEF NoMemory
  <2> QED  BY <1>1, <1>2, <2>1
<1>6. CASE d \in GetFails
  <2>1. d = [out |-> <<rblk>>, held |-> Append(held, rblk)]  BY <1>6 DEF GetFails
  <2> QED  BY <1>2, <2>1
<1> QED  BY <1>3, <1>4, <1>5, <1>6 DEF Decoded, DecodedWrong

\* What leaves the splitter is what came in, or nothing.
LEMMA SplittedType ==
  ASSUME NEW in, NEW s \in Splitted(in), split \in {"select", "on", "off"}
  PROVE  s.out \in {in, <<>>} /\ s.split \in {"select", "on", "off"}
         /\ (split = "off" => s.split = "off" /\ s.out = in)
  BY DEF Splitted

\* The last write is a sequence of blocks or of garbage, and with a decoder that does not
\* fail it is what the decoder held, or nothing.
LEMMA FlushedType ==
  ASSUME ReaderTypes, NEW out \in Flushed
  PROVE  out \in Seq(Serial) /\ (UseB25 /\ out \in FlushedRight => out \in {<<>>, held})
<1>1. <<rblk>> \in Seq(Serial) /\ <<Garbage>> \in Seq(Serial)  BY Single DEF ReaderTypes
<1>2. held \in Seq(Serial)
  <2>1. held \in Seq(Serials) /\ Serials \subseteq Serial  BY DEF ReaderTypes
  <2> QED  BY ONLY <2>1, SeqMonotonic
<1>3. <<>> \in Seq(Serial)  OBVIOUS
<1> QED  BY <1>1, <1>2, <1>3 DEF Flushed, FlushedRight, FlushedWrong, Freed

LEMMA MainTypesInv == ASSUME Types, [Next]_vars PROVE MainTypes'
<1> USE DEF Types, MainTypes, Putting
<1>1. CASE MainStart \/ MainClock \/ MainLoop \/ MainNoMemory
  BY <1>1 DEF SharedTypes, MainStart, MainClock, MainLoop, MainNoMemory
<1>2. CASE MainRead
  <2>1. Head(device) \in Serials /\ <<Head(device)>> \in Seq(Serials)
    <3>1. device \in Seq(Serials) /\ device # <<>>  BY <1>2 DEF SharedTypes, MainRead
    <3> QED  BY ONLY <3>1, HeadTailProperties, Single
  <2>2. taken' \in Seq(Serials)  BY <1>2, <2>1, LogType DEF MainRead
  <2> QED  BY <1>2, <2>1, <2>2 DEF MainRead
<1>3. CASE MainReadNothing \/ MainQuit \/ MainSentinel
  BY <1>3 DEF MainReadNothing, MainQuit, MainSentinel
<1>4. CASE MainPut \/ MainPutWait \/ MainPutWake
  BY <1>4 DEF MainPut, MainPutWait, MainPutWake, PutRetry
<1>5. CASE MainDue \/ MainStop \/ MainRemoveMessages \/ MainKill \/ MainJoin
  BY <1>5 DEF SharedTypes, MainDue, MainStop, StopAction, MainRemoveMessages, MainKill, MainJoin
<1>6. CASE UNCHANGED mainVars  BY <1>6
<1>7. CASE Reader \/ Ipc \/ SignalThread \/ TunerDelivers \/ UserSignals \/ Tick \/ UNCHANGED vars
  <2>1. UNCHANGED mainVars
    BY <1>7 DEF Reader, Ipc, IpcWork, SignalThread, ReaderGet, ReaderGetWait, ReaderGetWake,
       ReaderWrite, ReaderTest, ReaderFinish, IpcReceive, IpcNoQueue, IpcStop, IpcPoll,
       IpcSetChannel, IpcClose, IpcTune, IpcRestart, IpcExtend, IpcLimit, SignalWait, SignalStop,
       SignalExit, ExitAction, TunerDelivers, UserSignals, Tick, vars
  <2> QED  BY <1>6, <2>1
<1> QED  BY <1>1, <1>2, <1>3, <1>4, <1>5, <1>7 DEF Next, Main

LEMMA ReaderTypesInv == ASSUME Types, [Next]_vars PROVE ReaderTypes'
<1> USE DEF Types, ReaderTypes
<1>1. CASE MainStart
  <2>1. FailedTypes'
    <3>1. UNCHANGED <<failed, tail>>  BY <1>1 DEF MainStart
    <3> QED  BY <3>1 DEF FailedTypes
  <2> QED  BY <1>1, <2>1 DEF MainStart
<1>2. CASE ReaderGet
  <2>1. FailedTypes'
    <3>1. UNCHANGED <<failed, tail>>  BY <1>2 DEF ReaderGet
    <3> QED  BY <3>1 DEF FailedTypes
  <2> QED  BY <1>2, <2>1 DEF SharedTypes, ReaderGet
<1>3. CASE ReaderGetWait \/ ReaderGetWake \/ ReaderTest
  <2>1. FailedTypes'
    <3>1. UNCHANGED <<failed, tail>>  BY <1>3 DEF ReaderGetWait, ReaderGetWake, ReaderTest
    <3> QED  BY <3>1 DEF FailedTypes
  <2> QED  BY <1>3, <2>1 DEF ReaderGetWait, ReaderGetWake, GetRetry, ReaderTest
<1>4. CASE ReaderWrite
  <2>0. PICK d \in Decoded : \E s \in Splitted(d.out) :
          /\ held' = d.held /\ split' = s.split
          /\ written' \in {written, Log(written, s.out)}
    BY <1>4 DEF ReaderWrite
  <2>1. PICK s \in Splitted(d.out) :
          /\ held' = d.held /\ split' = s.split
          /\ written' \in {written, Log(written, s.out)}
    BY <2>0
  <2>2. d.out \in Seq(Serials) /\ d.held \in Seq(Serials)  BY <1>4, DecodedType DEF ReaderWrite
  <2>3. s.out \in Seq(Serials) /\ s.split \in {"select", "on", "off"}
    <3>1. split \in {"select", "on", "off"} /\ <<>> \in Seq(Serials)  OBVIOUS
    <3>2. s.out \in {d.out, <<>>} /\ s.split \in {"select", "on", "off"}  BY <3>1, SplittedType
    <3> QED  BY <2>2, <3>1, <3>2
  <2>4. written' \in Seq(Serials)  BY <2>1, <2>3, LogType
  <2>5. /\ failed' \in BOOLEAN /\ (failed => failed')
        /\ ~(UseB25 /\ MayDecodeFail) => ~failed'
    <3>1. PICK x \in Decoded : failed' = (failed \/ x \notin DecodedRight)
      BY <1>4 DEF ReaderWrite
    <3>2. failed \in BOOLEAN /\ (~(UseB25 /\ MayDecodeFail) => ~failed)
      BY DEF FailedTypes
    <3>3. ~(UseB25 /\ MayDecodeFail) => x \in DecodedRight
      BY WorksRight
    <3> QED  BY ONLY <3>1, <3>2, <3>3
  <2>6. tail' = tail /\ rpc' = "test" /\ rblk' = rblk
    BY <1>4 DEF ReaderWrite
  <2>7. UseB25 /\ ~failed' => tail' \in Seq(Serials)
    BY <2>5, <2>6 DEF FailedTypes
  <2>8. FailedTypes'  BY ONLY <2>5, <2>7 DEF FailedTypes
  <2> QED  BY <2>1, <2>2, <2>3, <2>4, <2>6, <2>8
<1>5. CASE ReaderFinish
  <2>1. PICK out \in Flushed : /\ tail' \in {tail, <<>>, Log(<<>>, out)}
                               /\ failed' = (failed \/ out \notin FlushedRight)
    BY <1>5 DEF ReaderFinish
  <2>2. /\ Log(<<>>, out) \in Seq(Serial)
        /\ UseB25 /\ ~failed' => Log(<<>>, out) \in Seq(Serials)
    <3>1. <<>> \in Seq(Serial) /\ <<>> \in Seq(Serials)  OBVIOUS
    <3>2. out \in Seq(Serial) /\ (UseB25 /\ ~failed' => out \in Seq(Serials))
      BY <2>1, <3>1, FlushedType
    <3> QED  BY <3>1, <3>2, LogType
  <2>3. tail' \in Seq(Serial) /\ (UseB25 /\ ~failed' => tail' \in Seq(Serials))
    <3>1. <<>> \in Seq(Serial) /\ <<>> \in Seq(Serials)  OBVIOUS
    <3>2. tail \in Seq(Serial) /\ (UseB25 /\ ~failed' => tail \in Seq(Serials))
      BY <2>1 DEF FailedTypes
    <3> QED  BY <2>1, <2>2, <3>1, <3>2
  <2>4. failed' \in BOOLEAN /\ (~(UseB25 /\ MayDecodeFail) => ~failed')
    <3>1. failed \in BOOLEAN /\ (~(UseB25 /\ MayDecodeFail) => ~failed)
      BY DEF FailedTypes
    <3>2. ~(UseB25 /\ MayDecodeFail) => out \in FlushedRight
      BY WorksRight
    <3> QED  BY ONLY <2>1, <3>1, <3>2
  <2>5. FailedTypes'  BY ONLY <2>3, <2>4 DEF FailedTypes
  <2> QED  BY <1>5, <2>3, <2>5 DEF ReaderFinish
<1>6. CASE UNCHANGED readerVars  BY <1>6 DEF FailedTypes
<1>7. CASE (Main /\ ~MainStart) \/ Ipc \/ SignalThread \/ TunerDelivers \/ UserSignals \/ Tick
           \/ UNCHANGED vars
  <2>1. UNCHANGED readerVars
    BY <1>7 DEF Main, Ipc, IpcWork, SignalThread, MainClock, MainLoop, MainNoMemory, MainRead,
       MainReadNothing, MainQuit, MainSentinel, MainPut, MainPutWait, MainPutWake, MainDue,
       MainStop, StopAction, MainRemoveMessages, MainKill, MainJoin, IpcReceive, IpcNoQueue,
       IpcStop, IpcPoll, IpcSetChannel, IpcClose, IpcTune, IpcRestart, IpcExtend, IpcLimit,
       SignalWait, SignalStop, SignalExit, ExitAction, TunerDelivers, UserSignals, Tick, vars
  <2> QED  BY <1>6, <2>1
<1> QED  BY <1>1, <1>2, <1>3, <1>4, <1>5, <1>7 DEF Next, Reader

LEMMA IpcTypesInv == ASSUME Types, [Next]_vars PROVE IpcTypes'
<1> USE DEF Types, IpcTypes
<1>1. CASE MainStart  BY <1>1 DEF MainStart
<1>2. ASSUME NEW m \in Messages, IpcReceive(m) PROVE IpcTypes'
  BY <1>2, RecorderAssumption DEF IpcReceive
<1>3. CASE IpcWork
  BY <1>3 DEF IpcWork, IpcNoQueue, IpcStop, IpcPoll, IpcSetChannel, IpcClose, IpcTune, IpcRestart,
     IpcExtend, IpcLimit
<1>4. CASE UNCHANGED ipcVars  BY <1>4
<1>5. CASE (Main /\ ~MainStart) \/ Reader \/ SignalThread \/ TunerDelivers \/ UserSignals \/ Tick
           \/ UNCHANGED vars
  <2>1. UNCHANGED ipcVars
    BY <1>5 DEF Main, Reader, SignalThread, MainClock, MainLoop, MainNoMemory, MainRead,
       MainReadNothing, MainQuit, MainSentinel, MainPut, MainPutWait, MainPutWake, MainDue,
       MainStop, StopAction, MainRemoveMessages, MainKill, MainJoin, ReaderGet, ReaderGetWait,
       ReaderGetWake, ReaderWrite, ReaderTest, ReaderFinish, SignalWait, SignalStop, SignalExit,
       ExitAction, TunerDelivers, UserSignals, Tick, vars
  <2> QED  BY <1>4, <2>1
<1> QED  BY <1>1, <1>2, <1>3, <1>5 DEF Next, Ipc

LEMMA SharedTypesInv == ASSUME Types, [Next]_vars PROVE SharedTypes'
<1> USE DEF Types, SharedTypes
<1>1. CASE MainStart \/ MainClock \/ MainRead \/ MainPut \/ MainStop \/ MainJoin
  <2>1. CASE MainStart \/ MainClock \/ MainStop  BY <1>1, <2>1 DEF MainStart, MainClock, MainStop, StopAction
  <2>2. CASE MainRead  BY <2>2 DEF MainRead
  <2>3. CASE MainPut  BY <2>3 DEF MainTypes, MainPut
  <2>4. CASE MainJoin  BY <2>4 DEF MainJoin, CloseTuner
  <2> QED  BY <1>1, <2>1, <2>2, <2>3, <2>4
<1>2. CASE ReaderGet  BY <1>2 DEF ReaderGet, Dequeued
<1>3. ASSUME NEW m \in Messages, IpcReceive(m) PROVE SharedTypes'
  BY <1>3 DEF IpcReceive
<1>4. CASE IpcWork
  <2>1. CASE IpcClose  BY <2>1 DEF IpcClose, CloseTuner
  <2>2. CASE IpcExtend \/ IpcLimit  BY <2>2 DEF IpcTypes, IpcExtend, IpcLimit
  <2>3. CASE IpcWork /\ ~(IpcClose \/ IpcExtend \/ IpcLimit)
    BY <2>3 DEF IpcWork, IpcNoQueue, IpcStop, IpcPoll, IpcSetChannel, IpcTune, IpcRestart
  <2> QED  BY <1>4, <2>1, <2>2, <2>3
<1>5. CASE SignalThread \/ UserSignals \/ Tick
  BY <1>5 DEF SignalThread, SignalWait, SignalStop, SignalExit, ExitAction, UserSignals, Tick
<1>6. CASE TunerDelivers  BY <1>6, RecorderAssumption DEF TunerDelivers
<1>7. CASE UNCHANGED <<queue, device, delivered, now, start_time, recsec, spc>>  BY <1>7
<1>8. CASE (Main /\ ~(MainStart \/ MainClock \/ MainRead \/ MainPut \/ MainStop \/ MainJoin))
           \/ (Reader /\ ~ReaderGet) \/ UNCHANGED vars
  <2>1. UNCHANGED <<queue, device, delivered, now, start_time, recsec, spc>>
    BY <1>8 DEF Main, Reader, MainLoop, MainNoMemory, MainReadNothing, MainQuit, MainSentinel,
       MainPutWait, MainPutWake, MainDue, MainRemoveMessages, MainKill, ReaderGetWait,
       ReaderGetWake, ReaderWrite, ReaderTest, ReaderFinish, vars
  <2> QED  BY <1>7, <2>1
<1> QED  BY <1>1, <1>2, <1>3, <1>4, <1>5, <1>6, <1>8 DEF Next, Ipc

LEMMA StepTypes == Types /\ [Next]_vars => Types'
  BY MainTypesInv, ReaderTypesInv, IpcTypesInv, SharedTypesInv DEF Types

LEMMA TypesHold == Spec => []Types
  BY InitTypes, StepTypes, PTL DEF Spec

-----------------------------------------------------------------------------
(* The queue, as main and the reader use it. *)

Handing == IF Putting THEN mblk ELSE -2
Silent == UNCHANGED <<queue, Handing, rblk>> /\ (f_exit' = TRUE \/ UNCHANGED f_exit)

\* A step is a call or an end of enqueue or dequeue, raises the exit flag, or is none
\* of the queue's business.
LEMMA SilentSteps ==
  ASSUME Types, [Next]_vars
  PROVE  \/ MainRead \/ MainSentinel \/ MainPut \/ MainPutWake \/ ReaderGet \/ ReaderGetWake
         \/ Silent
<1> USE DEF Types, MainTypes, ReaderTypes, Handing, Putting, Silent
<1>1. CASE MainStart \/ MainClock \/ MainLoop \/ MainNoMemory \/ MainReadNothing \/ MainQuit
  BY <1>1 DEF MainStart, MainClock, MainLoop, MainNoMemory, MainReadNothing, MainQuit
<1>2. CASE MainPutWait \/ MainDue \/ MainStop \/ MainRemoveMessages \/ MainKill \/ MainJoin
  BY <1>2 DEF MainPutWait, MainDue, MainStop, StopAction, MainRemoveMessages, MainKill, MainJoin
<1>3. CASE ReaderGetWait \/ ReaderWrite \/ ReaderTest \/ ReaderFinish
  BY <1>3 DEF ReaderGetWait, ReaderWrite, ReaderTest, ReaderFinish
<1>4. CASE Ipc
  BY <1>4 DEF Ipc, IpcWork, IpcReceive, IpcNoQueue, IpcStop, IpcPoll, IpcSetChannel, IpcClose,
     IpcTune, IpcRestart, IpcExtend, IpcLimit
<1>5. CASE SignalThread \/ TunerDelivers \/ UserSignals \/ Tick \/ UNCHANGED vars
  BY <1>5 DEF SignalThread, SignalWait, SignalStop, SignalExit, ExitAction, TunerDelivers,
     UserSignals, Tick, vars
<1> QED  BY <1>1, <1>2, <1>3, <1>4, <1>5 DEF Next, Main, Reader

\* Reading a block, and the NULL, are calls of enqueue,
LEMMA QueueStep ==
  ASSUME Types, [Next]_vars
  PROVE  [Queue!FifoNext]_(Queue!fifoVars)
<1> DEFINE
      Call == [p \in {"main"} |-> IF mpc \in {"put", "putwait"} THEN mblk ELSE -2]
      Got == [c \in {"reader"} |-> rblk]
<1>0. UNCHANGED <<queue, f_exit, Call, Got>> => UNCHANGED Queue!fifoVars  BY DEF Queue!fifoVars
<1>1. /\ Call' = [p \in {"main"} |-> Handing'] /\ Call = [p \in {"main"} |-> Handing]
      /\ Got' = [c \in {"reader"} |-> rblk'] /\ Got = [c \in {"reader"} |-> rblk]
  BY DEF Handing, Putting
<1> HIDE DEF Call, Got
<1>2. CASE MainRead \/ MainSentinel
  <2>1. /\ Handing = -2 /\ Handing' \in Serial /\ UNCHANGED <<queue, f_exit, rblk>>
    <3>1. CASE MainRead
      <4>1. Head(device) \in Serials  BY <3>1, HeadTailProperties DEF MainRead, Types, SharedTypes
      <4> QED  BY <3>1, <4>1 DEF MainRead, Handing, Putting
    <3>2. CASE MainSentinel  BY <3>2 DEF MainSentinel, Handing, Putting
    <3> QED  BY <1>2, <3>1, <3>2
  <2>2. Call["main"] = -2 /\ Call' = [Call EXCEPT !["main"] = Handing'] /\ UNCHANGED Got
    BY <1>1, <2>1
  <2>3. Queue!Call("main", Handing')  BY <2>1, <2>2 DEF Queue!Call, Call, Got
  <2> QED  BY <2>1, <2>3 DEF Queue!FifoNext
<1>3. CASE MainPut
  <2>1. /\ Handing = mblk /\ mblk # -2 /\ Handing' = -2 /\ UNCHANGED <<f_exit, rblk>>
        /\ Len(queue) < Size /\ queue' = Append(queue, mblk)
    BY <1>3 DEF MainPut, HasRoom, Handing, Putting, Types, MainTypes
  <2>2. /\ Call["main"] = mblk /\ Call' = [Call EXCEPT !["main"] = -2] /\ UNCHANGED Got
    BY <1>1, <2>1
  <2>3. Queue!Put("main")  BY <2>1, <2>2 DEF Queue!Put, Call, Got
  <2> QED  BY <2>3 DEF Queue!FifoNext
<1>4. CASE MainPutWake
  <2>1. UNCHANGED <<queue, rblk>>  BY <1>4 DEF MainPutWake
  <2>2. CASE f_exit'
    <3>1. Handing' = -2  BY <1>4, <2>2 DEF MainPutWake, PutRetry, Handing, Putting, Types, MainTypes
    <3>2. Call' = [Call EXCEPT !["main"] = -2] /\ UNCHANGED Got  BY <1>1, <2>1, <3>1
    <3>3. Queue!GiveUpPut("main")  BY <2>1, <2>2, <3>2 DEF Queue!GiveUpPut, Call, Got
    <3> QED  BY <3>3 DEF Queue!FifoNext
  <2>3. CASE ~f_exit'
    <3>1. UNCHANGED Handing  BY <1>4, <2>3 DEF MainPutWake, PutRetry, Handing, Putting
    <3>2. UNCHANGED f_exit  BY <1>4, <2>3 DEF MainPutWake
    <3>3. UNCHANGED <<Call, Got>>  BY <1>1, <2>1, <3>1
    <3> QED  BY <1>0, <2>1, <3>2, <3>3
  <2> QED  BY <2>2, <2>3
<1>5. CASE ReaderGet
  <2>1. /\ queue # <<>> /\ queue' = Tail(queue) /\ rblk' = Head(queue)
        /\ UNCHANGED <<f_exit, Handing>>
    BY <1>5 DEF ReaderGet, Dequeued, Handing, Putting
  <2>2. Got' = [Got EXCEPT !["reader"] = Head(queue)] /\ UNCHANGED Call  BY <1>1, <2>1
  <2>3. Queue!Take("reader")  BY <2>1, <2>2 DEF Queue!Take, Call, Got
  <2> QED  BY <2>3 DEF Queue!FifoNext
<1>6. CASE ReaderGetWake
  <2>1. UNCHANGED <<queue, Handing>>  BY <1>6 DEF ReaderGetWake, Handing, Putting
  <2>2. CASE f_exit'
    <3>1. rblk' = 0  BY <1>6, <2>2 DEF ReaderGetWake
    <3>2. Got' = [Got EXCEPT !["reader"] = 0] /\ UNCHANGED Call  BY <1>1, <2>1, <3>1
    <3>3. Queue!GiveUpTake("reader")  BY <2>1, <2>2, <3>2 DEF Queue!GiveUpTake, Call, Got
    <3> QED  BY <3>3 DEF Queue!FifoNext
  <2>3. CASE ~f_exit'
    <3>1. UNCHANGED <<rblk, f_exit>>  BY <1>6, <2>3 DEF ReaderGetWake
    <3>2. UNCHANGED <<Call, Got>>  BY <1>1, <2>1, <3>1
    <3> QED  BY <1>0, <2>1, <3>1, <3>2
  <2> QED  BY <2>2, <2>3
<1>7. CASE Silent
  <2>1. UNCHANGED <<Call, Got>>  BY <1>1, <1>7 DEF Silent
  <2>2. CASE f_exit' = TRUE
    <3>1. Queue!RaiseExit  BY <1>7, <2>1, <2>2 DEF Silent, Queue!RaiseExit, Call, Got
    <3> QED  BY <3>1 DEF Queue!FifoNext
  <2>3. CASE UNCHANGED f_exit  BY <1>0, <1>7, <2>1, <2>3 DEF Silent
  <2> QED  BY <1>7, <2>2, <2>3 DEF Silent
<1> QED  BY SilentSteps, <1>2, <1>3, <1>4, <1>5, <1>6, <1>7

LEMMA QueueInit == Init => Queue!FifoInit
<1> SUFFICES ASSUME Init PROVE Queue!FifoInit
  OBVIOUS
<1>1. mpc = "start" /\ rblk = NullBlock /\ queue = <<>> /\ f_exit = FALSE  BY DEF Init
<1> QED  BY <1>1 DEF Queue!FifoInit

\* main and the reader use the queue as the FIFO that BlockQueue implements: one block
\* at a time, in order, giving up only once the exit flag is up.
THEOREM QueueUse == Spec => UsesQueue
  BY QueueInit, QueueStep, TypesHold, PTL DEF Spec, UsesQueue, Queue!FifoSpec
-----------------------------------------------------------------------------
(* The stream between two messages. *)

\* main is between START_REC and the end of its loop,
Recording ==
  \/ mpc \in {"clock", "loop", "read", "due"}
  \/ Putting /\ mnext \in {"loop", "due"}
\* and neither a signal nor a message has stopped the stream.
Calm == Recording /\ spc = "wait" /\ ipc \in {"recv", "extend", "limit"}
Streams == Calm => streaming \/ refused

LEMMA InitStreams == Init => Streams
  BY DEF Init, Streams, Calm, Recording, Putting

LEMMA StepStreams == Types /\ Streams /\ [Next]_vars => Streams'
<1> SUFFICES ASSUME Types, Streams, [Next]_vars PROVE Streams'
  OBVIOUS
<1> USE DEF Streams, Calm, Recording, Putting
<1>1. CASE Main
  <2>1. CASE MainStart  BY <2>1 DEF MainStart
  <2>2. CASE MainStop \/ MainJoin
    BY <2>2 DEF MainStop, StopAction, MainJoin
  <2>3. CASE Main /\ ~MainStart /\ ~MainStop /\ ~MainJoin
    <3>1. UNCHANGED <<streaming, refused, spc, ipc>>
      BY <2>3 DEF Main, MainClock, MainLoop, MainNoMemory, MainRead, MainReadNothing, MainQuit,
         MainSentinel, MainPut, MainPutWait, MainPutWake, MainDue, MainRemoveMessages, MainKill
    <3>2. Recording' => Recording
      <4>1. CASE MainClock \/ MainLoop \/ MainNoMemory \/ MainReadNothing \/ MainQuit
        BY <4>1 DEF MainClock, MainLoop, MainNoMemory, MainReadNothing, MainQuit
      <4>2. CASE MainRead \/ MainSentinel \/ MainDue
        BY <4>2 DEF MainRead, MainSentinel, MainDue
      <4>3. CASE MainPut \/ MainPutWait \/ MainPutWake \/ MainRemoveMessages \/ MainKill
        <5>1. mnext \in {"loop", "due", "drain", "rmid"}  BY DEF Types, MainTypes
        <5> QED
          BY <4>3, <5>1 DEF MainPut, MainPutWait, MainPutWake, PutRetry, MainRemoveMessages, MainKill
      <4> QED  BY <2>3, <4>1, <4>2, <4>3 DEF Main
    <3> QED  BY <3>1, <3>2
  <2> QED  BY <1>1, <2>1, <2>2, <2>3
<1>2. CASE Reader \/ TunerDelivers \/ UserSignals \/ Tick \/ UNCHANGED vars
  <2>1. UNCHANGED <<streaming, refused, spc, ipc, mpc, mnext>>
    BY <1>2 DEF Reader, ReaderGet, ReaderGetWait, ReaderGetWake, ReaderWrite, ReaderTest,
       ReaderFinish, TunerDelivers, UserSignals, Tick, vars
  <2> QED  BY <2>1
<1>3. CASE Ipc
  BY <1>3 DEF Ipc, IpcWork, IpcReceive, IpcNoQueue, IpcStop, IpcPoll, IpcSetChannel, IpcClose,
     IpcTune, IpcRestart, IpcExtend, IpcLimit
<1>4. CASE SignalThread
  BY <1>4 DEF SignalThread, SignalWait, SignalStop, SignalExit, ExitAction
<1> QED  BY <1>1, <1>2, <1>3, <1>4 DEF Next

\* Between two messages the tuner streams, unless it has refused the channel or the
\* signal thread has stopped it: whatever the messages, and with every ioctl allowed
\* to fail.
THEOREM Streaming == Spec => []StreamOn
<1>1. Streams => StreamOn  BY DEF Streams, Calm, Recording, StreamOn
<1> QED  BY InitStreams, StepStreams, TypesHold, <1>1, PTL DEF Spec
-----------------------------------------------------------------------------
(* The order of the blocks.  A sequence rises when every block in it is later *)
(* than all before it; the NULL sentinel does not count.                     *)

Blocks(s) == {s[i] : i \in 1 .. Len(s)} \ {NullBlock}
Rising(s) == \A i, j \in 1 .. Len(s) : i < j /\ s[j] # NullBlock => s[i] < s[j]
Before(S, T) == \A x \in S, y \in T : x < y

LEMMA EmptyRises == Rising(<<>>) /\ Blocks(<<>>) = {}
  BY DEF Rising, Blocks

LEMMA AppendRises ==
  ASSUME NEW s \in Seq(Nat), NEW e \in Nat, Rising(s), Before(Blocks(s), {e} \ {NullBlock})
  PROVE  Rising(Append(s, e)) /\ Blocks(Append(s, e)) = Blocks(s) \cup ({e} \ {NullBlock})
<1> DEFINE t == Append(s, e)
<1>1. /\ Len(s) \in Nat /\ Len(t) = Len(s) + 1 /\ t[Len(s) + 1] = e
      /\ \A i \in 1 .. Len(s) : t[i] = s[i] /\ s[i] \in Nat
  BY AppendProperties, ElementOfSeq
<1> HIDE DEF t
<1>2. Rising(t)
  <2> SUFFICES ASSUME NEW i \in 1 .. Len(t), NEW j \in 1 .. Len(t), i < j, t[j] # 0
               PROVE  t[i] < t[j]
    BY DEF Rising
  <2>1. i \in 1 .. Len(s) /\ t[i] = s[i] /\ s[i] \in Nat  BY <1>1
  <2>2. CASE j \in 1 .. Len(s)  BY <1>1, <2>1, <2>2 DEF Rising
  <2>3. CASE j = Len(s) + 1  BY <1>1, <2>1, <2>3 DEF Before, Blocks
  <2> QED  BY <1>1, <2>2, <2>3
<1>3. Blocks(t) = Blocks(s) \cup ({e} \ {NullBlock})
  <2>1. 1 .. Len(t) = 1 .. Len(s) \cup {Len(s) + 1}  BY <1>1
  <2>2. \A x : x \in Blocks(t) <=> x # 0 /\ ((\E i \in 1 .. Len(s) : x = t[i]) \/ x = t[Len(s) + 1])
    BY ONLY <2>1 DEF Blocks, NullBlock
  <2>3. \A x : x \in Blocks(s) <=> x # 0 /\ \E i \in 1 .. Len(s) : x = s[i]
    BY ONLY DEF Blocks, NullBlock
  <2> QED  BY <1>1, <2>2, <2>3
<1> QED  BY <1>2, <1>3 DEF t

LEMMA TailRises ==
  ASSUME NEW s \in Seq(Nat), s # <<>>, Rising(s)
  PROVE  /\ Rising(Tail(s)) /\ Blocks(Tail(s)) \subseteq Blocks(s)
         /\ {Head(s)} \ {NullBlock} \subseteq Blocks(s)
         /\ Before({Head(s)} \ {NullBlock}, Blocks(Tail(s)))
<1> DEFINE t == Tail(s)
<1>1. /\ Len(s) \in Nat \ {0} /\ Len(t) = Len(s) - 1 /\ Head(s) = s[1]
      /\ \A i \in 1 .. Len(t) : t[i] = s[i + 1]
  BY HeadTailProperties
<1> HIDE DEF t
<1>2. Rising(t)
  <2> SUFFICES ASSUME NEW i \in 1 .. Len(t), NEW j \in 1 .. Len(t), i < j, t[j] # 0
               PROVE  t[i] < t[j]
    BY DEF Rising
  <2>1. /\ i + 1 \in 1 .. Len(s) /\ j + 1 \in 1 .. Len(s) /\ i + 1 < j + 1
        /\ t[i] = s[i + 1] /\ t[j] = s[j + 1]
    BY <1>1
  <2> QED  BY <2>1 DEF Rising
<1>3. /\ Blocks(t) \subseteq Blocks(s)
      /\ {s[1]} \ {NullBlock} \subseteq Blocks(s)
      /\ Before({s[1]} \ {NullBlock}, Blocks(t))
  BY <1>1 DEF Rising, Blocks, Before
<1> QED  BY <1>1, <1>2, <1>3 DEF t

LEMMA ConcatRises ==
  ASSUME NEW s \in Seq(Nat), NEW u \in Seq(Nat), Rising(s), Rising(u), Before(Blocks(s), Blocks(u))
  PROVE  Rising(s \o u) /\ Blocks(s \o u) \subseteq Blocks(s) \cup Blocks(u)
<1> DEFINE t == s \o u
<1>1. /\ Len(s) \in Nat /\ Len(u) \in Nat /\ Len(t) = Len(s) + Len(u)
      /\ \A i \in 1 .. Len(s) : t[i] = s[i] /\ s[i] \in Nat
      /\ \A i \in Len(s) + 1 .. Len(t) : i - Len(s) \in 1 .. Len(u) /\ t[i] = u[i - Len(s)]
  <2>1. /\ Len(t) = Len(s) + Len(u)
        /\ \A i \in 1 .. Len(s) + Len(u) : t[i] = IF i <= Len(s) THEN s[i] ELSE u[i - Len(s)]
    BY ConcatProperties
  <2> HIDE DEF t
  <2>2. Len(s) \in Nat /\ Len(u) \in Nat /\ \A i \in 1 .. Len(s) : s[i] \in Nat  BY ElementOfSeq
  <2> QED  BY <2>1, <2>2
<1> HIDE DEF t
<1>2. Rising(t)
  <2> SUFFICES ASSUME NEW i \in 1 .. Len(t), NEW j \in 1 .. Len(t), i < j, t[j] # 0
               PROVE  t[i] < t[j]
    BY DEF Rising
  <2>1. CASE j \in 1 .. Len(s)
    <3>1. i \in 1 .. Len(s) /\ t[i] = s[i] /\ t[j] = s[j]  BY <1>1, <2>1
    <3> QED  BY <2>1, <3>1 DEF Rising
  <2>2. CASE i \in 1 .. Len(s) /\ j \in Len(s) + 1 .. Len(t)
    <3>1. t[i] = s[i] /\ s[i] \in Nat /\ t[j] = u[j - Len(s)] /\ j - Len(s) \in 1 .. Len(u)
      BY <1>1, <2>2
    <3>2. u[j - Len(s)] \in Nat  BY <3>1, ElementOfSeq
    <3>3. t[j] \in Blocks(u)  BY <3>1 DEF Blocks
    <3>4. t[i] = 0 \/ t[i] \in Blocks(s)  BY <2>2, <3>1 DEF Blocks
    <3> QED  BY <3>1, <3>2, <3>3, <3>4 DEF Before
  <2>3. CASE i \in Len(s) + 1 .. Len(t)
    <3>1. /\ i - Len(s) \in 1 .. Len(u) /\ j - Len(s) \in 1 .. Len(u) /\ i - Len(s) < j - Len(s)
          /\ t[i] = u[i - Len(s)] /\ t[j] = u[j - Len(s)]
      BY <1>1, <2>3
    <3> QED  BY <3>1 DEF Rising
  <2> QED  BY <1>1, <2>1, <2>2, <2>3
<1>3. Blocks(t) \subseteq Blocks(s) \cup Blocks(u)
  <2> SUFFICES ASSUME NEW i \in 1 .. Len(t), t[i] # 0 PROVE t[i] \in Blocks(s) \cup Blocks(u)
    BY DEF Blocks
  <2>1. i \in 1 .. Len(s) \/ i \in Len(s) + 1 .. Len(t)  BY <1>1
  <2> QED  BY <1>1, <2>1 DEF Blocks
<1> QED  BY <1>2, <1>3 DEF t

\* A sequence cut in two.
LEMMA Cut ==
  ASSUME NEW S, NEW s \in Seq(S), NEW n \in 0 .. Len(s),
         NEW u, NEW v, u = SubSeq(s, 1, n), v = SubSeq(s, n + 1, Len(s))
  PROVE  /\ Len(u) = n /\ \A i \in 1 .. n : u[i] = s[i]
         /\ Len(v) = Len(s) - n /\ \A i \in 1 .. Len(s) - n : v[i] = s[n + i]
<1>1. Len(s) \in Nat /\ n \in Nat /\ n <= Len(s) /\ \A i \in 1 .. Len(s) : s[i] \in S
  BY ElementOfSeq
<1>2. Len(u) = n /\ \A i \in 1 .. n : u[i] = s[i]
  <2>1. 1 \in Int /\ n \in Int /\ \A i \in 1 .. n : s[i] \in S  BY <1>1
  <2>2. /\ Len(SubSeq(s, 1, n)) = IF 1 <= n THEN n - 1 + 1 ELSE 0
        /\ \A i \in 1 .. n - 1 + 1 : SubSeq(s, 1, n)[i] = s[1 + i - 1]
    BY ONLY <2>1, SubSeqProperties
  <2> QED  BY <1>1, <2>2
<1>3. Len(v) = Len(s) - n /\ \A i \in 1 .. Len(s) - n : v[i] = s[n + i]
  <2>1. n + 1 \in Int /\ Len(s) \in Int /\ \A i \in n + 1 .. Len(s) : s[i] \in S  BY <1>1
  <2>2. /\ Len(SubSeq(s, n + 1, Len(s))) = IF n + 1 <= Len(s) THEN Len(s) - (n + 1) + 1 ELSE 0
        /\ \A i \in 1 .. Len(s) - (n + 1) + 1 : SubSeq(s, n + 1, Len(s))[i] = s[n + 1 + i - 1]
    BY ONLY <2>1, SubSeqProperties
  <2> QED  BY <1>1, <2>2
<1> QED  BY <1>2, <1>3

LEMMA CutRises ==
  ASSUME NEW s \in Seq(Nat), NEW n \in 0 .. Len(s), Rising(s),
         NEW u, NEW v, u = SubSeq(s, 1, n), v = SubSeq(s, n + 1, Len(s))
  PROVE  /\ Rising(u) /\ Rising(v) /\ Before(Blocks(u), Blocks(v))
         /\ Blocks(u) \subseteq Blocks(s) /\ Blocks(v) \subseteq Blocks(s)
<1>1. Len(s) \in Nat /\ n \in Nat /\ n <= Len(s) /\ \A i \in 1 .. Len(s) : s[i] \in Nat
  BY ElementOfSeq
<1>2. Len(u) = n /\ \A i \in 1 .. n : u[i] = s[i]  BY Cut
<1>3. Len(v) = Len(s) - n /\ \A i \in 1 .. Len(s) - n : v[i] = s[n + i]  BY Cut
<1>4. Rising(u)
  <2> SUFFICES ASSUME NEW i \in 1 .. Len(u), NEW j \in 1 .. Len(u), i < j, u[j] # 0
               PROVE  u[i] < u[j]
    BY DEF Rising
  <2>1. i \in 1 .. Len(s) /\ j \in 1 .. Len(s) /\ u[i] = s[i] /\ u[j] = s[j]  BY <1>1, <1>2
  <2> QED  BY <2>1 DEF Rising
<1>5. Rising(v)
  <2> SUFFICES ASSUME NEW i \in 1 .. Len(v), NEW j \in 1 .. Len(v), i < j, v[j] # 0
               PROVE  v[i] < v[j]
    BY DEF Rising
  <2>1. /\ n + i \in 1 .. Len(s) /\ n + j \in 1 .. Len(s) /\ n + i < n + j
        /\ v[i] = s[n + i] /\ v[j] = s[n + j]
    BY <1>1, <1>3
  <2> QED  BY <2>1 DEF Rising
<1>6. Blocks(u) \subseteq Blocks(s) /\ Blocks(v) \subseteq Blocks(s)
  <2>1. \A i \in 1 .. Len(u) : i \in 1 .. Len(s) /\ u[i] = s[i]  BY <1>1, <1>2
  <2>2. \A i \in 1 .. Len(v) : n + i \in 1 .. Len(s) /\ v[i] = s[n + i]  BY <1>1, <1>3
  <2>3. ASSUME NEW i \in 1 .. Len(u) PROVE u[i] \in {s[k] : k \in 1 .. Len(s)}  BY <2>1
  <2>4. ASSUME NEW i \in 1 .. Len(v) PROVE v[i] \in {s[k] : k \in 1 .. Len(s)}  BY <2>2
  <2> QED  BY ONLY <2>3, <2>4 DEF Blocks
<1>7. Before(Blocks(u), Blocks(v))
  <2> SUFFICES ASSUME NEW x \in Blocks(u), NEW y \in Blocks(v) PROVE x < y
    BY DEF Before
  <2>1. PICK i \in 1 .. Len(u) : x = u[i]  BY DEF Blocks
  <2>2. PICK j \in 1 .. Len(v) : y = v[j] /\ v[j] # 0  BY DEF Blocks
  <2>3. u[i] = s[i] /\ v[j] = s[n + j] /\ i \in 1 .. Len(s) /\ n + j \in 1 .. Len(s) /\ i < n + j
    BY <1>1, <1>2, <1>3
  <2> QED  BY <1>1, <2>1, <2>2, <2>3 DEF Rising
<1> QED  BY <1>4, <1>5, <1>6, <1>7
-----------------------------------------------------------------------------
(* Where the blocks are, from the file back to the tuner: every place holds   *)
(* only blocks that are older than those behind it.                          *)

LastWrite == IF UseB25 THEN Blocks(tail) ELSE {}    \* without a decoder it may be garbage
InDecoder == Blocks(held) \cup LastWrite
InReader  == IF rpc = "write" THEN {rblk} \ {NullBlock} ELSE {}
InMain    == IF Putting THEN {mblk} \ {NullBlock} ELSE {}

Chain(file, decoder, reader, fifo, main, tuner, last) ==
  /\ Before(file, decoder) /\ Before(file, reader) /\ Before(file, fifo)
  /\ Before(file, main) /\ Before(file, tuner)
  /\ Before(decoder, reader) /\ Before(decoder, fifo) /\ Before(decoder, main)
  /\ Before(decoder, tuner)
  /\ Before(reader, fifo) /\ Before(reader, main) /\ Before(reader, tuner)
  /\ Before(fifo, main) /\ Before(fifo, tuner) /\ Before(main, tuner)
  /\ \A x \in file \cup decoder \cup reader \cup fifo \cup main \cup tuner : x <= last

InOrder ==
  /\ Chain(Blocks(written), InDecoder, InReader, Blocks(queue), InMain, Blocks(device), delivered)
  /\ Rising(written) /\ Rising(held) /\ Rising(queue) /\ Rising(device)
  /\ UseB25 => Rising(tail)
  /\ ~UseB25 => held = <<>>
  /\ rpc # "done" => tail = <<>>
Order == failed \/ IF Endless THEN written = <<>> /\ tail = <<>> ELSE InOrder

LEMMA InitOrder == Init => Order
<1> SUFFICES ASSUME Init PROVE Order
  OBVIOUS
<1>1. /\ queue = <<>> /\ device = <<>> /\ delivered = 0 /\ mpc = "start" /\ rpc = "get"
      /\ held = <<>> /\ written = <<>> /\ tail = <<>>
  BY DEF Init
<1>2. InDecoder = {} /\ InReader = {} /\ InMain = {}
  BY <1>1, EmptyRises DEF InDecoder, LastWrite, InReader, InMain, Putting
<1>3. Chain({}, {}, {}, {}, {}, {}, 0)  BY DEF Chain, Before
<1> QED  BY <1>1, <1>2, <1>3, EmptyRises DEF Order, InOrder

\* Serial numbers are natural numbers.
LEMMA Naturals ==
  ASSUME Types
  PROVE  /\ held \in Seq(Nat) /\ written \in Seq(Nat) /\ queue \in Seq(Nat) /\ device \in Seq(Nat)
         /\ UseB25 /\ ~failed => tail \in Seq(Nat)
<1>1. Serials \subseteq Nat /\ Serials \cup {NullBlock} \subseteq Nat  OBVIOUS
<1>2. /\ held \in Seq(Serials) /\ written \in Seq(Serials) /\ queue \in Seq(Serials \cup {NullBlock})
      /\ device \in Seq(Serials)
      /\ UseB25 /\ ~failed => tail \in Seq(Serials)
  BY DEF Types, ReaderTypes, FailedTypes, SharedTypes
<1> QED  BY ONLY <1>1, <1>2, SeqMonotonic

\* Blocks that disappear do not disturb the order.
LEMMA ChainShrinks ==
  ASSUME NEW f, NEW d, NEW r, NEW q, NEW m, NEW t, NEW n, Chain(f, d, r, q, m, t, n),
         NEW f1, NEW d1, NEW r1, NEW q1, NEW m1, NEW t1,
         f1 \subseteq f, d1 \subseteq d, r1 \subseteq r, q1 \subseteq q, m1 \subseteq m, t1 \subseteq t
  PROVE  Chain(f1, d1, r1, q1, m1, t1, n)
  BY DEF Chain, Before

\* Neither does a block that moves on to the next place.
LEMMA ChainDelivers ==
  ASSUME NEW n \in Nat, NEW f, NEW d, NEW r, NEW q, NEW m, NEW t, Chain(f, d, r, q, m, t, n),
         \A x \in f \cup d \cup r \cup q \cup m \cup t : x \in Nat
  PROVE  Chain(f, d, r, q, m, t \cup {n + 1}, n + 1) /\ Before(t, {n + 1})
  BY DEF Chain, Before
LEMMA ChainReads ==
  ASSUME NEW n, NEW f, NEW d, NEW r, NEW q, NEW m, NEW t, Chain(f, d, r, q, m, t, n),
         NEW e, NEW t1, e \subseteq t, t1 \subseteq t, Before(e, t1)
  PROVE  Chain(f, d, r, q, e, t1, n)
  BY DEF Chain, Before
LEMMA ChainEnqueues ==
  ASSUME NEW n, NEW f, NEW d, NEW r, NEW q, NEW m, NEW t, Chain(f, d, r, q, m, t, n)
  PROVE  Chain(f, d, r, q \cup m, {}, t, n)
  BY DEF Chain, Before
LEMMA ChainDequeues ==
  ASSUME NEW n, NEW f, NEW d, NEW r, NEW q, NEW m, NEW t, Chain(f, d, r, q, m, t, n),
         NEW e, NEW q1, e \subseteq q, q1 \subseteq q, Before(e, q1)
  PROVE  Chain(f, d, e, q1, m, t, n)
  BY DEF Chain, Before
LEMMA ChainWrites ==
  ASSUME NEW n, NEW f, NEW d, NEW r, NEW q, NEW m, NEW t, Chain(f, d, r, q, m, t, n),
         NEW out, NEW d1, out \subseteq d \cup r, d1 \subseteq d \cup r, Before(out, d1)
  PROVE  Chain(f \cup out, d1, {}, q, m, t, n)
  BY DEF Chain, Before

\* The steps that move no block on, or only lose some.
LEMMA Loses ==
  ASSUME InOrder, UNCHANGED <<written, held, queue, delivered>>, device' \in {device, <<>>},
         tail' \in {tail, <<>>}, InMain' \subseteq InMain, InReader' \subseteq InReader,
         rpc' # "done" => rpc # "done"
  PROVE  InOrder'
<1>1. InDecoder' \subseteq InDecoder /\ (UseB25 => Rising(tail')) /\ (~UseB25 => held' = <<>>)
  BY EmptyRises DEF InOrder, InDecoder, LastWrite
<1>2. Blocks(device') \subseteq Blocks(device) /\ Rising(device')  BY EmptyRises DEF InOrder
<1>3. Chain(Blocks(written'), InDecoder', InReader', Blocks(queue'), InMain', Blocks(device'), delivered')
  BY <1>1, <1>2, ChainShrinks DEF InOrder
<1>4. rpc' # "done" => tail' = <<>>  BY DEF InOrder
<1> QED  BY <1>1, <1>2, <1>3, <1>4 DEF InOrder

LEMMA DeliversInOrder ==
  ASSUME Types, ~Endless, ~failed, InOrder, TunerDelivers
  PROVE  InOrder'
<1>1. /\ delivered \in Nat /\ delivered' = delivered + 1 /\ device' = Append(device, delivered + 1)
      /\ UNCHANGED <<written, held, tail, queue, rpc, rblk, mpc, mblk>>
  BY DEF TunerDelivers, Types, SharedTypes
<1>2. \A x \in Blocks(written) \cup InDecoder \cup InReader \cup Blocks(queue) \cup InMain
               \cup Blocks(device) : x \in Nat
  <2>1. rblk \in Nat /\ mblk \in Nat  BY DEF Types, ReaderTypes, MainTypes
  <2>2. \A s \in Seq(Nat) : \A x \in Blocks(s) : x \in Nat  BY ElementOfSeq DEF Blocks
  <2> QED  BY <2>1, <2>2, Naturals DEF InDecoder, LastWrite, InReader, InMain
<1>3. /\ Chain(Blocks(written), InDecoder, InReader, Blocks(queue), InMain,
               Blocks(device) \cup {delivered + 1}, delivered + 1)
      /\ Before(Blocks(device), {delivered + 1})
  BY <1>1, <1>2, ChainDelivers DEF InOrder
<1>4. {delivered + 1} \ {NullBlock} = {delivered + 1}  BY <1>1
<1>5. Rising(device') /\ Blocks(device') = Blocks(device) \cup {delivered + 1}
  <2>1. delivered + 1 \in Nat /\ device \in Seq(Nat)  BY <1>1, Naturals
  <2> QED  BY <1>1, <1>3, <1>4, <2>1, AppendRises DEF InOrder
<1>6. UNCHANGED <<InDecoder, InReader, InMain>>
  BY <1>1 DEF InDecoder, LastWrite, InReader, InMain, Putting
<1> QED  BY <1>1, <1>3, <1>5, <1>6 DEF InOrder

LEMMA ReadsInOrder == ASSUME Types, InOrder, MainRead PROVE InOrder'
<1>1. /\ device \in Seq(Nat) /\ device # <<>> /\ device' = Tail(device) /\ mblk' = Head(device)
      /\ mpc' = "put" /\ UNCHANGED <<written, held, tail, queue, delivered, rpc, rblk>>
  BY Naturals DEF MainRead
<1>2. /\ Rising(device') /\ Blocks(device') \subseteq Blocks(device)
      /\ {Head(device)} \ {NullBlock} \subseteq Blocks(device)
      /\ Before({Head(device)} \ {NullBlock}, Blocks(device'))
  BY <1>1, TailRises DEF InOrder
<1>3. InMain' = {Head(device)} \ {NullBlock}  BY <1>1 DEF InMain, Putting
<1>4. UNCHANGED <<InDecoder, InReader>>  BY <1>1 DEF InDecoder, LastWrite, InReader
<1>5. Chain(Blocks(written'), InDecoder', InReader', Blocks(queue'), InMain', Blocks(device'), delivered')
  BY <1>1, <1>2, <1>3, <1>4, ChainReads DEF InOrder
<1> QED  BY <1>1, <1>2, <1>5 DEF InOrder

LEMMA PutsInOrder == ASSUME Types, InOrder, MainPut PROVE InOrder'
<1>1. /\ queue \in Seq(Nat) /\ mblk \in Nat /\ queue' = Append(queue, mblk) /\ ~Putting'
      /\ InMain = {mblk} \ {NullBlock}
      /\ UNCHANGED <<written, held, tail, device, delivered, rpc, rblk>>
  BY Naturals DEF MainPut, Putting, InMain, Types, MainTypes
<1>2. Before(Blocks(queue), {mblk} \ {NullBlock})  BY <1>1 DEF InOrder, Chain
<1>3. Rising(queue') /\ Blocks(queue') = Blocks(queue) \cup InMain
  BY <1>1, <1>2, AppendRises DEF InOrder
<1>4. InMain' = {} /\ UNCHANGED <<InDecoder, InReader>>
  BY <1>1 DEF InMain, InDecoder, LastWrite, InReader
<1>5. Chain(Blocks(written'), InDecoder', InReader', Blocks(queue'), InMain', Blocks(device'), delivered')
  BY <1>1, <1>3, <1>4, ChainEnqueues DEF InOrder
<1> QED  BY <1>1, <1>3, <1>5 DEF InOrder

LEMMA GetsInOrder == ASSUME Types, InOrder, ReaderGet PROVE InOrder'
<1>1. /\ queue \in Seq(Nat) /\ queue # <<>> /\ queue' = Tail(queue) /\ rblk' = Head(queue)
      /\ rpc # "done" /\ UNCHANGED <<written, held, tail, device, delivered, mpc, mblk>>
  BY Naturals DEF ReaderGet, Dequeued
<1>2. /\ Rising(queue') /\ Blocks(queue') \subseteq Blocks(queue)
      /\ {Head(queue)} \ {NullBlock} \subseteq Blocks(queue)
      /\ Before({Head(queue)} \ {NullBlock}, Blocks(queue'))
  BY <1>1, TailRises DEF InOrder
<1>3. InReader' \subseteq {Head(queue)} \ {NullBlock}  BY <1>1 DEF InReader
<1>4. UNCHANGED <<InDecoder, InMain>>  BY <1>1 DEF InDecoder, LastWrite, InMain, Putting
<1>5. Before(InReader', Blocks(queue')) /\ InReader' \subseteq Blocks(queue)
  BY <1>2, <1>3 DEF Before
<1>6. Chain(Blocks(written'), InDecoder', InReader', Blocks(queue'), InMain', Blocks(device'), delivered')
  BY <1>1, <1>2, <1>4, <1>5, ChainDequeues DEF InOrder
<1> QED  BY <1>1, <1>2, <1>6 DEF InOrder

\* What a working decoder makes of the next block keeps the order.
LEMMA DecodesInOrder ==
  ASSUME Types, InOrder, rpc = "write", NEW d \in DecodedRight
  PROVE  /\ d.out \in Seq(Nat) /\ Rising(d.out) /\ Rising(d.held)
         /\ Before(Blocks(d.out), Blocks(d.held))
         /\ Blocks(d.out) \subseteq Blocks(held) \cup InReader
         /\ Blocks(d.held) \subseteq Blocks(held) \cup InReader
         /\ ~UseB25 => d.held = <<>>
<1>1. InReader = {rblk} \ {NullBlock} /\ held \in Seq(Nat) /\ rblk \in Nat
  BY Naturals DEF InReader, Types, ReaderTypes
<1>2. d.out \in Seq(Nat)
  <2>1. d.out \in Seq(Serials) /\ Serials \subseteq Nat  BY RightType
  <2> QED  BY ONLY <2>1, SeqMonotonic
<1>3. CASE ~UseB25
  <2>1. d.out = <<rblk>> /\ d.held = <<>>  BY <1>3, RightType DEF InOrder
  <2>2. <<rblk>> = Append(<<>>, rblk) /\ <<>> \in Seq(Nat)  OBVIOUS
  <2>3. Before({}, InReader) /\ Before(InReader, {})  BY DEF Before
  <2>4. Rising(<<rblk>>) /\ Blocks(<<rblk>>) = InReader
    <3>1. Rising(Append(<<>>, rblk)) /\ Blocks(Append(<<>>, rblk)) = {} \cup InReader
      BY ONLY <1>1, <2>2, <2>3, EmptyRises, AppendRises
    <3> QED  BY ONLY <2>2, <3>1
  <2> QED  BY <1>2, <1>3, <2>1, <2>3, <2>4, EmptyRises
<1>4. CASE UseB25
  <2> DEFINE all == Append(held, rblk)
  <2>1. Len(all) = Len(held) + 1 /\ all \in Seq(Nat)
    <3>1. all \in Seq(Serials) /\ Serials \subseteq Nat /\ Len(all) = Len(held) + 1  BY RightType
    <3> QED  BY ONLY <3>1, SeqMonotonic
  <2>2. Rising(all) /\ Blocks(all) = Blocks(held) \cup InReader
    <3>1. Before(Blocks(held), InReader)  BY DEF InOrder, Chain, InDecoder, Before
    <3> QED  BY <1>1, <3>1, AppendRises DEF InOrder
  <2>3. PICK n \in 0 .. Len(held) + 1 :
          d.out = SubSeq(all, 1, n) /\ d.held = SubSeq(all, n + 1, Len(held) + 1)
    BY <1>4, RightType
  <2> HIDE DEF all
  <2>4. n \in 0 .. Len(all) /\ d.out = SubSeq(all, 1, n) /\ d.held = SubSeq(all, n + 1, Len(all))
    BY <2>1, <2>3
  <2>5. /\ Rising(d.out) /\ Rising(d.held) /\ Before(Blocks(d.out), Blocks(d.held))
        /\ Blocks(d.out) \subseteq Blocks(all) /\ Blocks(d.held) \subseteq Blocks(all)
    BY ONLY <2>1, <2>2, <2>4, CutRises
  <2> QED  BY <1>2, <1>4, <2>2, <2>5
<1> QED  BY <1>3, <1>4

LEMMA WritesInOrder ==
  ASSUME Types, ~Endless, ~failed', InOrder, ReaderWrite
  PROVE  InOrder'
<1>0. PICK d \in DecodedRight : \E s \in Splitted(d.out) :
        held' = d.held /\ written' \in {written, written \o s.out}
  BY DEF ReaderWrite, Log
<1>1. PICK s \in Splitted(d.out) : held' = d.held /\ written' \in {written, written \o s.out}
  BY <1>0
<1>2. rpc = "write" /\ rpc' = "test" /\ UNCHANGED <<tail, queue, device, delivered, mpc, mblk>>
  BY DEF ReaderWrite
<1>3. tail = <<>> /\ InDecoder = Blocks(held) /\ InDecoder' = Blocks(d.held)
  BY <1>1, <1>2, EmptyRises DEF InOrder, InDecoder, LastWrite
<1>4. /\ d.out \in Seq(Nat) /\ Rising(d.out) /\ Rising(d.held)
      /\ Before(Blocks(d.out), Blocks(d.held))
      /\ Blocks(d.out) \subseteq InDecoder \cup InReader
      /\ Blocks(d.held) \subseteq InDecoder \cup InReader
      /\ ~UseB25 => d.held = <<>>
  BY <1>2, <1>3, DecodesInOrder
<1>5. s.out \in Seq(Nat) /\ Rising(s.out) /\ Blocks(s.out) \subseteq Blocks(d.out)
  <2>1. s.out \in {d.out, <<>>}  BY SplittedType DEF Types, ReaderTypes
  <2>2. <<>> \in Seq(Nat)  OBVIOUS
  <2>3. Blocks(<<>>) \subseteq Blocks(d.out)  BY EmptyRises
  <2> QED  BY ONLY <1>4, <2>1, <2>2, <2>3, EmptyRises
<1>6. /\ Before(Blocks(written), Blocks(s.out)) /\ Before(Blocks(s.out), Blocks(d.held))
      /\ Blocks(s.out) \subseteq InDecoder \cup InReader
  BY <1>4, <1>5 DEF InOrder, Chain, Before
<1>7. Rising(written') /\ Blocks(written') \subseteq Blocks(written) \cup Blocks(s.out)
  <2>1. CASE written' = written  BY <2>1 DEF InOrder
  <2>2. CASE written' = written \o s.out
    BY <1>5, <1>6, <2>2, Naturals, ConcatRises DEF InOrder
  <2> QED  BY <1>1, <2>1, <2>2
<1>8. Chain(Blocks(written) \cup Blocks(s.out), Blocks(d.held), {}, Blocks(queue), InMain,
            Blocks(device), delivered)
  BY <1>4, <1>6, ChainWrites DEF InOrder
<1>9. InReader' = {} /\ InMain' = InMain  BY <1>2 DEF InReader, InMain, Putting
<1>10. Chain(Blocks(written'), InDecoder', InReader', Blocks(queue'), InMain', Blocks(device'), delivered')
  BY <1>2, <1>3, <1>7, <1>8, <1>9, ChainShrinks
<1> QED  BY <1>1, <1>2, <1>3, <1>4, <1>7, <1>10 DEF InOrder

LEMMA FinishesInOrder ==
  ASSUME Types, ~Endless, ~failed', InOrder, ReaderFinish
  PROVE  InOrder'
<1>1. PICK out \in FlushedRight : tail' \in {tail, <<>>, <<>> \o out}  BY DEF ReaderFinish, Log
<1>2. /\ rpc = "finish" /\ rpc' = "done" /\ held' = <<>>
      /\ UNCHANGED <<written, queue, device, delivered, mpc, mblk>>
  BY DEF ReaderFinish
<1>3. tail = <<>> /\ InDecoder = Blocks(held)
  BY <1>2, EmptyRises DEF InOrder, InDecoder, LastWrite
<1>4. UseB25 => Rising(tail') /\ Blocks(tail') \subseteq Blocks(held)
  <2> SUFFICES ASSUME UseB25 PROVE Rising(tail') /\ Blocks(tail') \subseteq Blocks(held)
    OBVIOUS
  <2>1. out \in {<<>>, held}  BY FlushedType DEF Types, Flushed
  <2>2. out \in Seq(Nat) /\ Rising(out) /\ Blocks(out) \subseteq Blocks(held)
    <3>1. held \in Seq(Nat) /\ <<>> \in Seq(Nat)  BY Naturals
    <3>2. Rising(held) /\ Rising(<<>>) /\ Blocks(<<>>) = {}  BY EmptyRises DEF InOrder
    <3> QED  BY ONLY <2>1, <3>1, <3>2
  <2>3. Before({}, Blocks(out)) /\ <<>> \in Seq(Nat)  BY DEF Before
  <2>4. Rising(<<>> \o out) /\ Blocks(<<>> \o out) \subseteq Blocks(out)
    BY <2>2, <2>3, ConcatRises, EmptyRises
  <2> QED  BY <1>1, <1>3, <2>2, <2>4, EmptyRises
<1>5. InDecoder' \subseteq InDecoder  BY <1>2, <1>3, <1>4, EmptyRises DEF InDecoder, LastWrite
<1>6. InReader' = {} /\ InMain' = InMain  BY <1>2 DEF InReader, InMain, Putting
<1>7. Chain(Blocks(written'), InDecoder', InReader', Blocks(queue'), InMain', Blocks(device'), delivered')
  BY <1>2, <1>5, <1>6, ChainShrinks DEF InOrder
<1> QED  BY <1>2, <1>4, <1>7, EmptyRises DEF InOrder

LEMMA OthersInOrder ==
  ASSUME InOrder, [Next]_vars,
         ~(TunerDelivers \/ MainRead \/ MainPut \/ ReaderGet \/ ReaderWrite \/ ReaderFinish)
  PROVE  InOrder'
<1> DEFINE Kept == UNCHANGED <<written, held, queue, delivered, device, tail>>
<1>1. CASE MainStart
  <2>1. Kept /\ UNCHANGED <<mblk, rblk>> /\ mpc = "start" /\ mpc' \in {"clock", "exited"} /\ rpc' \in {rpc, "done"}
    BY <1>1 DEF MainStart
  <2>2. InMain' \subseteq InMain /\ InReader' \subseteq InReader
    BY <2>1 DEF InMain, InReader, Putting
  <2> QED  BY <2>1, <2>2, Loses
<1>2. CASE MainClock \/ MainLoop \/ MainNoMemory \/ MainReadNothing \/ MainQuit \/ MainSentinel
           \/ MainPutWait \/ MainPutWake \/ MainDue \/ MainStop \/ MainRemoveMessages \/ MainKill
  <2>1. Kept /\ UNCHANGED <<rpc, rblk>>
    BY <1>2 DEF MainClock, MainLoop, MainNoMemory, MainReadNothing, MainQuit, MainSentinel,
       MainPutWait, MainPutWake, MainDue, MainStop, StopAction, MainRemoveMessages, MainKill
  <2>2. mblk' \in {mblk, NullBlock} /\ (Putting' => Putting \/ mblk' = NullBlock)
    <3>1. CASE MainClock \/ MainLoop \/ MainNoMemory \/ MainReadNothing \/ MainQuit \/ MainSentinel
      BY <3>1 DEF MainClock, MainLoop, MainNoMemory, MainReadNothing, MainQuit, MainSentinel, Putting
    <3>2. CASE MainPutWait \/ MainPutWake \/ MainDue \/ MainStop \/ MainRemoveMessages \/ MainKill
      BY <3>2 DEF MainPutWait, MainPutWake, MainDue, MainStop, StopAction, MainRemoveMessages,
         MainKill, Putting
    <3> QED  BY <1>2, <3>1, <3>2
  <2>3. InMain' \subseteq InMain /\ InReader' \subseteq InReader
    BY <2>1, <2>2 DEF InMain, InReader
  <2> QED  BY <2>1, <2>3, Loses
<1>3. CASE MainJoin \/ Ipc
  <2>1. /\ UNCHANGED <<written, held, queue, delivered, tail, rpc, rblk, mblk>>
        /\ device' \in {device, <<>>} /\ mpc' \in {mpc, "done"}
    BY <1>3 DEF MainJoin, CloseTuner, Ipc, IpcWork, IpcReceive, IpcNoQueue, IpcStop, IpcPoll,
       IpcSetChannel, IpcClose, IpcTune, IpcRestart, IpcExtend, IpcLimit
  <2>2. InMain' \subseteq InMain /\ InReader' \subseteq InReader
    BY <2>1 DEF InMain, InReader, Putting
  <2> QED  BY <2>1, <2>2, Loses
<1>4. CASE ReaderGetWait \/ ReaderGetWake \/ ReaderTest
  <2>1. Kept /\ UNCHANGED <<mblk, mpc>> /\ rpc' # "write" /\ rpc # "done"
    BY <1>4 DEF ReaderGetWait, ReaderGetWake, GetRetry, ReaderTest
  <2>2. InMain' \subseteq InMain /\ InReader' \subseteq InReader
    BY <2>1 DEF InMain, InReader, Putting
  <2> QED  BY <2>1, <2>2, Loses
<1>5. CASE SignalThread \/ UserSignals \/ Tick \/ UNCHANGED vars
  <2>1. Kept /\ UNCHANGED <<mblk, mpc, rblk, rpc>>
    BY <1>5 DEF SignalThread, SignalWait, SignalStop, SignalExit, ExitAction, UserSignals, Tick, vars
  <2>2. InMain' \subseteq InMain /\ InReader' \subseteq InReader
    BY <2>1 DEF InMain, InReader, Putting
  <2> QED  BY <2>1, <2>2, Loses
<1> QED  BY <1>1, <1>2, <1>3, <1>4, <1>5 DEF Next, Main, Reader

\* Blocks that are all alike are not logged.
LEMMA EndlessLogs ==
  ASSUME Endless, written = <<>>, tail = <<>>, [Next]_vars
  PROVE  written' = <<>> /\ tail' = <<>>
<1>1. CASE ReaderWrite
  <2>1. written' = written /\ tail' = tail  BY <1>1 DEF ReaderWrite, Log
  <2> QED  BY <2>1
<1>2. CASE ReaderFinish
  <2>1. written' = written /\ tail' \in {tail, <<>>}  BY <1>2 DEF ReaderFinish, Log
  <2> QED  BY <2>1
<1>3. CASE Main
  BY <1>3 DEF Main, MainStart, MainClock, MainLoop, MainNoMemory, MainRead, MainReadNothing,
     MainQuit, MainSentinel, MainPut, MainPutWait, MainPutWake, MainDue, MainStop, StopAction,
     MainRemoveMessages, MainKill, MainJoin
<1>4. CASE ReaderGet \/ ReaderGetWait \/ ReaderGetWake \/ ReaderTest
  BY <1>4 DEF ReaderGet, ReaderGetWait, ReaderGetWake, ReaderTest
<1>5. CASE Ipc \/ SignalThread \/ TunerDelivers \/ UserSignals \/ Tick \/ UNCHANGED vars
  BY <1>5 DEF Ipc, IpcWork, IpcReceive, IpcNoQueue, IpcStop, IpcPoll, IpcSetChannel, IpcClose,
     IpcTune, IpcRestart, IpcExtend, IpcLimit, SignalThread, SignalWait, SignalStop, SignalExit,
     ExitAction, TunerDelivers, UserSignals, Tick, vars
<1> QED  BY <1>1, <1>2, <1>3, <1>4, <1>5 DEF Next, Reader

\* The decoder's failures are not forgotten.
LEMMA FailedStays == ASSUME Types, [Next]_vars, failed PROVE failed'
<1>1. CASE ReaderWrite \/ ReaderFinish
  BY <1>1 DEF ReaderWrite, ReaderFinish
<1>2. CASE Main
  BY <1>2 DEF Main, MainStart, MainClock, MainLoop, MainNoMemory, MainRead, MainReadNothing,
     MainQuit, MainSentinel, MainPut, MainPutWait, MainPutWake, MainDue, MainStop, StopAction,
     MainRemoveMessages, MainKill, MainJoin
<1>3. CASE ReaderGet \/ ReaderGetWait \/ ReaderGetWake \/ ReaderTest
  BY <1>3 DEF ReaderGet, ReaderGetWait, ReaderGetWake, ReaderTest
<1>4. CASE Ipc \/ SignalThread \/ TunerDelivers \/ UserSignals \/ Tick \/ UNCHANGED vars
  BY <1>4 DEF Ipc, IpcWork, IpcReceive, IpcNoQueue, IpcStop, IpcPoll, IpcSetChannel, IpcClose,
     IpcTune, IpcRestart, IpcExtend, IpcLimit, SignalThread, SignalWait, SignalStop, SignalExit,
     ExitAction, TunerDelivers, UserSignals, Tick, vars
<1> QED  BY <1>1, <1>2, <1>3, <1>4 DEF Next, Reader

LEMMA StepOrder == Types /\ Order /\ [Next]_vars => Order'
<1> SUFFICES ASSUME Types, Order, [Next]_vars, ~failed, ~failed' PROVE Order'
  BY FailedStays DEF Order
<1>1. CASE Endless  BY <1>1, EndlessLogs DEF Order
<1>2. CASE ~Endless
  <2>1. InOrder'
    BY <1>2, DeliversInOrder, ReadsInOrder, PutsInOrder, GetsInOrder, WritesInOrder,
       FinishesInOrder, OthersInOrder DEF Order
  <2> QED  BY <1>2, <2>1 DEF Order
<1> QED  BY <1>1, <1>2

LEMMA OrderHolds == Spec => []Order
  BY InitOrder, StepOrder, TypesHold, PTL DEF Spec

\* What the reader's loop writes is in the order of the tuner and holds nothing twice, with
\* or without decoder and splitter, whatever happens to the queue, the tuner, the outputs
\* and the memory, as long as no call of the decoder fails and shows it: a block that a
\* failed get returns as it came is written again when the decoder returns it.
THEOREM WrittenInOrder ==
  Spec => [](~failed => \A i, j \in DOMAIN written : i < j => written[i] < written[j])
<1> DEFINE Ascending == ~failed => \A i, j \in DOMAIN written : i < j => written[i] < written[j]
<1>1. Types /\ Order => Ascending
  <2> SUFFICES ASSUME Types, Order, ~failed
               PROVE  \A i, j \in DOMAIN written : i < j => written[i] < written[j]
    OBVIOUS
  <2>1. written \in Seq(Serials)  BY DEF Types, ReaderTypes
  <2>2. DOMAIN written = 1 .. Len(written) /\ \A i \in 1 .. Len(written) : written[i] \in Serials
    BY ONLY <2>1, ElementOfSeq, LenProperties
  <2>3. Rising(written)  BY EmptyRises DEF Order, InOrder
  <2> QED  BY <2>2, <2>3 DEF Rising
<1>2. Spec => []Ascending
  <2> HIDE DEF Ascending
  <2> QED  BY <1>1, TypesHold, OrderHolds, PTL
<1> QED  BY <1>2

\* With the decoder in use the last write, of what the decoder still held, goes on where
\* the loop stopped: nothing is in the file twice, out of order or from nowhere, as long as
\* no call of the decoder fails and shows it (NothingTwice).  After a failed flush or get
\* the last write is of the block that has been freed, as it is without a decoder.
THEOREM FileInOrder == UseB25 => (Spec => []NothingTwice)
<1> SUFFICES ASSUME UseB25 PROVE Spec => []NothingTwice
  OBVIOUS
<1>1. Types /\ Order => NothingTwice
  <2> SUFFICES ASSUME Types, Order, ~failed
               PROVE  /\ \A i \in DOMAIN Output : Output[i] # Garbage
                      /\ \A i, j \in DOMAIN Output : i < j => Output[i] < Output[j]
    BY DEF NothingTwice
  <2>1. written \in Seq(Serials) /\ tail \in Seq(Serials)
    BY DEF Types, ReaderTypes, FailedTypes
  <2>2. Output \in Seq(Serials)  BY <2>1, ConcatProperties DEF Output
  <2>3. Rising(Output)
    <3>1. CASE Endless
      <4>1. written = <<>> /\ tail = <<>>  BY <3>1 DEF Order
      <4>2. Output = <<>>  BY ONLY <4>1, <2>1, ConcatEmptySeq DEF Output
      <4> QED  BY <4>2, EmptyRises
    <3>2. CASE ~Endless
      <4>1. Before(Blocks(written), Blocks(tail)) /\ Rising(written) /\ Rising(tail)
        BY <3>2 DEF Order, InOrder, Chain, InDecoder, LastWrite, Before
      <4> QED  BY <4>1, Naturals, ConcatRises DEF Output
    <3> QED  BY <3>1, <3>2
  <2>4. /\ DOMAIN Output = 1 .. Len(Output)
        /\ \A i \in 1 .. Len(Output) : Output[i] \in Serials
    BY ONLY <2>2, ElementOfSeq, LenProperties
  <2> QED  BY <2>3, <2>4 DEF Rising
<1> QED  BY <1>1, TypesHold, OrderHolds, PTL
-----------------------------------------------------------------------------
(* The recording has no hole, as long as nothing raises the exit flag while    *)
(* main is still enqueueing: a full queue then loses the block.  The splitter  *)
(* makes holes on purpose.                                                    *)

Undisturbed ==
  /\ ~MaySignal /\ ~MayGiveUp
  /\ MayWriteFail => ~UseUdp
  /\ \A m \in Messages : m.t = 0
Steady == Undisturbed /\ ~UseSplitter /\ ~(UseB25 /\ MayDecodeFail)

\* main enqueues no block any more.
Late ==
  \/ mpc \in {"sentinel", "rmid", "kill", "join", "done", "exited"}
  \/ Putting /\ mnext = "rmid"

ExitLate ==
  /\ f_exit => Late \/ rerr
  /\ signalled \/ spc # "wait" => mpc \in {"join", "done", "exited"} \/ rerr
  /\ rerr => rpc \in {"test", "finish", "done"}
  /\ msg.t = 0
SplitterOff == UseSplitter \/ split = "off"

\* The sentinel is the last thing in the queue.
Sentinel ==
  \A i \in 1 .. Len(queue) :
    queue[i] = NullBlock => i = Len(queue) /\ mpc \in {"rmid", "kill", "join", "done"}

\* What was taken from the tuner is in the file, in the decoder, with the reader, in the
\* queue or with main, in this order.
Passed   == Len(written) + Len(held)
AtReader == IF rpc = "write" THEN 1 ELSE 0
Queued   == IF Len(queue) > 0 /\ queue[Len(queue)] = NullBlock THEN Len(queue) - 1 ELSE Len(queue)
AtMain   == IF Putting /\ mblk # NullBlock THEN 1 ELSE 0
Whole ==
  /\ Len(taken) = Passed + AtReader + Queued + AtMain
  /\ \A i \in 1 .. Len(held) : held[i] = taken[Len(written) + i]
  /\ AtReader = 1 => rblk = taken[Passed + 1]
  /\ \A i \in 1 .. Queued : queue[i] = taken[Passed + AtReader + i]
  /\ AtMain = 1 => mblk = taken[Len(taken)]
Prefix == Len(written) <= Len(taken) /\ \A i \in 1 .. Len(written) : written[i] = taken[i]
NoLoss == Prefix /\ (rpc = "done" \/ rerr \/ Whole)

LEMMA InitHole == Init => Sentinel /\ NoLoss /\ ExitLate /\ SplitterOff
<1> SUFFICES ASSUME Init PROVE Sentinel /\ NoLoss /\ ExitLate /\ SplitterOff
  OBVIOUS
<1>1. /\ queue = <<>> /\ taken = <<>> /\ written = <<>> /\ held = <<>>
      /\ rpc = "get" /\ mpc = "start"
  BY DEF Init
<1>2. Sentinel  BY <1>1 DEF Sentinel
<1>3. NoLoss  BY <1>1 DEF NoLoss, Prefix, Whole, Passed, AtReader, Queued, AtMain, Putting
<1>4. ExitLate /\ SplitterOff  BY DEF Init, ExitLate, SplitterOff
<1> QED  BY <1>2, <1>3, <1>4

\* A queue that does not change, and a main that does not come back.
LEMMA SentinelStays ==
  ASSUME Sentinel, UNCHANGED queue,
         mpc \in {"rmid", "kill", "join", "done"} => mpc' \in {"rmid", "kill", "join", "done"}
  PROVE  Sentinel'
  BY DEF Sentinel

LEMMA StepSentinel == Types /\ Sentinel /\ [Next]_vars => Sentinel'
<1> SUFFICES ASSUME Types, Sentinel, [Next]_vars PROVE Sentinel'
  OBVIOUS
<1>0. /\ queue \in Seq(Serials \cup {NullBlock}) /\ mblk \in Serials \cup {NullBlock}
      /\ Putting => (mblk = NullBlock <=> mnext = "rmid")
  BY DEF Types, SharedTypes, MainTypes
<1>1. CASE MainPut
  <2>1. queue' = Append(queue, mblk) /\ mpc = "put" /\ mpc' = mnext  BY <1>1 DEF MainPut
  <2>2. /\ Len(queue) \in Nat /\ Len(queue') = Len(queue) + 1 /\ queue'[Len(queue) + 1] = mblk
        /\ \A i \in 1 .. Len(queue) : queue'[i] = queue[i]
    BY <1>0, <2>1, AppendProperties
  <2>3. \A i \in 1 .. Len(queue) : queue[i] # NullBlock  BY <2>1 DEF Sentinel
  <2>4. \A i \in 1 .. Len(queue') : queue'[i] = NullBlock => i = Len(queue) + 1 /\ mblk = NullBlock
    BY <2>2, <2>3
  <2> QED  BY <1>0, <2>1, <2>2, <2>4 DEF Sentinel, Putting
<1>2. CASE ReaderGet
  <2>1. queue # <<>> /\ queue' = Tail(queue) /\ mpc' = mpc  BY <1>2 DEF ReaderGet, Dequeued
  <2>2. /\ Len(queue) \in Nat \ {0} /\ Len(queue') = Len(queue) - 1
        /\ \A i \in 1 .. Len(queue') : queue'[i] = queue[i + 1]
    BY <1>0, <2>1, HeadTailProperties
  <2>3. \A i \in 1 .. Len(queue') : i + 1 \in 1 .. Len(queue) /\ queue'[i] = queue[i + 1]
    BY <2>2
  <2> SUFFICES ASSUME NEW i \in 1 .. Len(queue'), queue'[i] = NullBlock
               PROVE  i = Len(queue') /\ mpc' \in {"rmid", "kill", "join", "done"}
    BY DEF Sentinel
  <2>4. i + 1 = Len(queue) /\ mpc \in {"rmid", "kill", "join", "done"}  BY <2>3 DEF Sentinel
  <2>5. i = Len(queue')
    <3>1. Len(queue) \in Nat \ {0} /\ Len(queue') = Len(queue) - 1 /\ i \in 1 .. Len(queue')
      BY <2>2
    <3> QED  BY ONLY <2>4, <3>1
  <2> QED  BY <2>1, <2>4, <2>5
<1>3. CASE Main /\ ~MainPut
  <2>1. UNCHANGED queue
    BY <1>3 DEF Main, MainStart, MainClock, MainLoop, MainNoMemory, MainRead, MainReadNothing,
       MainQuit, MainSentinel, MainPutWait, MainPutWake, MainDue, MainStop, StopAction,
       MainRemoveMessages, MainKill, MainJoin
  <2>2. mpc \in {"rmid", "kill", "join", "done"} => mpc' \in {"rmid", "kill", "join", "done"}
    BY <1>3 DEF Main, MainStart, MainClock, MainLoop, MainNoMemory, MainRead, MainReadNothing,
       MainQuit, MainSentinel, MainPutWait, MainPutWake, MainDue, MainStop, StopAction,
       MainRemoveMessages, MainKill, MainJoin
  <2> QED  BY <2>1, <2>2, SentinelStays
<1>4. CASE ReaderGetWait \/ ReaderGetWake \/ ReaderWrite \/ ReaderTest \/ ReaderFinish
           \/ Ipc \/ SignalThread \/ TunerDelivers \/ UserSignals \/ Tick \/ UNCHANGED vars
  <2>1. UNCHANGED <<queue, mpc>>
    BY <1>4 DEF ReaderGetWait, ReaderGetWake, ReaderWrite, ReaderTest, ReaderFinish, Ipc, IpcWork,
       IpcReceive, IpcNoQueue, IpcStop, IpcPoll, IpcSetChannel, IpcClose, IpcTune, IpcRestart,
       IpcExtend, IpcLimit, SignalThread, SignalWait, SignalStop, SignalExit, ExitAction,
       TunerDelivers, UserSignals, Tick, vars
  <2> QED  BY <2>1, SentinelStays
<1> QED  BY <1>1, <1>2, <1>3, <1>4 DEF Next, Reader

\* Once main enqueues no block any more it never will.
LEMMA LateStays == ASSUME Types, Main, Late PROVE Late'
<1> USE DEF Late, Putting
<1>0. Putting => (mblk = NullBlock <=> mnext = "rmid")  BY DEF Types, MainTypes
<1>1. CASE MainStart \/ MainClock \/ MainLoop \/ MainNoMemory \/ MainRead \/ MainReadNothing
           \/ MainQuit \/ MainSentinel
  BY <1>1 DEF MainStart, MainClock, MainLoop, MainNoMemory, MainRead, MainReadNothing, MainQuit,
     MainSentinel
<1>2. CASE MainPut \/ MainPutWait \/ MainPutWake
  BY <1>2 DEF MainPut, MainPutWait, MainPutWake, PutRetry
<1>3. CASE MainDue \/ MainStop \/ MainRemoveMessages \/ MainKill \/ MainJoin
  BY <1>3 DEF MainDue, MainStop, StopAction, MainRemoveMessages, MainKill, MainJoin
<1> QED  BY <1>1, <1>2, <1>3 DEF Main

LEMMA StepExitLate == ASSUME Undisturbed, Types, ExitLate, [Next]_vars PROVE ExitLate'
<1> USE DEF Late, Putting
<1>0. Putting => (mblk = NullBlock <=> mnext = "rmid")  BY DEF Types, MainTypes
<1>1. CASE Main
  <2>1. UNCHANGED rerr /\ msg' = msg
    BY <1>1 DEF Main, MainStart, MainClock, MainLoop, MainNoMemory, MainRead, MainReadNothing,
       MainQuit, MainSentinel, MainPut, MainPutWait, MainPutWake, MainDue, MainStop, StopAction,
       MainRemoveMessages, MainKill, MainJoin
  <2>2. rpc' \in {rpc, "done"}
    BY <1>1 DEF Main, MainStart, MainClock, MainLoop, MainNoMemory, MainRead, MainReadNothing,
       MainQuit, MainSentinel, MainPut, MainPutWait, MainPutWake, MainDue, MainStop, StopAction,
       MainRemoveMessages, MainKill, MainJoin
  <2>3. Late => Late'  BY <1>1, LateStays
  <2>4. f_exit' => f_exit \/ Late'
    <3>1. CASE MainNoMemory \/ MainQuit  BY <3>1 DEF MainNoMemory, MainQuit
    <3>2. CASE MainPutWake  BY <3>2 DEF MainPutWake, Undisturbed
    <3>3. CASE Main /\ ~MainNoMemory /\ ~MainQuit /\ ~MainPutWake
      BY <3>3 DEF Main, MainStart, MainClock, MainLoop, MainRead, MainReadNothing, MainSentinel,
         MainPut, MainPutWait, MainDue, MainStop, StopAction, MainRemoveMessages, MainKill, MainJoin
    <3> QED  BY <1>1, <3>1, <3>2, <3>3
  <2>5. signalled' \/ spc' # "wait" => (signalled \/ spc # "wait") \/ mpc' \in {"join", "exited"}
    BY <1>1 DEF Main, MainStart, MainClock, MainLoop, MainNoMemory, MainRead, MainReadNothing,
       MainQuit, MainSentinel, MainPut, MainPutWait, MainPutWake, MainDue, MainStop, StopAction,
       MainRemoveMessages, MainKill, MainJoin
  <2>6. mpc \in {"join", "done", "exited"} => mpc' \in {"join", "done", "exited"}
    BY <1>1 DEF Main, MainStart, MainClock, MainLoop, MainNoMemory, MainRead, MainReadNothing,
       MainQuit, MainSentinel, MainPut, MainPutWait, MainPutWake, MainDue, MainStop, StopAction,
       MainRemoveMessages, MainKill, MainJoin
  <2> QED  BY <2>1, <2>2, <2>3, <2>4, <2>5, <2>6 DEF ExitLate
<1>2. CASE Reader
  <2>1. UNCHANGED <<mpc, mnext, mblk, msg, spc>>
    BY <1>2 DEF Reader, ReaderGet, ReaderGetWait, ReaderGetWake, ReaderWrite, ReaderTest, ReaderFinish
  <2>3. f_exit' => f_exit
    BY <1>2 DEF Reader, ReaderGet, ReaderGetWait, ReaderGetWake, ReaderWrite, ReaderTest,
       ReaderFinish, Undisturbed
  <2>4. (signalled' => signalled \/ rerr') /\ (rerr => rerr')
    <3>1. CASE ReaderWrite
      <4>0. /\ \/ UNCHANGED <<rerr, signalled>>
               \/ rerr' = TRUE /\ signalled' = TRUE
               \/ MayWriteFail /\ UseUdp
        BY <3>1 DEF ReaderWrite
      <4> QED  BY <4>0 DEF Undisturbed
    <3>2. CASE ReaderFinish
      <4>0. UNCHANGED <<rerr, signalled>> \/ (rerr' = TRUE /\ signalled' = TRUE)
        BY <3>2 DEF ReaderFinish
      <4> QED  BY <4>0
    <3>3. CASE ReaderGet \/ ReaderGetWait \/ ReaderGetWake \/ ReaderTest
      <4>0. UNCHANGED <<rerr, signalled>>
        BY <3>3 DEF ReaderGet, ReaderGetWait, ReaderGetWake, ReaderTest
      <4> QED  BY <4>0
    <3> QED  BY <1>2, <3>1, <3>2, <3>3 DEF Reader
  <2>5. rerr' => rpc' \in {"test", "finish", "done"}
    BY <1>2 DEF Reader, ReaderGet, ReaderGetWait, ReaderGetWake, ReaderWrite, ReaderTest,
       ReaderFinish, ExitLate
  <2> QED  BY <2>1, <2>3, <2>4, <2>5 DEF ExitLate
<1>3. CASE Ipc
  <2>1. UNCHANGED <<mpc, mnext, rerr, signalled, spc, rpc>>
    BY <1>3 DEF Ipc, IpcWork, IpcReceive, IpcNoQueue, IpcStop, IpcPoll, IpcSetChannel, IpcClose,
       IpcTune, IpcRestart, IpcExtend, IpcLimit
  <2>2. msg'.t = 0 /\ (f_exit' => f_exit)
    BY <1>3 DEF Ipc, IpcWork, IpcReceive, IpcNoQueue, IpcStop, IpcPoll, IpcSetChannel, IpcClose,
       IpcTune, IpcRestart, IpcExtend, IpcLimit, Undisturbed, ExitLate
  <2> QED  BY <2>1, <2>2 DEF ExitLate
<1>4. CASE SignalThread
  BY <1>4 DEF SignalThread, SignalWait, SignalStop, SignalExit, ExitAction, ExitLate
<1>5. CASE TunerDelivers \/ UserSignals \/ Tick \/ UNCHANGED vars
  BY <1>5 DEF TunerDelivers, UserSignals, Tick, vars, Undisturbed, ExitLate
<1> QED  BY <1>1, <1>2, <1>3, <1>4, <1>5 DEF Next

LEMMA StepSplitterOff == ASSUME SplitterOff, Types, [Next]_vars PROVE SplitterOff'
<1>1. CASE ReaderWrite
  <2>0. PICK d \in Decoded : \E s \in Splitted(d.out) : split' = s.split
    BY <1>1 DEF ReaderWrite
  <2>1. PICK s \in Splitted(d.out) : split' = s.split  BY <2>0
  <2> QED  BY <2>1, SplittedType DEF SplitterOff, Types, ReaderTypes
<1>2. CASE [Next]_vars /\ ~ReaderWrite
  <2>1. UNCHANGED split
    BY <1>2 DEF Next, Main, MainStart, MainClock, MainLoop, MainNoMemory, MainRead,
       MainReadNothing, MainQuit, MainSentinel, MainPut, MainPutWait, MainPutWake, MainDue,
       MainStop, StopAction, MainRemoveMessages, MainKill, MainJoin, Reader, ReaderGet,
       ReaderGetWait, ReaderGetWake, ReaderTest, ReaderFinish, Ipc, IpcWork, IpcReceive,
       IpcNoQueue, IpcStop, IpcPoll, IpcSetChannel, IpcClose, IpcTune, IpcRestart, IpcExtend,
       IpcLimit, SignalThread, SignalWait, SignalStop, SignalExit, ExitAction, TunerDelivers,
       UserSignals, Tick, vars
  <2> QED  BY <2>1 DEF SplitterOff
<1> QED  BY <1>1, <1>2

\* Appending one block.
LEMMA OneMore ==
  ASSUME NEW S, NEW s \in Seq(S), NEW e \in S, NEW t, t \in {Append(s, e), s \o <<e>>}
  PROVE  /\ Len(s) \in Nat /\ Len(t) = Len(s) + 1 /\ t[Len(s) + 1] = e
         /\ \A i \in 1 .. Len(s) : t[i] = s[i]
<1>1. Len(s) \in Nat  OBVIOUS
<1>2. CASE t = Append(s, e)
  <2> QED  BY ONLY <1>1, <1>2, e \in S, s \in Seq(S), AppendProperties
<1>3. CASE t = s \o <<e>>
  <2>1. <<e>> \in Seq(S) /\ Len(<<e>>) = 1 /\ <<e>>[1] = e  BY Single
  <2>2. /\ Len(s \o <<e>>) = Len(s) + Len(<<e>>)
        /\ \A i \in 1 .. Len(s) + Len(<<e>>) :
             (s \o <<e>>)[i] = IF i <= Len(s) THEN s[i] ELSE <<e>>[i - Len(s)]
    BY ONLY <2>1, s \in Seq(S), ConcatProperties
  <2>3. /\ Len(t) = Len(s) + 1
        /\ \A i \in 1 .. Len(s) + 1 : t[i] = IF i <= Len(s) THEN s[i] ELSE <<e>>[i - Len(s)]
    BY ONLY <1>3, <2>1, <2>2
  <2>4. \A i \in 1 .. Len(s) : t[i] = s[i]  BY ONLY <1>1, <2>3
  <2>5. t[Len(s) + 1] = <<e>>[1]
    <3>1. Len(s) + 1 \in 1 .. Len(s) + 1 /\ ~(Len(s) + 1 <= Len(s)) /\ Len(s) + 1 - Len(s) = 1
      BY ONLY <1>1
    <3> QED  BY ONLY <2>3, <3>1
  <2> QED  BY ONLY <1>1, <2>1, <2>3, <2>4, <2>5
<1> QED  BY <1>2, <1>3

\* How many blocks are where.
LEMMA Counts ==
  ASSUME Types
  PROVE  /\ Len(written) \in Nat /\ Len(held) \in Nat /\ Len(queue) \in Nat /\ Len(taken) \in Nat
         /\ Passed \in Nat /\ AtReader \in {0, 1} /\ AtMain \in {0, 1} /\ Queued \in Nat
         /\ Queued <= Len(queue)
<1>1. Len(written) \in Nat /\ Len(held) \in Nat /\ Len(queue) \in Nat /\ Len(taken) \in Nat
  BY DEF Types, ReaderTypes, SharedTypes, MainTypes
<1> QED  BY <1>1 DEF Passed, AtReader, AtMain, Queued

\* Steps that move no block keep everything in its place,
LEMMA Keeps ==
  ASSUME NoLoss, UNCHANGED <<written, held, queue, taken, AtReader, AtMain>>,
         AtReader = 1 => rblk' = rblk, AtMain = 1 => mblk' = mblk,
         rerr => rerr', rpc = "done" => rpc' = "done"
  PROVE  NoLoss'
<1>1. Prefix'  BY DEF NoLoss, Prefix
<1>2. ASSUME Whole PROVE Whole'
  <2>1. UNCHANGED <<Passed, Queued>>  BY DEF Passed, Queued
  <2> QED  BY <1>2, <2>1 DEF Whole
<1> QED  BY <1>1, <1>2 DEF NoLoss

\* and once the reader has left its loop nothing matters any more.
LEMMA Leaves ==
  ASSUME NoLoss, UNCHANGED <<written, taken>>, rpc' = "done" \/ rerr'
  PROVE  NoLoss'
  BY DEF NoLoss, Prefix

LEMMA ReadsWhole == ASSUME Types, ~Endless, NoLoss, MainRead PROVE NoLoss'
<1>1. /\ device \in Seq(Serials) /\ device # <<>> /\ taken \in Seq(Serials)
      /\ taken' = taken \o <<Head(device)>> /\ mblk' = Head(device)
      /\ ~Putting /\ Putting'
      /\ UNCHANGED <<written, held, queue, rpc, rblk, rerr>>
  BY DEF MainRead, Log, Putting, Types, MainTypes, SharedTypes
<1>2. Head(device) \in Serials  BY ONLY <1>1, HeadTailProperties
<1>3. /\ Len(taken) \in Nat /\ Len(taken') = Len(taken) + 1 /\ taken'[Len(taken) + 1] = mblk'
      /\ \A i \in 1 .. Len(taken) : taken'[i] = taken[i]
  BY ONLY <1>1, <1>2, OneMore
<1>4. AtMain = 0 /\ AtMain' = 1  BY <1>1, <1>2 DEF AtMain
<1>5. UNCHANGED <<Passed, AtReader, Queued>>  BY <1>1 DEF Passed, AtReader, Queued
<1>6. Prefix'  BY <1>1, <1>3, Counts DEF NoLoss, Prefix
<1>7. ASSUME Whole PROVE Whole'
  <2>1. Len(taken) = Passed + AtReader + Queued /\ Passed = Len(written) + Len(held)
    BY <1>4, <1>7, Counts DEF Whole, Passed
  <2>2. Len(taken') = Passed' + AtReader' + Queued' + AtMain'  BY <1>3, <1>4, <1>5, <2>1, Counts
  <2>3. \A i \in 1 .. Len(held') : held'[i] = taken'[Len(written') + i]
    <3>1. \A i \in 1 .. Len(held) : Len(written) + i \in 1 .. Len(taken)  BY <2>1, Counts
    <3> QED  BY <1>1, <1>3, <1>7, <3>1 DEF Whole
  <2>4. AtReader' = 1 => rblk' = taken'[Passed' + 1]
    <3>1. AtReader = 1 => Passed + 1 \in 1 .. Len(taken)  BY <2>1, Counts
    <3> QED  BY <1>1, <1>3, <1>5, <1>7, <3>1 DEF Whole
  <2>5. \A i \in 1 .. Queued' : queue'[i] = taken'[Passed' + AtReader' + i]
    <3>1. \A i \in 1 .. Queued : Passed + AtReader + i \in 1 .. Len(taken)  BY <2>1, Counts
    <3> QED  BY <1>1, <1>3, <1>5, <1>7, <3>1 DEF Whole
  <2>6. mblk' = taken'[Len(taken')]  BY <1>3
  <2> QED  BY <2>2, <2>3, <2>4, <2>5, <2>6 DEF Whole
<1> QED  BY <1>1, <1>6, <1>7 DEF NoLoss

\* Only blocks count in the queue, not the sentinel.
LEMMA PutCounts ==
  ASSUME Types, Sentinel, MainPut
  PROVE  /\ Queued = Len(queue) /\ Queued' = Queued + AtMain /\ AtMain' = 0
         /\ queue'[Len(queue) + 1] = mblk /\ \A i \in 1 .. Len(queue) : queue'[i] = queue[i]
<1>1. /\ queue \in Seq(Serials \cup {NullBlock}) /\ mblk \in Serials \cup {NullBlock}
      /\ queue' = Append(queue, mblk) /\ mpc = "put" /\ Putting /\ ~Putting'
      /\ UNCHANGED mblk
  BY DEF MainPut, Putting, Types, MainTypes, SharedTypes
<1>2. /\ Len(queue) \in Nat /\ Len(queue') = Len(queue) + 1 /\ queue'[Len(queue) + 1] = mblk
      /\ \A i \in 1 .. Len(queue) : queue'[i] = queue[i]
  BY ONLY <1>1, OneMore
<1>3. \A i \in 1 .. Len(queue) : queue[i] # NullBlock  BY <1>1 DEF Sentinel
<1>4. Queued = Len(queue)  BY <1>2, <1>3 DEF Queued
<1>5. Queued' = Queued + AtMain /\ AtMain' = 0
  <2>1. AtMain' = 0 /\ AtMain = (IF mblk # NullBlock THEN 1 ELSE 0)  BY <1>1 DEF AtMain
  <2>2. queue'[Len(queue')] = mblk /\ Len(queue') > 0  BY ONLY <1>2
  <2>3. Queued' = (IF mblk = NullBlock THEN Len(queue') - 1 ELSE Len(queue'))
    BY ONLY <2>2 DEF Queued
  <2> QED  BY ONLY <1>2, <1>4, <2>1, <2>3
<1> QED  BY ONLY <1>2, <1>4, <1>5

LEMMA PutsWhole == ASSUME Types, Sentinel, NoLoss, MainPut PROVE NoLoss'
<1>1. UNCHANGED <<written, held, taken, rpc, rblk, rerr, mblk>>
  BY DEF MainPut
<1>2. Len(queue) \in Nat /\ \A i \in 1 .. Len(queue) : queue'[i] = queue[i]  BY PutCounts, Counts
<1>3. queue'[Len(queue) + 1] = mblk  BY PutCounts
<1>4. Queued = Len(queue)  BY PutCounts
<1>5. Queued' = Queued + AtMain /\ AtMain' = 0  BY PutCounts
<1>6. UNCHANGED <<Passed, AtReader, written, held, taken, rblk>>  BY <1>1 DEF Passed, AtReader
<1>7. Prefix'  BY <1>1 DEF NoLoss, Prefix
<1>8. ASSUME Whole PROVE Whole'
  <2>1. Len(taken) = Passed + AtReader + Queued + AtMain  BY <1>8 DEF Whole
  <2>2. Len(taken') = Passed' + AtReader' + Queued' + AtMain'  BY ONLY <1>5, <1>6, <2>1, Types, Counts
  <2>3. \A i \in 1 .. Queued' : queue'[i] = taken'[Passed' + AtReader' + i]
    <3> SUFFICES ASSUME NEW i \in 1 .. Queued' PROVE queue'[i] = taken[Passed + AtReader + i]
      BY <1>1, <1>6
    <3>1. CASE i \in 1 .. Queued
      <4>1. queue'[i] = queue[i]  BY <1>2, <1>4, <3>1
      <4> QED  BY <1>8, <3>1, <4>1 DEF Whole
    <3>2. CASE i \notin 1 .. Queued
      <4>1. i = Queued + 1 /\ AtMain = 1 /\ Passed + AtReader + i = Len(taken)
        BY <1>5, <2>1, <3>2, Counts
      <4>2. mblk = taken[Len(taken)]  BY <1>8, <4>1 DEF Whole
      <4>3. queue'[i] = mblk  BY <1>3, <1>4, <4>1
      <4> QED  BY <4>1, <4>2, <4>3
    <3> QED  BY <3>1, <3>2
  <2> QED  BY ONLY <1>5, <1>6, <1>8, <2>2, <2>3 DEF Whole
<1> QED  BY <1>1, <1>7, <1>8 DEF NoLoss

LEMMA GetsWhole == ASSUME Types, NoLoss, ReaderGet PROVE NoLoss'
<1>1. /\ queue \in Seq(Serials \cup {NullBlock}) /\ queue # <<>> /\ queue' = Tail(queue)
      /\ rblk' = Head(queue) /\ rpc = "get"
      /\ rpc' = (IF Head(queue) = NullBlock THEN "done" ELSE "write")
      /\ UNCHANGED <<written, held, taken, mpc, mblk, rerr>>
  BY DEF ReaderGet, Dequeued, Types, SharedTypes
<1>2. CASE Head(queue) = NullBlock  BY <1>1, <1>2, Leaves
<1>3. CASE Head(queue) # NullBlock
  <2>1. /\ Len(queue) \in Nat \ {0} /\ Len(queue') = Len(queue) - 1 /\ Head(queue) = queue[1]
        /\ \A i \in 1 .. Len(queue') : queue'[i] = queue[i + 1]
    BY ONLY <1>1, HeadTailProperties
  <2>2. Queued' = Queued - 1
    <3>1. CASE Len(queue) = 1  BY <1>3, <2>1, <3>1 DEF Queued
    <3>2. CASE Len(queue) > 1
      <4>1. queue'[Len(queue')] = queue[Len(queue)]
        <5>1. Len(queue') \in 1 .. Len(queue') /\ Len(queue') + 1 = Len(queue)  BY <2>1, <3>2
        <5> QED  BY <2>1, <5>1
      <4> QED  BY <2>1, <3>2, <4>1 DEF Queued
    <3> QED  BY <2>1, <3>1, <3>2
  <2>3. AtReader = 0 /\ AtReader' = 1  BY <1>1, <1>3 DEF AtReader
  <2>4. UNCHANGED <<Passed, AtMain>>  BY <1>1 DEF Passed, AtMain, Putting
  <2>5. Prefix'  BY <1>1 DEF NoLoss, Prefix
  <2>6. Queued' \in Nat  BY <2>1 DEF Queued
  <2>7. ASSUME Whole PROVE Whole'
    <3>1. Len(taken') = Passed' + AtReader' + Queued' + AtMain'
      BY <1>1, <2>2, <2>3, <2>4, <2>7, Counts DEF Whole
    <3>2. rblk' = taken'[Passed' + 1]
      <4>1. 1 \in 1 .. Queued /\ Passed + AtReader + 1 = Passed + 1  BY <2>2, <2>3, <2>6, Counts
      <4>2. queue[1] = taken[Passed + AtReader + 1]  BY <2>7, <4>1 DEF Whole
      <4> QED  BY <1>1, <2>1, <2>4, <4>1, <4>2
    <3>3. \A i \in 1 .. Queued' : queue'[i] = taken'[Passed' + AtReader' + i]
      <4> SUFFICES ASSUME NEW i \in 1 .. Queued' PROVE queue'[i] = taken[Passed + 1 + i]
        BY <1>1, <2>3, <2>4
      <4>1. i + 1 \in 1 .. Queued /\ i \in 1 .. Len(queue') /\ Passed + AtReader + (i + 1) = Passed + 1 + i
        BY <2>1, <2>2, <2>3, Counts
      <4>2. queue[i + 1] = taken[Passed + AtReader + (i + 1)]  BY <2>7, <4>1 DEF Whole
      <4> QED  BY <2>1, <4>1, <4>2
    <3> QED  BY <1>1, <2>4, <2>7, <3>1, <3>2, <3>3 DEF Whole
  <2> QED  BY <1>1, <2>5, <2>7 DEF NoLoss
<1> QED  BY <1>2, <1>3

\* Together, what leaves the decoder and what stays in it are what was in it and the
\* next block.
LEMMA DecodedCut ==
  ASSUME Types, ~UseB25 => held = <<>>, rpc = "write", NEW d \in DecodedRight
  PROVE  /\ d.out \in Seq(Serials) /\ Len(d.out) \in Nat /\ Len(d.held) \in Nat
         /\ Len(d.out) + Len(d.held) = Len(held) + 1
         /\ \A i \in 1 .. Len(d.out) : d.out[i] = Append(held, rblk)[i]
         /\ \A i \in 1 .. Len(d.held) : d.held[i] = Append(held, rblk)[Len(d.out) + i]
<1> DEFINE all == Append(held, rblk)
<1>1. /\ d.out \in Seq(Serials) /\ d.held \in Seq(Serials) /\ all \in Seq(Serials)
      /\ Len(all) = Len(held) + 1
  BY RightType
<1>2. Len(held) \in Nat  BY Counts
<1>3. CASE ~UseB25
  <2>1. d.out = <<rblk>> /\ d.held = <<>> /\ held = <<>> /\ rblk \in Serials
    BY <1>3, RightType DEF Types, ReaderTypes
  <2>2. all = <<rblk>>  BY <2>1
  <2> QED  BY <1>1, <2>1, <2>2
<1>4. CASE UseB25
  <2>1. PICK n \in 0 .. Len(held) + 1 :
          d.out = SubSeq(all, 1, n) /\ d.held = SubSeq(all, n + 1, Len(held) + 1)
    BY <1>4, RightType
  <2> HIDE DEF all
  <2>2. n \in 0 .. Len(all) /\ d.out = SubSeq(all, 1, n) /\ d.held = SubSeq(all, n + 1, Len(all))
    BY <1>1, <2>1
  <2>3. /\ Len(d.out) = n /\ \A i \in 1 .. n : d.out[i] = all[i]
        /\ Len(d.held) = Len(all) - n /\ \A i \in 1 .. Len(all) - n : d.held[i] = all[n + i]
    BY ONLY <1>1, <2>2, Cut
  <2>4. Len(d.out) \in Nat /\ Len(d.held) \in Nat /\ Len(d.out) + Len(d.held) = Len(held) + 1
    <3>1. n \in 0 .. Len(held) + 1 /\ Len(all) = Len(held) + 1  BY <1>1, <2>1
    <3>2. Len(d.out) = n /\ Len(d.held) = Len(all) - n  BY <2>3
    <3> QED  BY ONLY <1>2, <3>1, <3>2
  <2>5. /\ \A i \in 1 .. Len(d.out) : d.out[i] = all[i]
        /\ \A i \in 1 .. Len(d.held) : d.held[i] = all[Len(d.out) + i]
    BY ONLY <2>3
  <2> QED  BY ONLY <1>1, <2>4, <2>5 DEF all
<1> QED  BY <1>3, <1>4

LEMMA WritesWhole ==
  ASSUME Steady, Types, ~Endless, Order, SplitterOff, ExitLate, NoLoss, ReaderWrite
  PROVE  NoLoss'
<1>0. PICK d \in DecodedRight : \E s \in Splitted(d.out) :
        /\ held' = d.held
        /\ written' = written \o s.out \/ (rerr' = TRUE /\ UNCHANGED written)
  BY WorksRight DEF ReaderWrite, Log, Steady
<1>1. PICK s \in Splitted(d.out) :
        /\ held' = d.held
        /\ written' = written \o s.out \/ (rerr' = TRUE /\ UNCHANGED written)
  BY <1>0
<1>2. rpc = "write" /\ rpc' = "test" /\ UNCHANGED <<queue, taken, mpc, mblk, rblk>>
  BY DEF ReaderWrite
<1> DEFINE all == Append(held, rblk)
<1>3. PICK out, rest :
        /\ held' = rest
        /\ written' = written \o out \/ (rerr' = TRUE /\ UNCHANGED written)
        /\ out \in Seq(Serials) /\ Len(out) \in Nat /\ Len(rest) \in Nat
        /\ Len(out) + Len(rest) = Len(held) + 1
        /\ \A i \in 1 .. Len(out) : out[i] = all[i]
        /\ \A i \in 1 .. Len(rest) : rest[i] = all[Len(out) + i]
  <2>1. s.out = d.out  BY SplittedType DEF SplitterOff, Steady
  <2>2. ~UseB25 => held = <<>>  BY DEF Order, InOrder, Steady, Types, ReaderTypes, FailedTypes
  <2> HIDE DEF all
  <2>3. /\ d.out \in Seq(Serials) /\ Len(d.out) \in Nat /\ Len(d.held) \in Nat
        /\ Len(d.out) + Len(d.held) = Len(held) + 1
        /\ \A i \in 1 .. Len(d.out) : d.out[i] = all[i]
        /\ \A i \in 1 .. Len(d.held) : d.held[i] = all[Len(d.out) + i]
    BY ONLY <1>2, <2>2, Types, d \in DecodedRight, DecodedCut DEF all
  <2> WITNESS d.out, d.held
  <2> QED  BY ONLY <1>1, <2>1, <2>3
<1>4. CASE rerr' = TRUE /\ UNCHANGED written  BY <1>2, <1>4, Leaves
<1>5. CASE written' = written \o out
  <2>2. /\ held \in Seq(Serials) /\ rblk \in Serials /\ written \in Seq(Serials)
    BY <1>2 DEF Types, ReaderTypes
  <2>3. all[Len(held) + 1] = rblk /\ \A i \in 1 .. Len(held) : all[i] = held[i]
    BY ONLY <2>2, OneMore
  <2> HIDE DEF all
  <2>4. /\ Len(written') = Len(written) + Len(out)
        /\ \A i \in 1 .. Len(written) : written'[i] = written[i]
        /\ \A i \in 1 .. Len(out) : written'[Len(written) + i] = out[i]
    <3>1. Len(written) \in Nat  BY <2>2
    <3>2. /\ Len(written \o out) = Len(written) + Len(out)
          /\ \A i \in 1 .. Len(written) + Len(out) :
               (written \o out)[i] = IF i <= Len(written) THEN written[i] ELSE out[i - Len(written)]
      BY ONLY <1>3, <2>2, ConcatProperties
    <3>3. \A i \in 1 .. Len(written) + Len(out) :
            written'[i] = IF i <= Len(written) THEN written[i] ELSE out[i - Len(written)]
      BY ONLY <1>5, <3>2
    <3>4. \A i \in 1 .. Len(out) :
            /\ Len(written) + i \in 1 .. Len(written) + Len(out) /\ ~(Len(written) + i <= Len(written))
            /\ Len(written) + i - Len(written) = i
      BY ONLY <1>3, <3>1
    <3>5. \A i \in 1 .. Len(written) : i \in 1 .. Len(written) + Len(out) /\ i <= Len(written)
      BY ONLY <1>3, <3>1
    <3> QED  BY ONLY <1>5, <3>2, <3>3, <3>4, <3>5
  <2>5. CASE Whole
    <3>0. /\ Len(written) \in Nat /\ Len(held) \in Nat /\ Queued \in Nat /\ AtMain \in {0, 1}
          /\ Len(taken) \in Nat /\ Len(out) \in Nat /\ Len(rest) \in Nat
          /\ Len(out) + Len(rest) = Len(held) + 1 /\ Len(written') = Len(written) + Len(out)
      BY <1>3, <2>4, Counts
    <3>1. /\ Passed = Len(written) + Len(held) /\ AtReader = 1 /\ AtReader' = 0
          /\ Len(taken) = Passed + 1 + Queued + AtMain
      BY <1>2, <2>5 DEF Passed, AtReader, Whole
    <3>2. UNCHANGED <<Queued, AtMain>>  BY <1>2 DEF Queued, AtMain, Putting
    <3>3. \A i \in 1 .. Len(held) + 1 : all[i] = taken[Len(written) + i]
      <4> SUFFICES ASSUME NEW i \in 1 .. Len(held) + 1 PROVE all[i] = taken[Len(written) + i]
        OBVIOUS
      <4>1. CASE i \in 1 .. Len(held)  BY <2>3, <2>5, <4>1 DEF Whole
      <4>2. CASE i = Len(held) + 1
        <5>1. Len(written) + i = Passed + 1  BY <3>1, <4>2, Counts
        <5> QED  BY <2>3, <2>5, <3>1, <4>2, <5>1 DEF Whole
      <4> QED  BY <4>1, <4>2, Counts
    <3>4. Passed' = Passed + 1
      <4>1. Len(held') = Len(rest)  BY <1>3
      <4> QED  BY ONLY <3>0, <3>1, <4>1 DEF Passed
    <3>5. Len(taken') = Passed' + AtReader' + Queued' + AtMain'
      BY <1>2, <3>1, <3>2, <3>4, Counts
    <3>6. \A i \in 1 .. Len(held') : held'[i] = taken'[Len(written') + i]
      <4> SUFFICES ASSUME NEW i \in 1 .. Len(rest) PROVE rest[i] = taken[Len(written') + i]
        BY <1>2, <1>3
      <4>1. /\ Len(out) + i \in 1 .. Len(held) + 1
            /\ Len(written) + (Len(out) + i) = Len(written') + i
        BY ONLY <3>0, i \in 1 .. Len(rest)
      <4> QED  BY <1>3, <3>3, <4>1
    <3>7. \A i \in 1 .. Queued' : queue'[i] = taken'[Passed' + AtReader' + i]
      <4>1. Passed' + AtReader' = Passed + AtReader  BY <3>1, <3>4, Counts
      <4> QED  BY <1>2, <2>5, <3>2, <4>1 DEF Whole
    <3>8. AtMain' = 1 => mblk' = taken'[Len(taken')]  BY <1>2, <2>5, <3>2 DEF Whole
    <3>9. Whole'  BY <3>1, <3>5, <3>6, <3>7, <3>8 DEF Whole
    <3>10. Prefix'
      <4>1. Len(written') <= Len(taken)  BY ONLY <3>0, <3>1
      <4> SUFFICES ASSUME NEW i \in 1 .. Len(written') PROVE written'[i] = taken[i]
        BY <1>2, <4>1 DEF Prefix
      <4>2. CASE i \in 1 .. Len(written)  BY <2>4, <4>2 DEF NoLoss, Prefix
      <4>3. CASE i \notin 1 .. Len(written)
        <5>1. /\ i - Len(written) \in 1 .. Len(out) /\ i - Len(written) \in 1 .. Len(held) + 1
              /\ Len(written) + (i - Len(written)) = i
          BY ONLY <3>0, <4>3, i \in 1 .. Len(written')
        <5>2. written'[i] = out[i - Len(written)]  BY <2>4, <5>1
        <5> QED  BY <1>3, <3>3, <5>1, <5>2
      <4> QED  BY <4>2, <4>3
    <3> QED  BY <3>9, <3>10 DEF NoLoss
  <2>6. CASE rerr \/ rpc = "done"  BY <1>2, <2>6 DEF ExitLate
  <2> QED  BY <2>5, <2>6 DEF NoLoss
<1> QED  BY <1>3, <1>4, <1>5

\* main gives a block up only when the reader has left its loop; under Steady only the
\* sentinel.
LEMMA WakesWhole == ASSUME Steady, Types, ExitLate, NoLoss, MainPutWake PROVE NoLoss'
<1>1. /\ mpc = "putwait" /\ UNCHANGED <<written, held, queue, taken, rpc, rblk, rerr, mblk>>
      /\ mpc' \in {mnext, "put"} /\ (f_exit' => f_exit)
      /\ ~f_exit' => mpc' = "put"
  <2>1. /\ mpc = "putwait" /\ UNCHANGED <<written, held, queue, taken, rpc, rblk, rerr, mblk>>
        /\ mpc' \in {mnext, "put"}
    BY DEF MainPutWake, PutRetry
  <2>2. f_exit' = f_exit  BY DEF MainPutWake, Steady, Undisturbed
  <2>3. ~f_exit' => mpc' = "put"  BY DEF MainPutWake, PutRetry
  <2> QED  BY <2>1, <2>2, <2>3
<1>2. Putting /\ (mblk = NullBlock <=> mnext = "rmid")  BY <1>1 DEF Putting, Types, MainTypes
<1>3. UNCHANGED AtReader  BY <1>1 DEF AtReader
<1>4. CASE mpc' = "put"
  <2>1. UNCHANGED AtMain  BY <1>1, <1>2, <1>4 DEF AtMain, Putting
  <2> QED  BY <1>1, <1>3, <2>1, Keeps
<1>5. CASE mpc' # "put"
  <2>1. Late \/ rerr  BY <1>1, <1>5 DEF ExitLate
  <2>2. CASE rerr  BY <1>1, <2>2, Leaves
  <2>3. CASE Late
    <3>1. mblk = NullBlock  BY <1>1, <1>2, <2>3 DEF Late
    <3>2. UNCHANGED AtMain  BY <1>1, <3>1 DEF AtMain
    <3> QED  BY <1>1, <1>3, <3>2, Keeps
  <2> QED  BY <2>1, <2>2, <2>3
<1> QED  BY <1>4, <1>5

LEMMA StepNoLoss ==
  ASSUME Steady, ~Endless, Types, Order, Sentinel, SplitterOff, ExitLate, NoLoss, [Next]_vars
  PROVE  NoLoss'
<1>1. CASE MainStart
  <2>1. /\ UNCHANGED <<written, held, queue, taken, rblk, rerr, mblk>> /\ mpc = "start"
        /\ mpc' \in {"clock", "exited"} /\ rpc' \in {rpc, "done"}
    BY <1>1 DEF MainStart
  <2>2. AtMain = 0 /\ AtMain' = 0  BY <2>1 DEF AtMain, Putting
  <2>3. CASE rpc' = rpc
    <3>1. UNCHANGED AtReader  BY <2>1, <2>3 DEF AtReader
    <3> QED  BY <2>1, <2>2, <2>3, <3>1, Keeps
  <2>4. CASE rpc' = "done"  BY <2>1, <2>4, Leaves
  <2> QED  BY <2>1, <2>3, <2>4
<1>2. CASE MainRead \/ MainPut \/ MainPutWake  BY <1>2, ReadsWhole, PutsWhole, WakesWhole
<1>3. CASE MainClock \/ MainLoop \/ MainNoMemory \/ MainReadNothing \/ MainQuit \/ MainSentinel
           \/ MainPutWait \/ MainDue \/ MainStop \/ MainRemoveMessages \/ MainKill \/ MainJoin
  <2>1. UNCHANGED <<written, held, queue, taken, rpc, rblk, rerr>>
    BY <1>3 DEF MainClock, MainLoop, MainNoMemory, MainReadNothing, MainQuit, MainSentinel,
       MainPutWait, MainDue, MainStop, StopAction, MainRemoveMessages, MainKill, MainJoin
  <2>2. UNCHANGED AtReader  BY <2>1 DEF AtReader
  <2>3. UNCHANGED AtMain /\ (AtMain = 1 => mblk' = mblk)
    <3>1. CASE MainClock \/ MainLoop \/ MainNoMemory \/ MainReadNothing \/ MainQuit \/ MainSentinel
      BY <3>1 DEF MainClock, MainLoop, MainNoMemory, MainReadNothing, MainQuit, MainSentinel,
         Putting, AtMain
    <3>2. CASE MainPutWait \/ MainDue \/ MainStop \/ MainRemoveMessages \/ MainKill \/ MainJoin
      BY <3>2 DEF MainPutWait, MainDue, MainStop, StopAction, MainRemoveMessages, MainKill,
         MainJoin, Putting, AtMain
    <3> QED  BY <1>3, <3>1, <3>2
  <2> QED  BY <2>1, <2>2, <2>3, Keeps
<1>4. CASE ReaderGet \/ ReaderWrite  BY <1>4, GetsWhole, WritesWhole
<1>5. CASE ReaderFinish
  <2>1. rpc' = "done" /\ UNCHANGED <<written, taken>>  BY <1>5 DEF ReaderFinish
  <2> QED  BY <2>1, Leaves
<1>6. CASE ReaderGetWait \/ ReaderGetWake \/ ReaderTest
  <2>1. /\ UNCHANGED <<written, held, queue, taken, mpc, mblk, rerr>>
        /\ rpc \notin {"write", "done"} /\ rpc' # "write"
    BY <1>6 DEF ReaderGetWait, ReaderGetWake, GetRetry, ReaderTest
  <2>2. AtReader = 0 /\ AtReader' = 0 /\ UNCHANGED AtMain  BY <2>1 DEF AtReader, AtMain, Putting
  <2> QED  BY <2>1, <2>2, Keeps
<1>7. CASE Ipc \/ SignalThread \/ TunerDelivers \/ UserSignals \/ Tick \/ UNCHANGED vars
  <2>1. UNCHANGED <<written, held, queue, taken, mpc, mblk, rpc, rblk, rerr>>
    BY <1>7 DEF Ipc, IpcWork, IpcReceive, IpcNoQueue, IpcStop, IpcPoll, IpcSetChannel, IpcClose,
       IpcTune, IpcRestart, IpcExtend, IpcLimit, SignalThread, SignalWait, SignalStop, SignalExit,
       ExitAction, TunerDelivers, UserSignals, Tick, vars
  <2>2. UNCHANGED <<AtReader, AtMain>>  BY <2>1 DEF AtReader, AtMain, Putting
  <2> QED  BY <2>1, <2>2, Keeps
<1> QED  BY <1>1, <1>2, <1>3, <1>4, <1>5, <1>6, <1>7 DEF Next, Main, Reader

LEMMA SentinelHolds == Spec => [](Sentinel /\ SplitterOff)
<1>1. Init => Sentinel /\ SplitterOff  BY InitHole
<1>2. Types /\ Sentinel /\ SplitterOff /\ [Next]_vars => Sentinel' /\ SplitterOff'
  BY StepSentinel, StepSplitterOff
<1> QED  BY <1>1, <1>2, TypesHold, PTL DEF Spec

LEMMA ExitLateHolds == Undisturbed => (Spec => []ExitLate)
<1> SUFFICES ASSUME Undisturbed PROVE Spec => []ExitLate
  OBVIOUS
<1>1. Init => ExitLate  BY InitHole
<1>2. Types /\ ExitLate /\ [Next]_vars => ExitLate'  BY StepExitLate
<1> QED  BY <1>1, <1>2, TypesHold, PTL DEF Spec

LEMMA NoLossHolds == Steady => (Spec => [](Endless \/ NoLoss))
<1> SUFFICES ASSUME Steady PROVE Spec => [](Endless \/ NoLoss)
  OBVIOUS
<1> DEFINE Inv == Endless \/ NoLoss
<1>1. Init => Inv  BY InitHole
<1>2. Types /\ Order /\ Sentinel /\ SplitterOff /\ ExitLate /\ Inv /\ [Next]_vars => Inv'
  BY StepNoLoss
<1>3. Spec => []ExitLate  BY ExitLateHolds DEF Steady
<1> HIDE DEF Inv
<1>4. Spec => []Inv  BY <1>1, <1>2, <1>3, TypesHold, OrderHolds, SentinelHolds, PTL DEF Spec
<1> QED  BY <1>4 DEF Inv

\* What is in the file is the beginning of what main took from the tuner: with or without
\* a decoder, through changes of the channel that succeed or fail, when memory runs out,
\* and, for a file, after an error of write().  The user must not interrupt, the queue not
\* stall for a minute, recpt1ctl set no new total time, the decoder not fail, the splitter
\* be off.
THEOREM Gapless == Steady => (Spec => []NoHole)
<1> SUFFICES ASSUME Steady PROVE Spec => []NoHole
  OBVIOUS
<1> DEFINE Inv == Endless \/ NoLoss
<1>1. Types /\ Order /\ Inv => NoHole
  <2> SUFFICES ASSUME Types, Order, Inv PROVE NoHole
    OBVIOUS
  <2>1. /\ DOMAIN written = 1 .. Len(written) /\ DOMAIN taken = 1 .. Len(taken)
        /\ Len(written) \in Nat /\ Len(taken) \in Nat
    <3>1. written \in Seq(Serials) /\ taken \in Seq(Serials)  BY DEF Types, ReaderTypes, MainTypes
    <3> QED  BY ONLY <3>1, LenProperties
  <2>2. CASE Endless
    <3>1. written = <<>>
      BY <2>2 DEF Order, Steady, Types, ReaderTypes, FailedTypes
    <3> QED  BY <3>1 DEF NoHole
  <2>3. CASE ~Endless
    <3>1. Prefix  BY <2>3 DEF NoLoss
    <3>2. \A i \in 1 .. Len(written) : i \in 1 .. Len(taken)  BY <2>1, <3>1 DEF Prefix
    <3> QED  BY <2>1, <3>1, <3>2 DEF NoHole, Prefix
  <2> QED  BY <2>2, <2>3
<1>2. Spec => []Inv  BY NoLossHolds
<1> HIDE DEF Inv
<1> QED  BY <1>1, <1>2, TypesHold, OrderHolds, PTL
-----------------------------------------------------------------------------
(* A recording that nothing ended prematurely has run its time. *)

Patient ==
  /\ Undisturbed /\ ~MayWriteFail /\ ~MayRunOutOfMemory
  /\ \A m \in Messages : m.e \in Nat

\* main has left the loop because the time was up.
Past ==
  \/ mpc \in {"stop", "drain", "quit", "sentinel", "rmid", "kill", "join", "done"}
  \/ Putting /\ mnext \in {"drain", "rmid"}
RanItsTime == \E r \in Rectimes : now - start_time >= r

InTime ==
  /\ \E r \in Rectimes : r <= recsec
  /\ msg.e >= 0 /\ mcur <= now /\ ~rerr
  /\ Past => RanItsTime

LEMMA InitInTime == Init => InTime
<1> SUFFICES ASSUME Init PROVE InTime
  OBVIOUS
<1>1. recsec \in Rectimes /\ recsec <= recsec  BY RecorderAssumption DEF Init
<1>2. msg.e = 0 /\ mcur = 0 /\ now = Epoch /\ ~rerr /\ ~Past  BY DEF Init, Past, Putting
<1> QED  BY <1>1, <1>2, RecorderAssumption DEF InTime

\* Integers.
LEMMA Later ==
  ASSUME NEW r \in Int, NEW s \in Int, NEW a \in Int, NEW b \in Int, a <= b, r <= a - s
  PROVE  r <= b - s
  OBVIOUS

\* The clock only goes on.
LEMMA TimePasses ==
  ASSUME Types, RanItsTime, now' \in {now, now + 1}, UNCHANGED start_time
  PROVE  RanItsTime'
<1>1. PICK r \in Rectimes : now - start_time >= r  BY DEF RanItsTime
<1>2. r \in Int /\ now \in Nat /\ start_time \in Nat
  BY RecorderAssumption DEF Types, SharedTypes
<1>3. PICK b \in Int : b = now' /\ now <= b  BY <1>2
<1>4. r <= b - start_time
  <2>1. r <= now - start_time /\ r \in Int /\ now \in Int /\ start_time \in Int  BY <1>1, <1>2
  <2> QED  BY ONLY <1>3, <2>1, Later
<1>5. now' - start_time >= r  BY <1>2, <1>3, <1>4
<1> QED  BY <1>5 DEF RanItsTime

\* What the loop tests, at a time that has come.
LEMMA DueRan ==
  ASSUME Types, InTime, NEW t \in Nat, t <= now, Due(t)
  PROVE  RanItsTime
<1>1. PICK r \in Rectimes : r <= recsec  BY DEF InTime
<1>2. t - start_time >= recsec  BY DEF Due
<1>3. r \in Int /\ now \in Nat /\ start_time \in Nat /\ recsec \in Int
  BY RecorderAssumption DEF Types, SharedTypes
<1>4. now - start_time >= r  BY <1>1, <1>2, <1>3
<1> QED  BY <1>4 DEF RanItsTime

LEMMA StepInTime == ASSUME Patient, Types, ExitLate, InTime, [Next]_vars PROVE InTime'
<1>0. now \in Nat /\ mcur \in Nat /\ recsec \in Int /\ msg.e \in Int
  BY DEF Types, MainTypes, IpcTypes, SharedTypes
<1>1. /\ \E r \in Rectimes : r <= recsec'
      /\ msg'.e >= 0 /\ UNCHANGED indefinite
  <2>1. CASE IpcExtend
    <3>1. PICK r \in Rectimes : r <= recsec  BY DEF InTime
    <3>2. r \in Int /\ recsec' = recsec + msg.e /\ msg' = msg /\ UNCHANGED indefinite
      BY <2>1, RecorderAssumption DEF IpcExtend
    <3> QED  BY <1>0, <3>1, <3>2 DEF InTime
  <2>2. CASE IpcLimit
    <3>1. UNCHANGED <<recsec, msg, indefinite>>  BY <2>2 DEF IpcLimit, ExitLate
    <3> QED  BY <3>1 DEF InTime
  <2>3. ASSUME NEW m \in Messages, IpcReceive(m) PROVE /\ \E r \in Rectimes : r <= recsec'
                                                        /\ msg'.e >= 0 /\ UNCHANGED indefinite
    <3>1. msg' = m /\ m.e \in Nat /\ UNCHANGED <<recsec, indefinite>>  BY <2>3 DEF IpcReceive, Patient
    <3> QED  BY <3>1 DEF InTime
  <2>4. CASE Main \/ Reader \/ IpcNoQueue \/ IpcStop \/ IpcPoll \/ IpcSetChannel \/ IpcClose
             \/ IpcTune \/ IpcRestart \/ SignalThread \/ TunerDelivers \/ UserSignals \/ Tick
             \/ UNCHANGED vars
    <3>1. UNCHANGED <<recsec, msg, indefinite>>
      BY <2>4 DEF Main, MainStart, MainClock, MainLoop, MainNoMemory, MainRead, MainReadNothing,
         MainQuit, MainSentinel, MainPut, MainPutWait, MainPutWake, MainDue, MainStop, StopAction,
         MainRemoveMessages, MainKill, MainJoin, Reader, ReaderGet, ReaderGetWait, ReaderGetWake,
         ReaderWrite, ReaderTest, ReaderFinish, IpcNoQueue, IpcStop, IpcPoll, IpcSetChannel,
         IpcClose, IpcTune, IpcRestart, SignalThread, SignalWait, SignalStop, SignalExit,
         ExitAction, TunerDelivers, UserSignals, Tick, vars
    <3> QED  BY <3>1 DEF InTime
  <2> QED  BY <2>1, <2>2, <2>3, <2>4 DEF Next, Ipc, IpcWork
<1>2. ~rerr'
  <2>1. CASE ReaderWrite \/ ReaderFinish
    <3>1. rerr' = rerr  BY <2>1 DEF ReaderWrite, ReaderFinish, Patient
    <3> QED  BY <3>1 DEF InTime
  <2>2. CASE [Next]_vars /\ ~ReaderWrite /\ ~ReaderFinish
    <3>1. rerr' = rerr
      BY <2>2 DEF Next, Main, MainStart, MainClock, MainLoop, MainNoMemory, MainRead,
         MainReadNothing, MainQuit, MainSentinel, MainPut, MainPutWait, MainPutWake, MainDue,
         MainStop, StopAction, MainRemoveMessages, MainKill, MainJoin, Reader, ReaderGet,
         ReaderGetWait, ReaderGetWake, ReaderTest, Ipc, IpcWork, IpcReceive, IpcNoQueue, IpcStop,
         IpcPoll, IpcSetChannel, IpcClose, IpcTune, IpcRestart, IpcExtend, IpcLimit, SignalThread,
         SignalWait, SignalStop, SignalExit, ExitAction, TunerDelivers, UserSignals, Tick, vars
    <3> QED  BY <3>1 DEF InTime
  <2> QED  BY <2>1, <2>2
<1>3. now' \in {now, now + 1} /\ mcur' <= now'
  <2>1. CASE Main
    <3>1. now' = now /\ mcur' \in {mcur, now}
      BY <2>1 DEF Main, MainStart, MainClock, MainLoop, MainNoMemory, MainRead, MainReadNothing,
         MainQuit, MainSentinel, MainPut, MainPutWait, MainPutWake, MainDue, MainStop, StopAction,
         MainRemoveMessages, MainKill, MainJoin
    <3> QED  BY <1>0, <3>1 DEF InTime
  <2>2. CASE Reader \/ Ipc \/ SignalThread \/ TunerDelivers \/ UserSignals \/ UNCHANGED vars
    <3>1. UNCHANGED <<now, mcur>>
      BY <2>2 DEF Reader, ReaderGet, ReaderGetWait, ReaderGetWake, ReaderWrite, ReaderTest,
         ReaderFinish, Ipc, IpcWork, IpcReceive, IpcNoQueue, IpcStop, IpcPoll, IpcSetChannel,
         IpcClose, IpcTune, IpcRestart, IpcExtend, IpcLimit, SignalThread, SignalWait, SignalStop,
         SignalExit, ExitAction, TunerDelivers, UserSignals, vars
    <3> QED  BY <3>1 DEF InTime
  <2>3. CASE Tick  BY <1>0, <2>3 DEF Tick, InTime
  <2> QED  BY <2>1, <2>2, <2>3 DEF Next
<1>4. Past' => RanItsTime'
  <2>1. CASE Main
    <3>1. f_exit => Past \/ mpc = "exited"  BY DEF ExitLate, InTime, Late, Past, Putting
    <3>2. CASE MainStart \/ MainClock
      BY <3>2 DEF MainStart, MainClock, Past, Putting
    <3>3. CASE MainReadNothing /\ mpc = "read"
      <4>1. mpc' = (IF Due(mcur) THEN "quit" ELSE "loop") /\ UNCHANGED <<now, start_time>>
        BY <3>3 DEF MainReadNothing
      <4>2. CASE Due(mcur)
        <5>1. RanItsTime  BY <1>0, <4>2, DueRan DEF InTime
        <5> QED  BY <4>1, <5>1, TimePasses
      <4>3. CASE ~Due(mcur)  BY <4>1, <4>3 DEF Past, Putting
      <4> QED  BY <4>2, <4>3
    <3>4. CASE MainDue
      <4>1. mpc' = (IF Due(now) THEN "stop" ELSE "loop") /\ UNCHANGED <<now, start_time>>
        BY <3>4 DEF MainDue
      <4>2. CASE Due(now)
        <5>1. RanItsTime  BY <1>0, <4>2, DueRan
        <5> QED  BY <4>1, <5>1, TimePasses
      <4>3. CASE ~Due(now)  BY <4>1, <4>3 DEF Past, Putting
      <4> QED  BY <4>2, <4>3
    <3>5. CASE Main /\ ~MainStart /\ ~MainClock /\ ~(MainReadNothing /\ mpc = "read") /\ ~MainDue
      <4>1. UNCHANGED <<now, start_time>>
        BY <3>5 DEF Main, MainLoop, MainNoMemory, MainRead, MainReadNothing, MainQuit,
           MainSentinel, MainPut, MainPutWait, MainPutWake, MainStop, StopAction,
           MainRemoveMessages, MainKill, MainJoin
      <4>2. Past' => Past
        <5>0. mnext \in {"loop", "due", "drain", "rmid"}  BY DEF Types, MainTypes
        <5>1. CASE MainLoop
          <6>1. CASE f_exit  BY <3>1, <5>1, <6>1 DEF MainLoop
          <6>2. CASE ~f_exit  BY <5>1, <6>2 DEF MainLoop, Past, Putting
          <6> QED  BY <6>1, <6>2
        <5>2. CASE MainNoMemory \/ MainRead \/ MainQuit \/ MainSentinel
          BY <5>2 DEF MainNoMemory, Patient, MainRead, MainQuit, MainSentinel, Past, Putting
        <5>3. CASE MainReadNothing /\ mpc # "read"
          BY <5>3 DEF MainReadNothing, Past
        <5>4. CASE MainPut \/ MainPutWait
          BY <5>0, <5>4 DEF MainPut, MainPutWait, Past, Putting
        <5>5. CASE MainPutWake
          <6>1. mpc' \in {mnext, "put"} /\ mnext' = mnext /\ Putting
            BY <5>5 DEF MainPutWake, PutRetry, Putting
          <6> QED  BY <5>0, <6>1 DEF Past, Putting
        <5>6. CASE MainStop \/ MainRemoveMessages \/ MainKill \/ MainJoin
          BY <5>6 DEF MainStop, StopAction, MainRemoveMessages, MainKill, MainJoin, Past
        <5> QED  BY <3>5, <5>1, <5>2, <5>3, <5>4, <5>5, <5>6 DEF Main
      <4> QED  BY <4>1, <4>2, TimePasses DEF InTime
    <3> QED  BY <2>1, <3>2, <3>3, <3>4, <3>5
  <2>2. CASE Reader \/ Ipc \/ SignalThread \/ TunerDelivers \/ UserSignals \/ Tick \/ UNCHANGED vars
    <3>1. UNCHANGED <<mpc, mnext, start_time>>
      BY <2>2 DEF Reader, ReaderGet, ReaderGetWait, ReaderGetWake, ReaderWrite, ReaderTest,
         ReaderFinish, Ipc, IpcWork, IpcReceive, IpcNoQueue, IpcStop, IpcPoll, IpcSetChannel,
         IpcClose, IpcTune, IpcRestart, IpcExtend, IpcLimit, SignalThread, SignalWait, SignalStop,
         SignalExit, ExitAction, TunerDelivers, UserSignals, Tick, vars
    <3>2. Past' = Past  BY <3>1 DEF Past, Putting
    <3> QED  BY <1>3, <3>1, <3>2, TimePasses DEF InTime
  <2> QED  BY <2>1, <2>2 DEF Next
<1> QED  BY <1>1, <1>2, <1>3, <1>4 DEF InTime

\* A recording nobody interrupts, on a disk and in memory that suffice, lasts at least
\* as long as the shortest time it may have been started with, whatever extensions
\* arrive, and whether or not the channel is changed meanwhile.
THEOREM LongEnough == Patient => (Spec => []NotEarly)
<1> SUFFICES ASSUME Patient PROVE Spec => []NotEarly
  OBVIOUS
<1>1. Types /\ ExitLate /\ InTime /\ [Next]_vars => InTime'  BY StepInTime
<1>2. Spec => []ExitLate  BY ExitLateHolds DEF Patient
<1>3. InTime => NotEarly  BY DEF InTime, Past, RanItsTime, NotEarly
<1> QED  BY InitInTime, <1>1, <1>2, <1>3, TypesHold, PTL DEF Spec
-----------------------------------------------------------------------------
(* A recording that ran its time is complete, if a reader that was signalled  *)
(* is out of its wait before main finds the tuner silent.                    *)

SameKind(ch) == ch \in Satellite <=> FirstChannel \in Satellite

Prompt ==
  /\ Steady /\ PromptWake
  /\ ~UseB25 /\ ~MayWriteFail /\ ~MayRunOutOfMemory
  /\ \A m \in Messages : m.ch \in Channels => SameKind(m.ch)

\* A tuner of the same kind is never closed before the end.
TunerOpen ==
  /\ mpc # "done" => tfd
  /\ mpc # "exited" /\ ~retype /\ SameKind(table)
\* A reader that waits at the end has nothing to wait for, but the sentinel;
Drained == (mpc = "quit" \/ Late) /\ rpc = "getwait" => Queued = 0
\* one that has left its loop has written everything.
Finished == rpc \in {"finish", "done"} => Late /\ Len(written) = Len(taken)

AllWritten ==
  /\ ~rerr
  /\ mpc = "done" => rpc = "done"
  /\ Endless => taken = <<>>
  /\ ~Endless => Drained /\ Finished

LEMMA InitAllWritten == Init => TunerOpen /\ AllWritten
<1> SUFFICES ASSUME Init PROVE TunerOpen /\ AllWritten
  OBVIOUS
<1>1. TunerOpen  BY DEF Init, TunerOpen, SameKind
<1>2. ~rerr /\ mpc = "start" /\ rpc = "get" /\ taken = <<>>  BY DEF Init
<1> QED  BY <1>1, <1>2 DEF AllWritten, Drained, Finished

LEMMA StepTunerOpen == ASSUME Prompt, Types, TunerOpen, [Next]_vars PROVE TunerOpen'
<1> USE DEF TunerOpen, SameKind
<1>1. CASE MainStart \/ MainJoin  BY <1>1 DEF MainStart, MainJoin, CloseTuner
<1>2. CASE Main /\ ~MainStart /\ ~MainJoin
  <2>1. UNCHANGED <<tfd, retype, table>>
    BY <1>2 DEF Main, MainClock, MainLoop, MainNoMemory, MainRead, MainReadNothing, MainQuit,
       MainSentinel, MainPut, MainPutWait, MainPutWake, MainDue, MainStop, StopAction,
       MainRemoveMessages, MainKill
  <2>2. mpc' # "exited" /\ (mpc = "done" => mpc' = "done")
    <3>1. mnext \in {"loop", "due", "drain", "rmid"}  BY DEF Types, MainTypes
    <3> QED
      BY <1>2, <3>1 DEF Main, MainClock, MainLoop, MainNoMemory, MainRead, MainReadNothing, MainQuit,
       MainSentinel, MainPut, MainPutWait, MainPutWake, PutRetry, MainDue, MainStop, StopAction,
       MainRemoveMessages, MainKill
  <2> QED  BY <2>1, <2>2
<1>3. ASSUME NEW m \in Messages, IpcReceive(m) PROVE TunerOpen'
  <2>1. UNCHANGED <<tfd, mpc>>  BY <1>3 DEF IpcReceive
  <2>2. CASE m.ch # table /\ m.ch \in Channels
    <3>1. SameKind(m.ch)  BY <2>2 DEF Prompt
    <3>2. table' = m.ch /\ retype' = ((m.ch \in Satellite) # (table \in Satellite))
      BY <1>3, <2>2 DEF IpcReceive
    <3>3. (m.ch \in Satellite) = (table \in Satellite)  BY <3>1
    <3>4. ~retype'  BY ONLY <3>2, <3>3
    <3> QED  BY <2>1, <3>1, <3>2, <3>4
  <2>3. CASE ~(m.ch # table /\ m.ch \in Channels)
    <3>1. UNCHANGED <<table, retype>>  BY <1>3, <2>3 DEF IpcReceive
    <3> QED  BY <2>1, <3>1
  <2> QED  BY <2>2, <2>3
<1>4. CASE IpcTune
  <2>1. UNCHANGED <<mpc, retype, table>> /\ (tfd => tfd')  BY <1>4 DEF IpcTune
  <2> QED  BY <2>1
<1>5. CASE IpcClose  BY <1>5 DEF IpcClose
<1>6. CASE Reader \/ IpcNoQueue \/ IpcStop \/ IpcPoll \/ IpcSetChannel \/ IpcRestart \/ IpcExtend
           \/ IpcLimit \/ SignalThread \/ TunerDelivers \/ UserSignals \/ Tick \/ UNCHANGED vars
  <2>1. UNCHANGED <<tfd, mpc, retype, table>>
    BY <1>6 DEF Reader, ReaderGet, ReaderGetWait, ReaderGetWake, ReaderWrite, ReaderTest,
       ReaderFinish, IpcNoQueue, IpcStop, IpcPoll, IpcSetChannel, IpcRestart, IpcExtend, IpcLimit,
       SignalThread, SignalWait, SignalStop, SignalExit, ExitAction, TunerDelivers, UserSignals,
       Tick, vars
  <2> QED  BY <2>1
<1> QED  BY <1>1, <1>2, <1>3, <1>4, <1>5, <1>6 DEF Next, Ipc, IpcWork

\* The end of main's loop.
LEMMA StepDrained ==
  ASSUME Prompt, Types, Sentinel, ExitLate, TunerOpen, ~rerr, Drained, [Next]_vars
  PROVE  Drained'
<1>0. /\ mnext \in {"loop", "due", "drain", "rmid"}
      /\ Putting => (mblk = NullBlock <=> mnext = "rmid")
      /\ mpc # "done" => tfd
      /\ f_exit => Late
      /\ PromptWake /\ ~MayRunOutOfMemory
  BY DEF Types, MainTypes, TunerOpen, ExitLate, Prompt
<1>1. CASE MainReadNothing
  <2>1. tfd => ~(rpc = "getwait" /\ queue # <<>>)  BY <1>0, <1>1 DEF MainReadNothing
  <2>2. tfd /\ UNCHANGED <<queue, rpc>>  BY <1>0, <1>1 DEF MainReadNothing
  <2>3. queue = <<>> => Queued' = 0  BY <2>2 DEF Queued
  <2> QED  BY <2>1, <2>2, <2>3 DEF Drained
<1>2. CASE MainPut
  <2>1. rpc' = rpc /\ Queued' = Queued + AtMain  BY <1>2, PutCounts DEF MainPut
  <2>2. CASE Late
    <3>1. AtMain = 0  BY <1>0, <1>2, <2>2 DEF MainPut, AtMain, Late, Putting
    <3> QED  BY <2>1, <2>2, <3>1, Counts DEF Drained
  <2>3. CASE ~Late
    <3>1. ~Late' /\ mpc' # "quit"
      BY <1>0, <1>2, <2>3 DEF MainPut, Late, Putting
    <3> QED  BY <3>1 DEF Drained
  <2> QED  BY <2>2, <2>3
<1>3. CASE Main /\ ~MainReadNothing /\ ~MainPut
  <2>1. UNCHANGED queue /\ rpc' \in {rpc, "done"}
    BY <1>3 DEF Main, MainStart, MainClock, MainLoop, MainNoMemory, MainRead, MainQuit,
       MainSentinel, MainPutWait, MainPutWake, MainDue, MainStop, StopAction,
       MainRemoveMessages, MainKill, MainJoin
  <2>2. CASE rpc' = "getwait"
    <3>1. (mpc' = "quit" \/ Late') => mpc = "quit" \/ Late
      <4>1. CASE MainStart  BY <2>2, <4>1 DEF MainStart, Late, Putting
      <4>2. CASE MainLoop
        <5>1. CASE f_exit  BY <1>0, <5>1
        <5>2. CASE ~f_exit  BY <4>2, <5>2 DEF MainLoop, Late, Putting
        <5> QED  BY <5>1, <5>2
      <4>3. CASE MainClock \/ MainNoMemory \/ MainRead \/ MainQuit \/ MainSentinel
        BY <1>0, <4>3 DEF MainClock, MainNoMemory, MainRead, MainQuit, MainSentinel, Late, Putting
      <4>4. CASE MainPutWait  BY <4>4 DEF MainPutWait, Late, Putting
      <4>5. CASE MainPutWake
        <5>1. mpc = "putwait" /\ mpc' \in {mnext, "put"} /\ mnext' = mnext
          BY <4>5 DEF MainPutWake, PutRetry
        <5> QED  BY <1>0, <5>1 DEF Late, Putting
      <4>6. CASE MainDue \/ MainStop \/ MainRemoveMessages \/ MainKill \/ MainJoin
        BY <4>6 DEF MainDue, MainStop, StopAction, MainRemoveMessages, MainKill, MainJoin, Late, Putting
      <4> QED  BY <1>3, <4>1, <4>2, <4>3, <4>4, <4>5, <4>6 DEF Main
    <3>2. Queued' = Queued /\ rpc = "getwait"  BY <2>1, <2>2 DEF Queued
    <3> QED  BY <3>1, <3>2 DEF Drained
  <2> QED  BY <2>2 DEF Drained
<1>4. CASE ReaderGetWait
  <2>1. queue = <<>> /\ queue' = queue  BY <1>4 DEF ReaderGetWait
  <2>2. Queued' = 0  BY <2>1 DEF Queued
  <2> QED  BY <2>2 DEF Drained
<1>5. CASE ReaderGet \/ ReaderGetWake \/ ReaderWrite \/ ReaderTest \/ ReaderFinish
  <2>1. rpc' # "getwait"
    BY <1>5 DEF ReaderGet, ReaderGetWake, GetRetry, ReaderWrite, ReaderTest, ReaderFinish
  <2> QED  BY <2>1 DEF Drained
<1>6. CASE Ipc \/ SignalThread \/ TunerDelivers \/ UserSignals \/ Tick \/ UNCHANGED vars
  <2>1. UNCHANGED <<queue, rpc, mpc, mnext>>
    BY <1>6 DEF Ipc, IpcWork, IpcReceive, IpcNoQueue, IpcStop, IpcPoll, IpcSetChannel, IpcClose,
       IpcTune, IpcRestart, IpcExtend, IpcLimit, SignalThread, SignalWait, SignalStop, SignalExit,
       ExitAction, TunerDelivers, UserSignals, Tick, vars
  <2> QED  BY <2>1 DEF Drained, Late, Putting, Queued
<1> QED  BY <1>1, <1>2, <1>3, <1>4, <1>5, <1>6 DEF Next, Reader

\* What is nowhere on the way is in the file.
LEMMA NothingOnTheWay ==
  ASSUME Types, Whole, held = <<>>, Late, AtReader = 0, Queued = 0
  PROVE  Len(written) = Len(taken)
<1>1. AtMain = 0  BY DEF Types, MainTypes, Late, AtMain, Putting
<1>2. Passed = Len(written)  BY Counts DEF Passed
<1> QED  BY <1>1, <1>2, Counts DEF Whole

LEMMA StepFinished ==
  ASSUME Prompt, ~Endless, Types, Order, Sentinel, ExitLate, TunerOpen, NoLoss, ~rerr,
         Drained, Finished, [Next]_vars
  PROVE  Finished'
<1>0. held = <<>> /\ (rpc # "done" => Whole) /\ (f_exit => Late)
  <2>1. ~failed  BY DEF Prompt, Types, ReaderTypes, FailedTypes
  <2> QED  BY <2>1 DEF Prompt, Order, InOrder, NoLoss, ExitLate
<1>1. CASE Main
  <2>1. UNCHANGED written /\ rpc' = rpc
    <3>1. CASE MainStart  BY <3>1 DEF MainStart, TunerOpen
    <3>2. CASE Main /\ ~MainStart
      BY <3>2 DEF Main, MainClock, MainLoop, MainNoMemory, MainRead, MainReadNothing, MainQuit,
         MainSentinel, MainPut, MainPutWait, MainPutWake, MainDue, MainStop, StopAction,
         MainRemoveMessages, MainKill, MainJoin
    <3> QED  BY <1>1, <3>1, <3>2
  <2>2. Late => UNCHANGED taken
    BY <1>1 DEF Main, MainStart, MainClock, MainLoop, MainNoMemory, MainRead, MainReadNothing,
       MainQuit, MainSentinel, MainPut, MainPutWait, MainPutWake, MainDue, MainStop, StopAction,
       MainRemoveMessages, MainKill, MainJoin, Late, Putting
  <2> QED  BY <1>1, <2>1, <2>2, LateStays DEF Finished
<1>2. CASE Reader
  <2>1. /\ UNCHANGED <<mpc, mnext, taken>> /\ UNCHANGED Late
    BY <1>2 DEF Reader, ReaderGet, ReaderGetWait, ReaderGetWake, ReaderWrite, ReaderTest,
       ReaderFinish, Late, Putting
  <2>2. CASE ReaderGet
    <3>1. /\ queue \in Seq(Serials \cup {NullBlock}) /\ queue # <<>> /\ rpc = "get"
          /\ UNCHANGED written /\ rpc' = (IF Head(queue) = NullBlock THEN "done" ELSE "write")
      BY <2>2 DEF ReaderGet, Types, SharedTypes
    <3>2. Len(queue) \in Nat \ {0} /\ Head(queue) = queue[1]  BY ONLY <3>1, HeadTailProperties
    <3>3. CASE Head(queue) = NullBlock
      <4>1. Len(queue) = 1 /\ Late  BY <3>2, <3>3 DEF Sentinel, Late
      <4>2. Queued = 0 /\ AtReader = 0  BY <3>1, <3>2, <3>3, <4>1 DEF Queued, AtReader
      <4>3. Len(written) = Len(taken)  BY <1>0, <3>1, <4>1, <4>2, NothingOnTheWay
      <4> QED  BY <2>1, <3>1, <4>1, <4>3 DEF Finished
    <3>4. CASE Head(queue) # NullBlock  BY <3>1, <3>4 DEF Finished
    <3> QED  BY <3>3, <3>4
  <2>3. CASE ReaderGetWake
    <3>1. /\ rpc = "getwait" /\ UNCHANGED written /\ (f_exit' => f_exit)
          /\ rpc' = (IF f_exit' THEN "done" ELSE "get")
      <4>1. f_exit' = f_exit  BY <2>3 DEF ReaderGetWake, Prompt, Steady, Undisturbed
      <4>2. rpc = "getwait" /\ UNCHANGED written /\ rpc' = (IF f_exit' THEN "done" ELSE "get")
        BY <2>3 DEF ReaderGetWake, GetRetry
      <4> QED  BY <4>1, <4>2
    <3>2. CASE f_exit'
      <4>1. Late  BY <1>0, <3>1, <3>2
      <4>2. Queued = 0 /\ AtReader = 0  BY <3>1, <4>1 DEF Drained, AtReader
      <4>3. Len(written) = Len(taken)  BY <1>0, <3>1, <4>1, <4>2, NothingOnTheWay
      <4> QED  BY <2>1, <3>1, <4>1, <4>3 DEF Finished
    <3>3. CASE ~f_exit'  BY <3>1, <3>3 DEF Finished
    <3> QED  BY <3>2, <3>3
  <2>4. CASE ReaderTest
    <3>1. /\ rpc = "test" /\ UNCHANGED written
          /\ rpc' = (IF NormalExit \/ rerr THEN "finish" ELSE "get")
      BY <2>4 DEF ReaderTest
    <3>2. CASE NormalExit
      <4>1. Late /\ queue = <<>>  BY <1>0, <3>2 DEF NormalExit
      <4>2. Queued = 0 /\ AtReader = 0  BY <3>1, <4>1 DEF Queued, AtReader
      <4>3. Len(written) = Len(taken)  BY <1>0, <3>1, <4>1, <4>2, NothingOnTheWay
      <4> QED  BY <2>1, <3>1, <4>1, <4>3 DEF Finished
    <3>3. CASE ~NormalExit  BY <3>1, <3>3 DEF Finished
    <3> QED  BY <3>2, <3>3
  <2>5. CASE ReaderFinish
    <3>1. rpc = "finish" /\ UNCHANGED written  BY <2>5 DEF ReaderFinish
    <3> QED  BY <2>1, <3>1 DEF Finished
  <2>6. CASE ReaderGetWait \/ ReaderWrite
    <3>1. rpc' \in {"getwait", "test"}  BY <2>6 DEF ReaderGetWait, ReaderWrite
    <3> QED  BY <3>1 DEF Finished
  <2> QED  BY <1>2, <2>2, <2>3, <2>4, <2>5, <2>6 DEF Reader
<1>3. CASE Ipc \/ SignalThread \/ TunerDelivers \/ UserSignals \/ Tick \/ UNCHANGED vars
  <2>1. UNCHANGED <<written, taken, rpc, mpc, mnext>>
    BY <1>3 DEF Ipc, IpcWork, IpcReceive, IpcNoQueue, IpcStop, IpcPoll, IpcSetChannel, IpcClose,
       IpcTune, IpcRestart, IpcExtend, IpcLimit, SignalThread, SignalWait, SignalStop, SignalExit,
       ExitAction, TunerDelivers, UserSignals, Tick, vars
  <2> QED  BY <2>1 DEF Finished, Late, Putting
<1> QED  BY <1>1, <1>2, <1>3 DEF Next

LEMMA StepAllWritten ==
  ASSUME Prompt, Types, Order, Sentinel, ExitLate, TunerOpen, Endless \/ NoLoss, AllWritten,
         [Next]_vars
  PROVE  AllWritten'
<1>1. ~rerr'
  <2>1. CASE ReaderWrite \/ ReaderFinish
    <3>1. rerr' = rerr  BY <2>1 DEF ReaderWrite, ReaderFinish, Prompt
    <3> QED  BY <3>1 DEF AllWritten
  <2>2. CASE [Next]_vars /\ ~ReaderWrite /\ ~ReaderFinish
    <3>1. rerr' = rerr
      BY <2>2 DEF Next, Main, MainStart, MainClock, MainLoop, MainNoMemory, MainRead,
         MainReadNothing, MainQuit, MainSentinel, MainPut, MainPutWait, MainPutWake, MainDue,
         MainStop, StopAction, MainRemoveMessages, MainKill, MainJoin, Reader, ReaderGet,
         ReaderGetWait, ReaderGetWake, ReaderTest, Ipc, IpcWork, IpcReceive, IpcNoQueue, IpcStop,
         IpcPoll, IpcSetChannel, IpcClose, IpcTune, IpcRestart, IpcExtend, IpcLimit, SignalThread,
         SignalWait, SignalStop, SignalExit, ExitAction, TunerDelivers, UserSignals, Tick, vars
    <3> QED  BY <3>1 DEF AllWritten
  <2> QED  BY <2>1, <2>2
<1>2. (mpc' = "done" => rpc' = "done") /\ (Endless => taken' = <<>>)
  <2>1. CASE Main
    <3>1. mnext \in {"loop", "due", "drain", "rmid"}  BY DEF Types, MainTypes
    <3>2. CASE MainJoin  BY <3>2 DEF MainJoin, AllWritten
    <3>3. CASE MainRead
      <4>1. mpc' = "put" /\ (Endless => taken' = taken)  BY <3>3 DEF MainRead, Log
      <4> QED  BY <4>1 DEF AllWritten
    <3>4. CASE Main /\ ~MainJoin /\ ~MainRead
      <4>1. mpc' # "done" /\ taken' = taken
        BY <3>1, <3>4 DEF Main, MainStart, MainClock, MainLoop, MainNoMemory, MainReadNothing,
           MainQuit, MainSentinel, MainPut, MainPutWait, MainPutWake, PutRetry, MainDue, MainStop,
           StopAction, MainRemoveMessages, MainKill
      <4> QED  BY <4>1 DEF AllWritten
    <3> QED  BY <2>1, <3>2, <3>3, <3>4
  <2>2. CASE Reader
    <3>1. UNCHANGED <<mpc, taken>> /\ rpc # "done"
      BY <2>2 DEF Reader, ReaderGet, ReaderGetWait, ReaderGetWake, ReaderWrite, ReaderTest,
         ReaderFinish
    <3> QED  BY <3>1 DEF AllWritten
  <2>3. CASE Ipc \/ SignalThread \/ TunerDelivers \/ UserSignals \/ Tick \/ UNCHANGED vars
    <3>1. UNCHANGED <<mpc, rpc, taken>>
      BY <2>3 DEF Ipc, IpcWork, IpcReceive, IpcNoQueue, IpcStop, IpcPoll, IpcSetChannel, IpcClose,
         IpcTune, IpcRestart, IpcExtend, IpcLimit, SignalThread, SignalWait, SignalStop,
         SignalExit, ExitAction, TunerDelivers, UserSignals, Tick, vars
    <3> QED  BY <3>1 DEF AllWritten
  <2> QED  BY <2>1, <2>2, <2>3 DEF Next
<1>3. ~Endless => Drained' /\ Finished'
  <2>1. ~rerr /\ (~Endless => Drained /\ Finished)  BY DEF AllWritten
  <2> QED  BY <2>1, StepDrained, StepFinished
<1> QED  BY <1>1, <1>2, <1>3 DEF AllWritten

\* A recording without decoder and splitter that runs its time has in its file everything
\* main read from the tuner, if a reader that was signalled is out of its wait within main's
\* half second on read() and nothing closes the tuner in between: the order in which main
\* stops the tuner, drains it, raises f_exit and enqueues the NULL loses nothing.
THEOREM Complete == Prompt => (Spec => []CompleteOnTimeUp)
<1> SUFFICES ASSUME Prompt PROVE Spec => []CompleteOnTimeUp
  OBVIOUS
<1> DEFINE Kept == Endless \/ NoLoss
<1>1. Types /\ TunerOpen /\ [Next]_vars => TunerOpen'  BY StepTunerOpen
<1>2. Types /\ Order /\ Sentinel /\ ExitLate /\ TunerOpen /\ Kept /\ AllWritten /\ [Next]_vars
        => AllWritten'
  BY StepAllWritten
<1>3. (Spec => []ExitLate) /\ (Spec => []Kept)
  BY ExitLateHolds, NoLossHolds DEF Prompt, Steady
<1>4. Types /\ Order /\ Kept /\ AllWritten => CompleteOnTimeUp
  <2> SUFFICES ASSUME Types, Order, Kept, AllWritten, mpc = "done", NEW i \in DOMAIN taken
               PROVE  \E j \in DOMAIN Output : Output[j] = taken[i]
    BY DEF CompleteOnTimeUp
  <2>1. /\ written \in Seq(Serials) /\ taken \in Seq(Serials) /\ tail \in Seq(Serial)
    BY DEF Types, MainTypes, ReaderTypes
  <2>2. written \in Seq(Serial)
    <3>1. Serials \subseteq Serial  OBVIOUS
    <3> QED  BY ONLY <2>1, <3>1, SeqMonotonic
  <2>3. DOMAIN taken = 1 .. Len(taken) /\ Len(taken) \in Nat /\ Len(tail) \in Nat
    BY ONLY <2>1, LenProperties
  <2>4. taken # <<>>  BY <2>3
  <2>5. Len(written) = Len(taken) /\ written[i] = taken[i]
    <3>1. ~Endless  BY <2>4 DEF AllWritten
    <3>2. Len(written) = Len(taken)  BY <3>1 DEF AllWritten, Finished
    <3>3. i \in 1 .. Len(written)  BY <2>3, <3>2
    <3> QED  BY <3>1, <3>2, <3>3 DEF NoLoss, Prefix
  <2>6. /\ Output \in Seq(Serial) /\ Len(Output) = Len(written) + Len(tail)
        /\ \A j \in 1 .. Len(written) + Len(tail) :
             Output[j] = IF j <= Len(written) THEN written[j] ELSE tail[j - Len(written)]
    BY ONLY <2>1, <2>2, ConcatProperties DEF Output
  <2>7. DOMAIN Output = 1 .. Len(written) + Len(tail)  BY ONLY <2>6, LenProperties
  <2>8. i \in 1 .. Len(written) + Len(tail) /\ i <= Len(written)  BY ONLY <2>3, <2>5, i \in DOMAIN taken
  <2>9. i \in DOMAIN Output /\ Output[i] = taken[i]  BY ONLY <2>5, <2>6, <2>7, <2>8
  <2> QED  BY <2>9
<1> HIDE DEF Kept
<1> QED
  BY InitAllWritten, <1>1, <1>2, <1>3, <1>4, TypesHold, OrderHolds, SentinelHolds, PTL DEF Spec
=============================================================================
