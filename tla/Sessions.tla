----------------------------- MODULE Sessions -----------------------------
(***************************************************************************)
(* A program's way to a tuner and back: tune(), close_tuner() and            *)
(* parse_time() of recpt1core.c, called by recpt1 (once, and again when       *)
(* recpt1ctl changes the kind of channel), by recpt1 as a http server (once    *)
(* per connection) and by checksignal.  The recording itself is module         *)
(* Recorder; here it is one state, which ends with f_exit up and any number    *)
(* of blocks left in the queue.                                                *)
(***************************************************************************)
EXTENDS Channels, FiniteSets

CONSTANTS
  Programs,     \* of "recpt1", "http", "checksignal"
  NamesOf(_),   \* per program: the channels it is asked for
  bsdev, isdb_t_dev,     \* the lists of device files
  Texts,        \* recording times, see parse_time
  INT_MAX,      \* the largest int; the code's is 2^31 - 1
  MAX_RETRY,    \* 2 in the code
  MaxFds,       \* connections that a process can hold open
  MaxChanges    \* channel changes in the whole run

Elements(s) == {s[i] : i \in DOMAIN s}
Devices == Elements(bsdev) \cup Elements(isdb_t_dev)
None == "none"        \* no device
Names == ({"BS"} \X Nat \X Nat) \cup ({"CS", "C", Plain} \X Nat)

\* The forms of a recording time
Dash == [kind |-> "dash"]
IsTime(t) ==
  \/ t = Dash
  \/ t.kind = "colon" /\ (t.n \in Nat \X Nat \/ t.n \in Nat \X Nat \X Nat)
  \/ t.kind = "letters" /\ t.minus \in BOOLEAN /\ t.parts \in Seq(Nat \X {"H", "M", "S"})

ASSUME SessionsAssumption ==
  /\ {INT_MAX, MAX_RETRY, MaxFds, MaxChanges} \subseteq Nat
  /\ bsdev \in Seq(STRING) /\ isdb_t_dev \in Seq(STRING) /\ None \notin Devices
  /\ \A p \in Programs : NamesOf(p) \subseteq Names
  /\ \A t \in Texts : IsTime(t)

VARIABLES
  program, device,  \* which program; the device named with --device, or None
  busy,             \* the devices other programs have
  pc, caller,       \* caller: the thread that tunes, "main" or "ipc"
  name, table,      \* the channel asked for; tdata.table
  lp, count,        \* tune's loop variables
  tfd, open,        \* the descriptor; the device files the kernel has open for it
  lnb,              \* the devices whose LNB is on because it said so
  mhz,              \* per device: what it is tuned to
  text, recsec, indefinite,
  f_exit, blocked,  \* the exit flag; signals are blocked, for the signal thread
  pending,          \* a signal waits for that thread to take it
  sigthread,        \* "none", "waits", "gone"
  queue,            \* "none", "new", "left" (blocks are left), "freed"
  sockets,          \* connections that are open
  splitter,         \* whether there is a splitter; how many are allocated
  splitters,
  changes,
  tried,            \* history: devices this tune() failed on
  failed            \* history: failed tune()s of the server

what     == <<name, table>>
search   == <<lp, count, tried>>
hardware == <<tfd, open, mhz, lnb>>
signals  == <<f_exit, blocked, pending, sigthread>>
server   == <<queue, sockets, splitter, splitters, failed>>
time     == <<text, recsec, indefinite>>
given    == <<program, device, busy>>
place    == <<pc, caller>>
vars == <<given, place, what, search, hardware, time, signals, server, changes>>

-----------------------------------------------------------------------------
(* parse_time: a text is "-"; or numbers with colons; or numbers with letters, *)
(* in any order, after a minus or not.                                         *)

\* int wraps around
Wrap(n) == ((n + INT_MAX + 1) % (2 * (INT_MAX + 1))) - INT_MAX - 1

\* Hours and minutes, and seconds if there are any
MinutesFirst(n) == (n[1] * 60) + n[2] + (IF Len(n) = 3 THEN n[3] ELSE 0)      \* mutant
Colon(n) == (n[1] * 3600) + (n[2] * 60) + (IF Len(n) = 3 THEN n[3] ELSE 0)

\* The number at the front counts if the letter occurs anywhere; what stands before
\* the letter is skipped.
Found(parts, letter) == {i \in DOMAIN parts : parts[i][2] = letter}
Front(parts) == IF parts = <<>> THEN 0 ELSE parts[1][1]
Value(parts, letter, factor) == IF Found(parts, letter) = {} THEN 0 ELSE factor * Front(parts)
After(parts, letter) ==
  IF Found(parts, letter) = {} THEN parts
  ELSE LET first == CHOOSE i \in Found(parts, letter) : \A j \in Found(parts, letter) : i <= j
       IN  SubSeq(parts, first + 1, Len(parts))

Letters(parts) ==
  LET minutes == After(parts, "H")
      seconds == After(minutes, "M")
  IN  Value(parts, "H", 3600) + Value(minutes, "M", 60) + Front(seconds)

parse_time(t, was) ==
  CASE t.kind = "dash" -> -1
    [] t.kind = "colon" -> Wrap(Colon(t.n))
    [] t.kind = "letters" -> Wrap((IF t.minus THEN -1 ELSE 1) * (was + Letters(t.parts)))

-----------------------------------------------------------------------------
Init ==
  /\ program \in Programs /\ device \in {None} \cup Devices /\ busy \in SUBSET Devices
  /\ pc = (IF program = "http" THEN "accept" ELSE "tune") /\ caller = "main"
  /\ name \in (IF program = "http" THEN {<<Plain, 0>>} ELSE NamesOf(program))
  /\ table = Invalid
  /\ lp = 0 /\ count = 0 /\ tried = {}
  /\ tfd = None /\ open = {} /\ mhz = [d \in Devices |-> 0] /\ lnb = {}
  /\ text = Dash
  /\ recsec = (IF program = "http" THEN parse_time(Dash, 0) ELSE 0)
  /\ indefinite = (program = "http")
  /\ f_exit = FALSE /\ pending = FALSE
  /\ blocked = (program = "checksignal")
  /\ sigthread = (IF program = "checksignal" THEN "waits" ELSE "none")
  /\ queue = (IF program = "checksignal" THEN "none" ELSE "new")
  /\ sockets = 0 /\ splitter = FALSE /\ splitters = 0 /\ failed = 0
  /\ changes = 0

tune_persistent == program = "checksignal"
Satellite == table.type = "S"

\* The end of the process: the kernel closes its files, and leaves the LNB as it is.
Exit == pc' = "exit"
Go(where) == pc' = where /\ UNCHANGED caller

\* LNB_ENABLE and LNB_DISABLE.  When one fails there is a warning and nothing else; and
\* the driver does nothing while two of the card's satellite channels are used, see
\* Pt1Driver.
PowerOn(d)  == lnb' \in {lnb, lnb \cup {d}}
PowerOff(d) == lnb' \in {lnb, lnb \ {d}}

\* close_tuner: what tdata.table is now decides whether it is asked for.
Close(d) ==
  /\ tfd' = None /\ open' = open \ {d}
  /\ IF Satellite THEN PowerOff(d) ELSE UNCHANGED lnb

-----------------------------------------------------------------------------
(* tune() *)

\* The device of this turn: the one named, or the next of the list
List == IF Satellite THEN bsdev ELSE isdb_t_dev
Named == device # None /\ caller = "main"
Candidate == IF Named THEN device ELSE List[lp]
OrNext(otherwise) == IF Named THEN otherwise ELSE "next"

Lookup ==
  /\ pc = "tune"
  /\ table' = searchrecoff(name)
  /\ lp' = 0 /\ count' = 0 /\ tried' = {}
  /\ Go(IF table' = Invalid THEN "untuned" ELSE OrNext("open"))
  /\ UNCHANGED <<given, name, hardware, time, signals, server, changes>>

\* The next device, or "all tuners cannot be used"
FirstOnly == lp < 1                                            \* mutant
More == lp < Len(List)
NextDevice ==
  /\ pc = "next"
  /\ lp' = lp + 1 /\ count' = 0
  /\ Go(IF More THEN "open" ELSE "untuned")
  /\ UNCHANGED <<given, what, tried, hardware, time, signals, server, changes>>

\* open() fails on a device that somebody has; else a satellite channel's LNB comes next.
OpenFails ==
  /\ pc = "open" /\ Candidate \in busy
  /\ tfd' = None /\ tried' = tried \cup {Candidate}
  /\ Go(OrNext("untuned"))
  /\ UNCHANGED <<given, what, lp, count, open, mhz, lnb, time, signals, server, changes>>

Open ==
  /\ pc = "open" /\ Candidate \notin busy
  /\ tfd' = Candidate /\ open' = open \cup {Candidate}
  /\ IF Satellite THEN PowerOn(Candidate) ELSE UNCHANGED lnb
  /\ Go("set")
  /\ UNCHANGED <<given, what, search, mhz, time, signals, server, changes>>

\* SET_CHANNEL tunes by the kind of the device, which --device may have chosen wrong.
Kind(d) == IF d \in Elements(bsdev) THEN "S" ELSE "T"
Suits(d) == Kind(d) = "T" \/ table.freq < MAX_BS_CHANNEL

\* It succeeds.  After MAX_RETRY failures on a device of the list that no longer
\* helps: the loop ends, and count is all that is looked at.
LastRetryLost == tune_persistent /\ ~Named /\ count >= MAX_RETRY

SetChannel ==
  /\ pc = "set" /\ Suits(tfd)
  /\ mhz' = [mhz EXCEPT ![tfd] = Tuned([table EXCEPT !.type = Kind(tfd)])]
  /\ IF LastRetryLost
     THEN Close(tfd) /\ tried' = tried \cup {tfd} /\ Go("next")
     ELSE Go("tuned") /\ UNCHANGED <<tfd, open, lnb, tried>>
  /\ UNCHANGED <<given, what, lp, count, time, signals, server, changes>>

\* It fails: a plain program closes the file, and leaves the LNB.
PlainFailure ==
  /\ pc = "set" /\ ~tune_persistent
  /\ open' = open \ {tfd} /\ tried' = tried \cup {tfd}
  /\ tfd' = (IF Named THEN tfd ELSE None)
  /\ Go(OrNext("untuned"))
  /\ UNCHANGED <<given, what, lp, count, mhz, lnb, time, signals, server, changes>>

\* A persistent one looks at f_exit and tries again, on a device of the list
\* MAX_RETRY times.
NeverTold == FALSE                                            \* mutant
Told == f_exit
NextCount == count + 1

AttemptFails ==
  /\ pc = "set" /\ tune_persistent
  /\ IF LastRetryLost THEN Close(tfd) /\ tried' = tried \cup {tfd} /\ Go("next")
                      ELSE Go("again") /\ UNCHANGED <<tfd, open, lnb, tried>>
  /\ UNCHANGED <<given, what, lp, count, mhz, time, signals, server, changes>>

Retry ==
  /\ pc = "again" /\ ~Told
  /\ count' = (IF Named THEN count ELSE NextCount)
  /\ Go("set")
  /\ UNCHANGED <<given, what, lp, tried, hardware, time, signals, server, changes>>

GiveUp ==
  /\ pc = "again" /\ Told
  /\ Close(tfd)
  /\ Go("untuned")
  /\ UNCHANGED <<given, what, search, mhz, time, signals, server, changes>>

Tune ==
  \/ Lookup \/ NextDevice \/ OpenFails \/ Open \/ SetChannel \/ PlainFailure
  \/ AttemptFails \/ Retry \/ GiveUp

\* tune() has failed.  The programs end; the server goes back to accept(), with the
\* connection and the splitter as they are; the ipc thread just ends.
Untuned ==
  /\ pc = "untuned" /\ caller = "main"
  /\ IF program = "http"
     THEN Go("accept") /\ failed' = failed + 1
     ELSE Exit /\ UNCHANGED <<caller, failed>>
  /\ UNCHANGED <<given, what, search, hardware, time, signals, queue, sockets, splitter, splitters,
                 changes>>

-----------------------------------------------------------------------------
(* recpt1 and its server *)

\* accept(), the request, a splitter if services are named now or were before
Accept ==
  /\ pc = "accept" /\ sockets < MaxFds
  /\ name' \in NamesOf("http")
  /\ sockets' = sockets + 1
  /\ splitter' \in BOOLEAN
  /\ splitters' = splitters + (IF splitter' THEN 1 ELSE 0)
  /\ Go("tune")
  /\ UNCHANGED <<given, table, search, hardware, time, signals, queue, failed, changes>>

AcceptFails ==
  /\ pc = "accept" /\ sockets >= MaxFds
  /\ Exit
  /\ UNCHANGED <<given, caller, what, search, hardware, time, signals, server, changes>>

\* The recording time, the threads, START_REC; signals are blocked from now on.
Spawn ==
  /\ pc = "tuned" /\ caller = "main" /\ program # "checksignal"
  /\ IF program = "recpt1"
     THEN /\ text' \in Texts
          /\ recsec' = parse_time(text', recsec)
          /\ indefinite' = (recsec' = -1)
     ELSE UNCHANGED time
  /\ blocked' = TRUE /\ sigthread' = "waits"
  /\ Go("recording")
  /\ UNCHANGED <<given, what, search, hardware, f_exit, pending, server, changes>>

\* recpt1ctl names a channel of the other kind: the table changes, then the tuner is
\* closed by it, and tune() looks for another one.
ChangeKind ==
  /\ pc = "recording" /\ tfd # None /\ changes < MaxChanges
  /\ changes' = changes + 1
  /\ name' \in NamesOf(program)
  /\ table' = searchrecoff(name') /\ table' # Invalid /\ table'.type # table.type
  /\ tfd' = None /\ open' = open \ {tfd}
  /\ IF table'.type = "S" THEN PowerOff(tfd) ELSE UNCHANGED lnb
  /\ pc' = "tune" /\ caller' = "ipc"
  /\ UNCHANGED <<given, search, mhz, time, signals, server>>

\* The ipc thread goes on recording, or finds START_REC refused.
Changed ==
  /\ pc \in {"tuned", "untuned"} /\ caller = "ipc"
  /\ pc' = "recording" /\ caller' = "main"
  /\ UNCHANGED <<given, what, search, hardware, time, signals, server, changes>>

\* The recording ends: its time, the client, an error or a signal has raised f_exit,
\* the threads are joined, blocks may be left.
RecordingEnds ==
  /\ pc = "recording"
  /\ f_exit' = TRUE /\ sigthread' = "none"
  /\ queue' \in {"new", "left"}
  /\ Go("close")
  /\ UNCHANGED <<given, what, search, hardware, time, blocked, pending, sockets, splitter,
                 splitters, failed, changes>>

\* close_tuner; then recpt1 and the server free the queue.
CloseTuner ==
  /\ pc = "close"
  /\ IF tfd = None THEN UNCHANGED <<tfd, open, lnb>> ELSE Close(tfd)
  /\ IF program = "checksignal" THEN Exit ELSE pc' = "destroy"
  /\ UNCHANGED <<given, caller, what, search, mhz, time, signals, server, changes>>

Freed == splitters - (IF splitter THEN 1 ELSE 0)
End ==
  /\ pc = "destroy" /\ program = "recpt1"
  /\ queue' = "freed" /\ splitters' = Freed
  /\ Exit
  /\ UNCHANGED <<given, caller, what, search, hardware, time, signals, sockets, splitter, failed,
                 changes>>

\* The server empties the freed queue, makes a new one, closes the connection and
\* takes f_exit back.  What freed memory holds is anybody's guess.
SameExit == f_exit                                               \* mutant
NoExit == FALSE
OneSocketLess == sockets - 1

NextConnection ==
  /\ pc = "destroy" /\ program = "http"
  /\ queue' = "new" /\ sockets' = OneSocketLess /\ f_exit' = NoExit /\ splitters' = Freed
  /\ Go("accept")
  /\ UNCHANGED <<given, what, search, hardware, time, blocked, pending, sigthread, splitter, failed,
                 changes>>

Crash ==
  /\ pc = "destroy" /\ program = "http"
  /\ queue' = "freed" /\ Exit
  /\ UNCHANGED <<given, caller, what, search, hardware, time, signals, sockets, splitter, splitters,
                 failed, changes>>

-----------------------------------------------------------------------------
(* checksignal, and signals *)

\* The signal is shown once a second until f_exit is up; then SIGUSR1, and the join.
Show ==
  /\ pc = "tuned" /\ program = "checksignal" /\ f_exit
  /\ sigthread' = "none"
  /\ Go("close")
  /\ UNCHANGED <<given, what, search, hardware, time, f_exit, blocked, pending, server, changes>>

\* Somebody sends SIGINT.  A program that does not block it yet dies of it.
Interrupt ==
  /\ pc # "exit" /\ ~pending
  /\ IF blocked THEN pending' = TRUE /\ UNCHANGED pc
                ELSE Exit /\ UNCHANGED pending
  /\ UNCHANGED <<given, caller, what, search, hardware, time, f_exit, blocked, sigthread, server,
                 changes>>

\* The signal thread takes it, once in its life.
TakeSignal ==
  /\ pc # "exit" /\ pending /\ sigthread = "waits"
  /\ pending' = FALSE /\ f_exit' = TRUE /\ sigthread' = "gone"
  /\ UNCHANGED <<given, place, what, search, hardware, time, blocked, server, changes>>

\* Between two connections, other programs take and leave tuners.
Others ==
  /\ pc = "accept"
  /\ \E d \in Devices : busy' = (IF d \in busy THEN busy \ {d} ELSE busy \cup {d})
  /\ UNCHANGED <<program, device, place, what, search, hardware, time, signals, server, changes>>

Main ==
  \/ Tune \/ Untuned \/ Spawn \/ Changed \/ CloseTuner \/ End \/ NextConnection \/ Show

Next ==
  \/ Main \/ Accept \/ AcceptFails \/ ChangeKind \/ RecordingEnds \/ Crash
  \/ Interrupt \/ TakeSignal \/ Others

\* The threads run on.  Nobody has to connect, to send a message or a signal, and a
\* recording need not end.
Spec == Init /\ [][Next]_vars
FairSpec == Spec /\ WF_vars(Main) /\ WF_vars(TakeSignal)
-----------------------------------------------------------------------------
(* Properties *)

InPlan == name[1] # Plain \/ name[2] <= 62

\* A program that has tuned has its tuner open and no other; and if that is a tuner of the
\* channel's kind, it is where the broadcasters' plan has the channel that was asked for,
\* to half a MHz.  Whether its LNB is on the program does not know, and nothing is said
\* of it.
ChannelTuned ==
  pc = "tuned" => /\ open = {tfd}
                  /\ Kind(tfd) = table.type /\ InPlan => OnPlan(mhz[tfd], name)

\* "all tuners cannot be used" means that each has been tried: was busy, or did not
\* tune (or, in checksignal, not before its last attempt).
TriesAll ==
  pc = "untuned" /\ ~Named /\ table # Invalid /\ ~f_exit => tried = Elements(List)

\* A connection begins as the first one did: no tuner, a new queue, no exit flag, and
\* one connection and one splitter at most for each tune() that has failed.
StartsAfresh ==
  pc = "accept" =>
    /\ tfd = None \/ Named
    /\ open = {} /\ queue = "new" /\ ~f_exit /\ sigthread = "none"
    /\ sockets = failed /\ splitters <= failed

InOrder(parts) ==
  \A i, j \in DOMAIN parts :
    i < j => <<parts[i][2], parts[j][2]>> \in {<<"H", "M">>, <<"H", "S">>, <<"M", "S">>}
Weight(letter) == CASE letter = "H" -> 3600 [] letter = "M" -> 60 [] letter = "S" -> 1
Part(parts, letter) ==
  IF \E i \in DOMAIN parts : parts[i][2] = letter
  THEN Weight(letter) * (CHOOSE p \in Elements(parts) : p[2] = letter)[1] ELSE 0
Meant(t) ==
  IF t.kind = "colon" THEN (3600 * t.n[1]) + (60 * t.n[2]) + (IF Len(t.n) = 3 THEN t.n[3] ELSE 0)
  ELSE LET sum == Part(t.parts, "H") + Part(t.parts, "M") + Part(t.parts, "S")
       IN  IF t.minus THEN -sum ELSE sum
Readable(t) ==
  /\ t.kind # "dash" /\ (t.kind = "letters" => InOrder(t.parts))
  /\ Meant(t) \in -INT_MAX - 1 .. INT_MAX

\* The recording time is the number of seconds a reader of the text would name, and
\* "-" means no limit, as nothing else does but minus one second.
TimeRight ==
  pc = "recording" /\ program = "recpt1" =>
    /\ Readable(text) => recsec = Meant(text)
    /\ Readable(text) => (indefinite <=> Meant(text) = -1)
    /\ text = Dash => indefinite

\* A signal ends checksignal, also while it waits for a tuner to find its channel.
StopsOnSignal == (program = "checksignal" /\ pending) ~> pc = "exit"
=============================================================================
