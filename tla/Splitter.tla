----------------------------- MODULE Splitter -----------------------------
(***************************************************************************)
(* The TS splitter (tssplitter_lite.c) under the reader thread's loop.      *)
(*                                                                         *)
(* The stream carries one PAT, which names the services and the PIDs of     *)
(* their PMTs, one PMT per service, which may change version during the     *)
(* recording and lists the service's streams, and the streams.  The         *)
(* splitter passes the packets of the services the user chose.  First,      *)
(* block after block, split_select collects the PIDs of every chosen        *)
(* service; then split_ts filters each block, rewrites every PAT, and       *)
(* collects the PIDs afresh when a PMT changes ("Rescan").                  *)
(*                                                                         *)
(* A PID, a service and a word of --sid are names.  A PMT section is a      *)
(* sequence of cells, Room of which fit a packet: the entries of the list   *)
(* of streams and the CRC, which is one cell; stuffing fills the last       *)
(* packet.  An entry has a header of two cells, the first with type and     *)
(* PID, and cells of descriptors; whoever starts to read among descriptors, *)
(* or at the CRC, takes what is there for a header.                         *)
(***************************************************************************)
EXTENDS Integers, SequencesExt

CONSTANTS
  Pat,         \* the PAT: a sequence of [sid, pid], the NIT's entry left out
  Pmt,         \* PMT PID -> sequence of its versions: [pcr, ca, es]
  Probes,      \* PIDs of the packets that are neither PAT nor PMT
  SidTexts,    \* --sid arguments, as sequences of the words between the commas
  Room,        \* cells of a PMT section that fit a packet
  Cc,          \* 16 in the code: continuity counters count modulo Cc
  PatCounts,   \* bound on the counters a PAT may arrive with
  BlockLen,    \* bound on the packets of one block
  MaxLost      \* bound on the PMT packets lost on the air

PmtPids == DOMAIN Pmt
OneSegPmt == "0x1FC8"
NullPid == "0x1FFF"
EpgPids == {"0x11", "0x12", "0x23", "0x29"}
EpgOneSegPids == {"0x11", "0x27"}
NoSid == "none"
NoPat == [cc |-> -1, pids |-> {}]                  \* pat == NULL

\* Entries e of a stream list as cells: type, PID and length in cells.  Taken for a
\* header, a CRC has a length whose lower bits are stuffing, more than a packet has.
EntryCells(e) ==
  [i \in 1 .. e.len |-> IF i = 1 THEN e ELSE [type |-> "other", pid |-> "descriptor", len |-> 2]]
Crc == [type |-> "crc", pid |-> "crc", len |-> Room]
Stuffing == [type |-> "stuffing", pid |-> NullPid, len |-> Room]
Section == [p \in PmtPids |-> [v \in DOMAIN Pmt[p] |->
              Append(FlattenSeq([i \in DOMAIN Pmt[p][v].es |-> EntryCells(Pmt[p][v].es[i])]), Crc)]]
Parts(p, v) == ((Len(Section[p][v]) - 1) \div Room) + 1

Streams(p, v) == {Pmt[p][v].pcr} \cup Pmt[p][v].ca
                 \cup {e.pid : e \in {x \in ToSet(Pmt[p][v].es) : x.type # "data"}}

\* Every packet of the section starts with an entry, or has but the CRC.
Aligned(p, v) ==
  \A k \in 1 .. Parts(p, v) - 1 : Section[p][v][(k * Room) + 1].type # "other"

AllPids ==
  {"0x00", NullPid, "descriptor", "crc"} \cup PmtPids \cup EpgPids \cup EpgOneSegPids \cup Probes
  \cup UNION {UNION {{Pmt[p][v].pcr} \cup Pmt[p][v].ca \cup {e.pid : e \in ToSet(Pmt[p][v].es)} :
                       v \in DOMAIN Pmt[p]} : p \in PmtPids}

\* Stream lists and versions of a PMT
Entries == [type : STRING \ {"other", "crc", "stuffing"}, pid : STRING, len : Nat \ {0, 1}]
Versions == [pcr : STRING, ca : SUBSET STRING, es : Seq(Entries) \ {<<>>}]

\* A PAT names a service, a section lists a stream, and a PID carries one thing: a PAT, a
\* PMT, a stream; what is read among descriptors or from a CRC has no PMT's PID.
ASSUME SplitterAssumption ==
  /\ Room \in Nat \ {0} /\ Cc \in Nat \ {0, 1} /\ BlockLen \in Nat \ {0} /\ MaxLost \in Nat
  /\ PatCounts \subseteq 0 .. Cc - 1
  /\ IsFiniteSet(PmtPids) /\ Pat \in Seq([sid : STRING, pid : PmtPids]) \ {<<>>}
  /\ SidTexts \subseteq Seq(STRING) \ {<<>>}
  /\ Pmt \in [PmtPids -> Seq(Versions) \ {<<>>}]
  /\ "0x00" \notin Probes
  /\ PmtPids \cap ({"0x00", NullPid, "descriptor", "crc"} \cup EpgPids \cup EpgOneSegPids \cup Probes) = {}
  /\ \A p \in PmtPids : \A v \in DOMAIN Pmt[p] :
       PmtPids \cap ({Pmt[p][v].pcr} \cup Pmt[p][v].ca \cup {e.pid : e \in ToSet(Pmt[p][v].es)}) = {}

VARIABLES
  sp,              \* struct splitter
  mode,            \* the reader's loop: "select", "on" (split_select_finish), "off"
  out,             \* what split_ts put into dbuf for the last block
  crashed,         \* split_ts followed the NULL pat
  ver, part, cc,   \* per PMT on the air: version, next packet, its counter
  lost,            \* PMT packets lost so far
  block            \* packets the reader gets next

vars == <<sp, mode, out, crashed, ver, part, cc, lost, block>>

-----------------------------------------------------------------------------
(* split_startup *)

\* The list ends before an empty last word; an empty argument is no list.
AnalyzeSid(words) == IF Last(words) = "" THEN Front(words) ELSE words

\* The fields as split_startup leaves them, with a value for pmt_retain.  The
\* last three fields are history: per PMT the version whose section was read
\* to its end since pids was last cleared (0: none), every version of which
\* a packet was read since, and whether a packet was read into its stuffing.
Started(words, retain) ==
  [pids |-> [x \in AllPids |-> 0], pmt_pids |-> [x \in PmtPids |-> 0],
   pat |-> NoPat, pat_count |-> -1,
   sid_list |-> AnalyzeSid(words),
   pmt_retain |-> retain, pmt_counter |-> 0, pmt_version |-> <<>>,
   section_remain |-> [x \in PmtPids |-> 0], packet_seq |-> [x \in PmtPids |-> 0],
   whole |-> [x \in PmtPids |-> 0], seen |-> [x \in PmtPids |-> {}],
   over |-> [x \in PmtPids |-> FALSE]]

split_startup(words) == Started(words, -1)

Init ==
  /\ \E words \in SidTexts : sp = split_startup(words)
  /\ mode = "select" /\ out = <<>> /\ crashed = FALSE
  /\ ver = [p \in PmtPids |-> 1] /\ part = [p \in PmtPids |-> 1] /\ cc = [p \in PmtPids |-> 0]
  /\ lost = 0 /\ block = <<>>

-----------------------------------------------------------------------------
(* AnalyzePat.  stack is what the uninitialised entries of avail_sids hold. *)

Avail(n, stack) == IF n <= Len(Pat) THEN Pat[n].sid ELSE stack

\* atoi; of the other words the number is 0, which no service has.
Number(word) == IF word = "1seg" THEN "1" ELSE word

Selects(word, service, stack) ==
  \/ Number(word) = service.sid
  \/ word \in {"hd", "sd1"} /\ service.sid = Avail(1, stack)
  \/ word = "sd2" /\ service.sid = Avail(2, stack)
  \/ word = "sd3" /\ service.sid = Avail(3, stack)
  \/ word = "1seg" /\ service.pid = OneSegPmt
  \/ word = "all"

\* "all" ends the loop over the list.
Turns(list) == {i \in DOMAIN list : \A j \in 1 .. i - 1 : list[j] # "all"}
Tried(list) == {list[i] : i \in Turns(list)}

\* The PMT of a service once for every word that selects it, or, when there is
\* a list and nothing in it was found, every PMT.
Hits(list, service, stack) == {i \in Turns(list) : Selects(list[i], service, stack)}
ByWords(list, stack) ==
  FlattenSeq([k \in DOMAIN Pat |->
    [j \in 1 .. Cardinality(Hits(list, Pat[k], stack)) |-> Pat[k].pid]])
Everything == [k \in DOMAIN Pat |-> Pat[k].pid]
Chosen(list, stack) ==
  LET chosen == ByWords(list, stack)
      found == chosen # <<>> \/ {"epg", "epg1seg"} \cap Tried(list) # {}
  IN  IF list # <<>> /\ ~found THEN Everything ELSE chosen

EpgOf(words) ==
  (IF "epg" \in words THEN EpgPids ELSE {}) \cup (IF "epg1seg" \in words THEN EpgOneSegPids ELSE {})

Marked(pids, S, mark) == [x \in AllPids |-> IF x \in S THEN mark ELSE pids[x]]

\* RecreatePat keeps, of services that share a PMT PID, only one.
AnalyzePat(s, count, stack) ==
  IF s.pat # NoPat THEN s
  ELSE LET chosen == Chosen(s.sid_list, stack)
       IN  [s EXCEPT
              !.pmt_retain = Len(chosen),
              !.pmt_version = [i \in DOMAIN chosen |-> [pid |-> chosen[i], version |-> 0]],
              !.pmt_pids = [p \in PmtPids |-> IF p \in ToSet(chosen) THEN 1 ELSE @[p]],
              !.pids = Marked(@, ToSet(chosen) \cup EpgOf(Tried(s.sid_list)), 1),
              !.pat = [cc |-> Cc + count, pids |-> ToSet(chosen)]]

-----------------------------------------------------------------------------
(* AnalyzePmt *)

\* The PIDs the ES loop finds in the cells it may read; a header must be among them as a
\* whole.  Streams of type 0x0D (data) are left out.
EsLoop(cells) ==
  LET from[n \in Nat \ {0}] ==
        IF n >= Len(cells) THEN {}
        ELSE (IF cells[n].type = "data" THEN {} ELSE {cells[n].pid}) \cup from[n + cells[n].len]
  IN  from[1]

\* Nall: of the packet's cells those that belong to the section, by what it is
\* thought to have left.
WholePacket(s, pk) == Len(pk.cells)      \* mutant: the packet is read to its end
Nall(s, pk) ==
  IF s.section_remain[pk.pid] > Len(pk.cells) THEN Len(pk.cells) ELSE s.section_remain[pk.pid]
Into(cells, n) == \E i \in 1 .. n : cells[i].type = "stuffing"

\* The ES loop and the account of the section's rest.
AnalyzeEs(s, pk, mark) ==
  LET n == Nall(s, pk)
      rest == s.section_remain[pk.pid] - n
  IN  [sp |-> [s EXCEPT !.packet_seq[pk.pid] = pk.cc,
                        !.pids = Marked(@, EsLoop(SubSeq(pk.cells, 1, n)), mark),
                        !.section_remain[pk.pid] = rest,
                        !.seen[pk.pid] = @ \cup {pk.version},
                        !.over[pk.pid] = @ \/ Into(pk.cells, n),
                        !.whole[pk.pid] = IF rest = 0 THEN pk.version ELSE @],
       result |-> IF rest > 0 THEN "continue" ELSE "success"]

AnalyzePmt(s, pk, mark) ==
  IF pk.start
  THEN AnalyzeEs([s EXCEPT
         !.section_remain[pk.pid] = Len(Section[pk.pid][pk.version]),
         !.pmt_version = [i \in DOMAIN @ |->
            IF @[i].pid = pk.pid THEN [@[i] EXCEPT !.version = pk.version] ELSE @[i]],
         !.pids = Marked(@, {Pmt[pk.pid][pk.version].pcr} \cup Pmt[pk.pid][pk.version].ca, mark)],
         pk, mark)
  ELSE IF s.section_remain[pk.pid] = 0 \/ pk.cc # (s.packet_seq[pk.pid] + 1) % Cc
  THEN [sp |-> s, result |-> "error"]
  ELSE AnalyzeEs(s, pk, mark)

-----------------------------------------------------------------------------
(* split_select (ReadTs).  The last packet of a block is not looked at.  A    *)
(* PMT that was read to its end becomes a null packet.                        *)

Complete(s) == s.pmt_counter = s.pmt_retain

TakeOut(st, i, a) ==
  IF a.result = "success"
  THEN [st EXCEPT !.sp = [a.sp EXCEPT !.pmt_pids[st.blk[i].pid] = @ + 1, !.pmt_counter = @ + 1],
                  !.blk[i] = [pid |-> NullPid]]
  ELSE [st EXCEPT !.sp = a.sp]

ExaminePmt(st, i) ==
  IF st.blk[i].pid \in PmtPids /\ st.sp.pmt_pids[st.blk[i].pid] = 1
  THEN TakeOut(st, i, AnalyzePmt(st.sp, st.blk[i], 1)) ELSE st

ExaminePat(st, i, stack) ==
  IF st.blk[i].pid = "0x00"
  THEN [st EXCEPT !.sp = AnalyzePat(@, st.blk[i].count, stack)] ELSE st

Examine(st, i, stack) == ExaminePmt(ExaminePat(st, i, stack), i)

\* The selection is not complete when split_select is called; the packet that
\* completes it is the last that is examined.
ReadTs(s, blk, stack) ==
  LET scan[i \in 1 .. Len(blk)] ==
        IF i = 1 THEN [sp |-> s, blk |-> blk]
        ELSE IF Complete(scan[i-1].sp) THEN scan[i-1]
        ELSE Examine(scan[i-1], i - 1, stack)
  IN  scan[Len(blk)]

-----------------------------------------------------------------------------
(* split_ts *)

addEpgPids(s) ==
  [s EXCEPT !.pids = Marked(@, IF "epg" \in ToSet(s.sid_list) THEN EpgPids ELSE {}, 1)]

\* A pass through the PMTs starts from the PMTs' own PIDs, marks what it finds
\* with 2, and ends when pmt_retain sections have been read.
ClearTo(s, pids, counter) ==
  [s EXCEPT !.pids = pids, !.pmt_counter = counter,
            !.section_remain = [p \in PmtPids |-> 0],
            !.packet_seq = [p \in PmtPids |-> 0],
            !.whole = [p \in PmtPids |-> 0],
            !.seen = [p \in PmtPids |-> {}],
            !.over = [p \in PmtPids |-> FALSE]]
OnlyPmts(s) == [x \in AllPids |-> IF x \in PmtPids THEN s.pmt_pids[x] ELSE 0]
Clear(s) == ClearTo(s, OnlyPmts(s), 0)

Count(a) == IF a.result = "success" THEN [a.sp EXCEPT !.pmt_counter = @ + 1] ELSE a.sp
Finish(s) ==
  IF Complete(s)
  THEN addEpgPids([s EXCEPT !.pids = [x \in AllPids |-> IF @[x] > 0 THEN @[x] - 1 ELSE 0]])
  ELSE s
Rescan(s, pk, mark) ==
  Finish(Count(AnalyzePmt(IF Complete(s) THEN Clear(s) ELSE s, pk, mark)))
RescanOne(s, pk) == Rescan(s, pk, 1)   \* mutant: the mark of split_select
RescanPID(s, pk) == Rescan(s, pk, 2)

\* The version a chosen PMT had when its first packet was last analysed
KnownVersion(s, pid) ==
  s.pmt_version[SelectInSeq(s.pmt_version, LAMBDA r : r.pid = pid)].version

FilterStart(s, pk) ==    \* mutant: only a new version is looked at
  IF s.pmt_pids[pk.pid] # 0 /\ pk.start /\ KnownVersion(s, pk.pid) # pk.version
  THEN RescanPID(s, pk) ELSE s
FilterPmt(s, pk) ==
  IF s.pmt_pids[pk.pid] # 0
     /\ (~Complete(s) \/ (pk.start /\ KnownVersion(s, pk.pid) # pk.version))
  THEN RescanPID(s, pk) ELSE s

\* pat_count starts from the count of the first PAT, which it repeats, and keeps
\* the flag bits above the counter.
CountUp(s) ==            \* mutant: the counter runs into the flag bits
  IF s.pat_count = -1 THEN s.pat.cc ELSE s.pat_count + 1
NextCount(s) ==
  IF s.pat_count = -1 THEN s.pat.cc
  ELSE IF (s.pat_count + 1) % Cc = 0 THEN s.pat_count + 1 - Cc
  ELSE s.pat_count + 1

FilterPat(st) ==
  LET n == NextCount(st.sp)
  IN  [st EXCEPT !.sp.pat_count = n, !.sp.pat.cc = n,
                 !.out = Append(@, [pid |-> "0x00", count |-> n, pids |-> st.sp.pat.pids])]

Pass(s, written, pk) ==
  [sp |-> s, out |-> IF s.pids[pk.pid] # 0 THEN Append(written, pk) ELSE written]

Filter(st, pk) ==
  IF pk.pid = "0x00" THEN FilterPat(st)
  ELSE Pass(IF pk.pid \in PmtPids THEN FilterPmt(st.sp, pk) ELSE st.sp, st.out, pk)

split_ts(s, blk) ==
  LET filter[i \in 0 .. Len(blk)] ==
        IF i = 0 THEN [sp |-> s, out |-> <<>>] ELSE Filter(filter[i-1], blk[i])
  IN  filter[Len(blk)]

-----------------------------------------------------------------------------
(* The reader's loop *)

airVars == <<ver, part, cc, lost>>

Split(s, blk) ==
  IF s.pat = NoPat /\ \E i \in DOMAIN blk : blk[i].pid = "0x00"
  THEN crashed' = TRUE /\ sp' = s /\ out' = <<>>
  ELSE \E f \in {split_ts(s, blk)} : sp' = f.sp /\ out' = f.out /\ UNCHANGED crashed

\* Nothing is written until split_select has succeeded; four seconds after the
\* start the reader does without the splitter.
ReaderSelect ==
  /\ mode = "select" /\ ~crashed /\ block # <<>>
  /\ \E stack \in {NoSid} \cup {Pat[i].sid : i \in DOMAIN Pat} :
       \E r \in {ReadTs(sp, block, stack)} :
         IF Complete(r.sp) THEN mode' = "on" /\ Split(r.sp, r.blk)
         ELSE /\ mode' \in {"select", "off"}
              /\ sp' = r.sp /\ out' = <<>> /\ UNCHANGED crashed
  /\ block' = <<>>
  /\ UNCHANGED airVars

ReaderSplit ==
  /\ mode = "on" /\ ~crashed /\ block # <<>>
  /\ Split(sp, block)
  /\ block' = <<>>
  /\ UNCHANGED <<mode, airVars>>

\* "normal exit": what the decoder still held, or the last block again, is split
\* whether or not the selection has succeeded.
ReaderFinish ==
  /\ mode \in {"select", "on"} /\ ~crashed
  /\ Split(sp, block)
  /\ mode' = "done" /\ block' = <<>>
  /\ UNCHANGED airVars

-----------------------------------------------------------------------------
(* The stream on the air *)

Arrives(pk) ==
  /\ mode \in {"select", "on"} /\ ~crashed
  /\ Len(block) < BlockLen
  /\ block' = Append(block, pk)
  /\ out' = <<>>
  /\ UNCHANGED <<sp, mode, crashed>>

\* Part k of a section, with stuffing behind its end
Payload(p, v, k) ==
  [i \in 1 .. Room |-> LET n == ((k - 1) * Room) + i
                       IN  IF n <= Len(Section[p][v]) THEN Section[p][v][n] ELSE Stuffing]

PmtPacket(p) ==
  [pid |-> p, start |-> part[p] = 1, cc |-> cc[p], version |-> ver[p],
   cells |-> Payload(p, ver[p], part[p])]

Advance(p) ==
  /\ part' = [part EXCEPT ![p] = IF @ = Parts(p, ver[p]) THEN 1 ELSE @ + 1]
  /\ cc' = [cc EXCEPT ![p] = (@ + 1) % Cc]
  /\ UNCHANGED ver

SendPmt(p) == Arrives(PmtPacket(p)) /\ Advance(p) /\ UNCHANGED lost

\* A packet that reception destroys: the driver drops it (pt1_read's error flag).
LosePmt(p) ==
  /\ mode \in {"select", "on"} /\ ~crashed
  /\ lost < MaxLost /\ lost' = lost + 1
  /\ Advance(p)
  /\ out' = <<>>
  /\ UNCHANGED <<sp, mode, crashed, block>>

NewVersion(p) ==
  /\ mode \in {"select", "on"} /\ ~crashed
  /\ part[p] = 1 /\ ver[p] < Len(Pmt[p])
  /\ ver' = [ver EXCEPT ![p] = @ + 1]
  /\ out' = <<>>
  /\ UNCHANGED <<sp, mode, crashed, part, cc, lost, block>>

SendPat(count) ==
  Arrives([pid |-> "0x00", count |-> count]) /\ UNCHANGED airVars
SendStream(x) == Arrives([pid |-> x]) /\ UNCHANGED airVars

Next ==
  \/ ReaderSelect \/ ReaderSplit \/ ReaderFinish
  \/ \E p \in PmtPids : SendPmt(p) \/ LosePmt(p) \/ NewVersion(p)
  \/ \E count \in PatCounts : SendPat(count)
  \/ \E x \in Probes : SendStream(x)

Spec == Init /\ [][Next]_vars

-----------------------------------------------------------------------------
(* Properties *)

Passes == {x \in AllPids : sp.pids[x] # 0}
ChosenPmts == {p \in PmtPids : sp.pmt_pids[p] # 0}

\* A section of several packets that AnalyzePmt reads right.  Where CounterTells holds, the
\* continuity counter of a PMT's packet tells which packet of such a section it is, also
\* after losses: their number divides the modulus, and no earlier version took several.
Long(p, v) == Aligned(p, v) /\ Parts(p, v) > 1
CounterTells ==
  \A p \in PmtPids : \A v \in DOMAIN Pmt[p] : Long(p, v) =>
    /\ Cc % Parts(p, v) = 0
    /\ \A w \in DOMAIN Pmt[p] : w < v => Parts(p, w) = 1

\* While it splits, the splitter passes every stream of a chosen service whose
\* PMT it has read to the end since it last began to collect PIDs: neither the
\* marks of the other services' PMTs nor the sinking of the marks from 2 to 1 at
\* the end of a rescan takes one away.  Nor does a rescan that is complete take away
\* the EPG from who asked for it by the word "epg" (what "epg1seg" marks is not marked
\* again).
NoneMissing ==
  mode = "on" =>
    /\ \A p \in ChosenPmts :
         sp.whole[p] # 0 /\ Aligned(p, sp.whole[p]) => Streams(p, sp.whole[p]) \subseteq Passes
    /\ Complete(sp) /\ "epg" \in Tried(sp.sid_list) => EpgPids \subseteq Passes

\* It passes nothing else: only the chosen PMTs, the EPG, and streams of chosen
\* services in a version read since the collection began.  What a PMT listed
\* before, data streams, a section's CRC and stuffing taken for entries, and services
\* that were not chosen are dropped.  And the PAT that is written names exactly the
\* services whose PMT passes.  The streams are left open when a section that was read is
\* not aligned, and none of this about them would hold without CounterTells.
NothingForeign ==
  mode = "on" =>
    /\ sp.pat.pids = Passes \cap PmtPids
    /\ (\A p \in ChosenPmts : \A v \in sp.seen[p] : Aligned(p, v)) =>
         Passes \subseteq ChosenPmts \cup EpgOf(ToSet(sp.sid_list))
                          \cup UNION {UNION {Streams(p, v) : v \in sp.seen[p]} : p \in ChosenPmts}

\* The counter of each PAT follows that of the PAT before it; before is the last one
\* of the blocks before, or -1.
PatsBefore(packets, i) == {j \in 1 .. i - 1 : packets[j].pid = "0x00"}
Follow(before, packets) ==
  \A i \in DOMAIN packets : packets[i].pid = "0x00" =>
    /\ packets[i].count \in Cc .. (2 * Cc) - 1
    /\ PatsBefore(packets, i) = {} /\ before # -1 => (packets[i].count - before) % Cc = 1
    /\ \A j \in PatsBefore(packets, i) :
         PatsBefore(packets, i) = PatsBefore(packets, j) \cup {j} =>
           (packets[i].count - packets[j].count) % Cc = 1

Reader == block # <<>> /\ block' = <<>>

\* The counters of the PATs written run on without a gap, from block to block.
PatContinuous == [][Reader => Follow(sp.pat_count, out')]_vars

\* The reader gets a block in which the PMT's section of the current version,
\* or a PAT, comes whole; split_select must not have it in the last packet.
Seen == IF mode = "select" THEN Len(block) - 1 ELSE Len(block)
HoldsPmt(p) ==
  \E i \in DOMAIN block :
    /\ i + Parts(p, ver[p]) - 1 <= Seen
    /\ \A k \in 1 .. Parts(p, ver[p]) :
         /\ block[i+k-1].pid = p /\ block[i+k-1].version = ver[p]
         /\ block[i+k-1].start <=> k = 1
HoldsPat == \E i \in 1 .. Seen : block[i].pid = "0x00"
Broadcast ==
  /\ \A p \in PmtPids : []<><<Reader /\ HoldsPmt(p)>>_vars
  /\ []<><<Reader /\ HoldsPat>>_vars

\* When no service was chosen by two words, a stream that carries the PAT and
\* the PMTs again and again ends the selection; and a splitter that keeps one
\* service comes to pass the streams of the version on the air.
Settles ==
  Broadcast =>
    <>[](sp.pmt_retain = Cardinality(ChosenPmts) =>
           /\ mode # "select"
           /\ mode = "on" /\ sp.pmt_retain = 1 =>
                Complete(sp) /\ \A p \in ChosenPmts : sp.whole[p] = ver[p])
=============================================================================
