--------------------------- MODULE SessionsProofs ---------------------------
(***************************************************************************)
(* Proofs about Sessions, for any lists of devices, channels, recording     *)
(* times and limits: a tuned program has its tuner and its frequency        *)
(* (ChannelTuned), the search tries every tuner (TriesAll), a connection    *)
(* of the server begins as the first one did (StartsAfresh), and the        *)
(* recording time is the one that was written (TimeRight).                  *)
(***************************************************************************)
EXTENDS Sessions, SequenceTheorems, TLAPS

-----------------------------------------------------------------------------
(* The invariant, part by part *)

Tuning == {"next", "open", "set", "again"}          \* tune() has looked the channel up

Types ==
  /\ caller \in {"main", "ipc"} /\ device \in {None} \cup Devices
  /\ tfd \in {None} \cup Devices /\ mhz = [d \in Devices |-> mhz[d]]
  /\ lp \in Nat /\ sockets \in Int /\ splitters \in Int /\ failed \in Int
  /\ name \in Names /\ text \in {Dash} \cup Texts /\ program \in Programs

\* Where the program may be: only the server accepts, only a recording is retuned.
Where ==
  /\ pc = "accept" => program = "http" /\ caller = "main"
  /\ pc = "recording" => program # "checksignal"
  /\ pc \in {"recording", "close", "destroy"} => caller = "main"
  /\ caller = "ipc" =>
       /\ program # "checksignal"
       /\ pc \in Tuning \cup {"tune", "tuned", "untuned", "exit"}
  /\ Named /\ pc # "exit" => pc # "next"

\* The device files that the kernel has open: the tuner's, from open() to close().
\* A descriptor that is not closed any more is left only of a device that was named.
Files ==
  /\ pc \in {"set", "again", "tuned"} => tfd # None /\ open = {tfd}
  /\ pc \in {"recording", "close"} => open = {tfd} \ {None}
  /\ pc \in {"tune", "next", "open", "untuned", "accept", "destroy"} => open = {}
  /\ pc \in {"tune", "next", "untuned", "accept", "destroy"} => tfd = None \/ Named

\* What a connection leaves to the next: nothing but the connections and splitters
\* of the tune()s that have failed.
Sockets ==
  program = "http" =>
    /\ pc = "accept" => sockets = failed /\ splitters <= failed
    /\ pc \notin {"accept", "exit"} =>
         sockets = failed + 1 /\ splitters <= failed + (IF splitter THEN 1 ELSE 0)

\* The exit flag and the signal thread belong to a recording.
Flags ==
  program # "checksignal" /\ caller = "main" =>
    /\ pc \in Tuning \cup {"tune", "tuned", "untuned", "accept"} => ~f_exit
    /\ pc \in Tuning \cup {"tune", "tuned", "untuned", "accept", "close", "destroy"} =>
         sigthread = "none"

Queue ==
  program # "checksignal" /\ pc \notin {"close", "destroy", "exit"} => queue = "new"

\* How far the search through the list of devices has come
First(n) == {List[i] : i \in 1 .. n}
Searching ==
  /\ pc \in Tuning \cup {"tuned"} => table # Invalid /\ table = searchrecoff(name)
  /\ pc \in {"set", "again"} => tfd = Candidate
  /\ ~Named =>
       /\ pc = "next" => lp <= Len(List) /\ tried = First(lp)
       /\ pc \in {"open", "set", "again"} =>
            lp \in 1 .. Len(List) /\ tried = First(lp - 1)
       /\ pc = "untuned" /\ table # Invalid => f_exit \/ tried = Elements(List)

\* The tuner is what tune() made of it.
Tuner ==
  pc = "tuned" => mhz[tfd] = Tuned([table EXCEPT !.type = Kind(tfd)])

\* The recording time is read once.
TimeRead ==
  program = "recpt1" /\ pc # "exit" =>
    /\ pc \in {"recording", "close", "destroy"} \/ caller = "ipc" =>
         recsec = parse_time(text, 0) /\ (indefinite <=> recsec = -1)
    /\ pc \notin {"recording", "close", "destroy"} /\ caller = "main" => recsec = 0

Inv ==
  /\ Types /\ Where /\ Files /\ Sockets /\ Flags /\ Queue
  /\ Searching /\ Tuner /\ TimeRead
-----------------------------------------------------------------------------
(* The tables: what searchrecoff finds is where the broadcasters have it *)

USE DEF Plain

LEMMA BsTable ==
  /\ BsMHz(<<18473, 210>>) = 1049 /\ BsMHz(<<17472, 226>>) = 1088
  /\ BsMHz(<<17510, 226>>) = 1126 /\ BsMHz(<<17549, 32>>) = 1165
  /\ BsMHz(<<17587, 32>>) = 1203 /\ BsMHz(<<17625, 32>>) = 1241
  /\ BsMHz(<<17664, 32>>) = 1280 /\ BsMHz(<<17702, 64>>) = 1318
  /\ BsMHz(<<17740, 64>>) = 1356 /\ BsMHz(<<17779, 64>>) = 1395
  /\ BsMHz(<<17817, 64>>) = 1433 /\ BsMHz(<<17855, 96>>) = 1471
BY DEF BsMHz

LEMMA NdTable ==
  \A k \in 1 .. 12 : BsMHz(NdEvenWords[k]) = 1573 + (40 * k)
<1> SUFFICES ASSUME NEW k \in 1 .. 12  PROVE BsMHz(NdEvenWords[k]) = 1573 + (40 * k)
  OBVIOUS
<1>1. NdEvenWords[k] = <<17957 + (40 * k), NdEvenWords[k][2]>> /\ NdEvenWords[k][2] # 210
  BY DEF NdEvenWords
<1> QED
  BY <1>1 DEF BsMHz

LEMMA Concat3 ==
  ASSUME NEW S, NEW a \in Seq(S), NEW b \in Seq(S), NEW c \in Seq(S)
  PROVE  /\ \A k \in 1 .. Len(a) : (a \o b \o c)[k] = a[k]
         /\ \A k \in 1 .. Len(b) : (a \o b \o c)[Len(a) + k] = b[k]
<1>1. PICK m \in Nat, n \in Nat, l \in Nat : m = Len(a) /\ n = Len(b) /\ l = Len(c)
  BY ONLY a \in Seq(S), b \in Seq(S), c \in Seq(S), LenProperties
<1>2. PICK ab \in Seq(S) : ab = a \o b /\ Len(ab) = m + n
  BY ONLY a \in Seq(S), b \in Seq(S), <1>1, ConcatProperties
<1>3. \A i \in 1 .. m + n : ab[i] = IF i <= m THEN a[i] ELSE b[i - m]
  BY ONLY a \in Seq(S), b \in Seq(S), <1>1, <1>2, ConcatProperties
<1>4. \A i \in 1 .. (m + n) + l : (ab \o c)[i] = IF i <= m + n THEN ab[i] ELSE c[i - (m + n)]
  BY ONLY c \in Seq(S), <1>1, <1>2, ConcatProperties
<1>5. ASSUME NEW k \in 1 .. m  PROVE (ab \o c)[k] = a[k]
  <2>1. k \in 1 .. m + n /\ k \in 1 .. (m + n) + l /\ k <= m /\ k <= m + n
    BY ONLY <1>5, k \in 1 .. m, m \in Nat, n \in Nat, l \in Nat
  <2> QED
    BY ONLY <1>3, <1>4, <2>1
<1>6. ASSUME NEW k \in 1 .. n  PROVE (ab \o c)[m + k] = b[k]
  <2>1. /\ m + k \in 1 .. m + n /\ m + k \in 1 .. (m + n) + l
        /\ ~(m + k <= m) /\ m + k <= m + n /\ (m + k) - m = k
    BY ONLY k \in 1 .. n, m \in Nat, n \in Nat, l \in Nat
  <2> QED
    BY ONLY <1>3, <1>4, <2>1
<1> QED
  BY ONLY <1>1, <1>2, <1>5, <1>6

\* bs_pll begins with the words of BS, and those of the even ND channels follow.
LEMMA PllWords ==
  /\ \A k \in 1 .. 12 : bs_pll[k] = BsWords[k]
  /\ \A k \in 1 .. 12 : bs_pll[12 + k] = NdEvenWords[k]
<1>1. BsWords \in Seq(Nat \X Nat) /\ NdEvenWords \in Seq(Nat \X Nat) /\ NdOddWords \in Seq(Nat \X Nat)
  BY DEF BsWords, NdEvenWords, NdOddWords
<1>2. Len(BsWords) = 12 /\ Len(NdEvenWords) = 12
  BY DEF BsWords, NdEvenWords
<1> DEFINE W == Nat \X Nat
<1>3. \A a, b, c \in Seq(W) :
        /\ \A k \in 1 .. Len(a) : (a \o b \o c)[k] = a[k]
        /\ \A k \in 1 .. Len(b) : (a \o b \o c)[Len(a) + k] = b[k]
  <2> HIDE DEF W
  <2> QED
    BY Concat3
<1>4. PICK a \in Seq(W), b \in Seq(W), c \in Seq(W) :
        a = BsWords /\ b = NdEvenWords /\ c = NdOddWords
  BY ONLY <1>1, Zenon DEF W
<1>5. /\ \A k \in 1 .. 12 : (a \o b \o c)[k] = a[k]
      /\ \A k \in 1 .. 12 : (a \o b \o c)[12 + k] = b[k]
  <2> HIDE DEF W
  <2>1. Len(a) = 12
    BY ONLY <1>2, <1>4
  <2>2. Len(b) = 12
    BY ONLY <1>2, <1>4
  <2>3. \A k \in 1 .. Len(a) : (a \o b \o c)[k] = a[k]
    BY ONLY <1>3, a \in Seq(W), b \in Seq(W), c \in Seq(W)
  <2>4. \A k \in 1 .. Len(b) : (a \o b \o c)[Len(a) + k] = b[k]
    BY ONLY <1>3, a \in Seq(W), b \in Seq(W), c \in Seq(W)
  <2> QED
    BY ONLY <2>1, <2>2, <2>3, <2>4
<1>6. bs_pll = a \o b \o c
  BY ONLY <1>4 DEF bs_pll
<1> QED
  BY ONLY <1>4, <1>5, <1>6, Zenon

LEMMA BsOnPlan ==
  ASSUME NEW node \in Nat, node % 2 = 1, node < 24
  PROVE  OnPlan(BsMHz(bs_pll[(node \div 2) + 1]), <<"BS", node, 0>>)
<1>1. PICK k \in 1 .. 12 : node \div 2 = k - 1 /\ node = (2 * k) - 1
  <2>1. (node \div 2) + 1 \in 1 .. 12 /\ node = (2 * (node \div 2)) + 1
    OBVIOUS
  <2> QED
    BY <2>1
<1>2. bs_pll[(node \div 2) + 1] = BsWords[k]
  BY <1>1, PllWords
<1>3. LET off == (100 * BsMHz(BsWords[k])) - (104948 + (1918 * ((2 * k) - 2)))
      IN  -50 <= off /\ off <= 50
  BY BsTable DEF BsWords
<1>4. Plan(<<"BS", node, 0>>) = 104948 + (1918 * ((2 * k) - 2))
  BY <1>1 DEF Plan, Bs
<1> QED
  BY <1>2, <1>3, <1>4 DEF OnPlan

LEMMA CsOnPlan ==
  ASSUME NEW n \in 2 .. 24, n % 2 = 0
  PROVE  OnPlan(BsMHz(bs_pll[12 + (n \div 2)]), <<"CS", n>>)
<1>1. PICK k \in 1 .. 12 : n \div 2 = k /\ n = 2 * k
  <2>1. n \div 2 \in 1 .. 12 /\ n = 2 * (n \div 2)
    OBVIOUS
  <2> QED
    BY <2>1
<1>2. BsMHz(bs_pll[12 + (n \div 2)]) = 1573 + (40 * k)
  BY <1>1, PllWords, NdTable
<1>3. Plan(<<"CS", n>>) = 161300 + (2000 * ((2 * k) - 2))
  BY <1>1 DEF Plan
<1> QED
  BY <1>2, <1>3 DEF OnPlan

\* A terrestrial channel's word is its frequency in sevenths of a MHz, and 57 MHz.
LEMMA GroundMHz ==
  ASSUME NEW f \in Nat
  PROVE  TMHz(getfrequency(f, 0)) = 93 + (6 * f) + FrequencyOffset(f)
<1>1. PICK off \in {0, 2} : off = FrequencyOffset(f)
  BY DEF FrequencyOffset
<1>2. PICK m \in Nat : m = 93 + (f * 6) + off + 0 /\ m = 93 + (6 * f) + off
  OBVIOUS
<1>3. ((7 * m) + 400) \div 7 = m + 57
  OBVIOUS
<1>4. getfrequency(f, 0) = (7 * m) + 400
  BY <1>1, <1>2 DEF getfrequency
<1>5. TMHz(getfrequency(f, 0)) = (m + 57) - 57
  BY ONLY <1>3, <1>4 DEF TMHz
<1> QED
  BY <1>1, <1>2, <1>5

LEMMA GroundOnPlan ==
  ASSUME NEW x \in GroundNames
  PROVE  /\ Ground(x[1], x[2]) \in Nat
         /\ OnPlan(TMHz(getfrequency(Ground(x[1], x[2]), 0)), x)
<1>1. CASE x \in {"C"} \X (13 .. 63)
  <2>1. PICK n \in 13 .. 63 : x = <<"C", n>>
    BY <1>1
  <2>2. Ground("C", n) = IF n <= 22 THEN n - 10 ELSE n - 1
    BY DEF Ground
  <2>3. Plan(x) = IF n <= 21 THEN 100 * (111 + (6 * (n - 13)))
                     ELSE IF n = 22 THEN 16700 ELSE 100 * (225 + (6 * (n - 23)))
    BY <2>1 DEF Plan, Band
  <2>4. TMHz(getfrequency(Ground("C", n), 0))
          = 93 + (6 * Ground("C", n)) + FrequencyOffset(Ground("C", n))
    BY <2>2, GroundMHz
  <2> QED
    BY <2>1, <2>2, <2>3, <2>4 DEF OnPlan, FrequencyOffset
<1>2. CASE x \in {Plain} \X (1 .. 62)
  <2>1. PICK n \in 1 .. 62 : x = <<Plain, n>>
    BY <1>2
  <2>2. Ground(Plain, n) = IF n <= 3 THEN n - 1 ELSE IF n <= 12 THEN n + 9 ELSE n + 50
    BY DEF Ground
  <2>3. Plan(x) = IF n <= 3 THEN 100 * (93 + (6 * (n - 1)))
                     ELSE IF n <= 7 THEN 100 * (173 + (6 * (n - 4)))
                     ELSE IF n <= 12 THEN 100 * (195 + (6 * (n - 8)))
                     ELSE 100 * (473 + (6 * (n - 13)))
    BY <2>1 DEF Plan, Band
  <2>4. TMHz(getfrequency(Ground(Plain, n), 0))
          = 93 + (6 * Ground(Plain, n)) + FrequencyOffset(Ground(Plain, n))
    BY <2>2, GroundMHz
  <2> QED
    BY <2>1, <2>2, <2>3, <2>4 DEF OnPlan, FrequencyOffset
<1> QED
  BY <1>1, <1>2 DEF GroundNames

\* A name that searchrecoff finds tunes to its place in the broadcasters' plan.
LEMMA FoundOnPlan ==
  ASSUME NEW n \in Names, searchrecoff(n) # Invalid, n[1] # Plain \/ n[2] <= 62
  PROVE  OnPlan(Tuned(searchrecoff(n)), n)
<1>1. CASE n[1] = "BS"
  <2>1. PICK node \in Nat, slot \in Nat : n = <<"BS", node, slot>>
    BY <1>1 DEF Names
  <2>2. /\ node % 2 = 1 /\ node < 24
        /\ searchrecoff(n) = [freq |-> node \div 2, slot |-> slot, type |-> "S"]
    BY <2>1 DEF searchrecoff, BsEntry, NodeToFreq, ISDB_T_NODE_LIMIT
  <2>3. OnPlan(BsMHz(bs_pll[(node \div 2) + 1]), <<"BS", node, 0>>)
    BY <2>2, BsOnPlan
  <2>4. Plan(n) = Plan(<<"BS", node, 0>>)
    BY <2>1 DEF Plan
  <2>5. Tuned(searchrecoff(n)) = BsMHz(bs_pll[(node \div 2) + 1])
    BY <2>2 DEF Tuned
  <2> QED
    BY <2>3, <2>4, <2>5 DEF OnPlan
<1>2. CASE n[1] = "CS"
  <2>1. PICK k \in Nat : n = <<"CS", k>>
    BY <1>2 DEF Names
  <2>2. /\ k \in 2 .. 24 /\ k % 2 = 0
        /\ searchrecoff(n) = [freq |-> 11 + (k \div 2), slot |-> 0, type |-> "S"]
    BY <2>1 DEF searchrecoff, CsEntry
  <2>3. Tuned(searchrecoff(n)) = BsMHz(bs_pll[12 + (k \div 2)])
    <3>1. (11 + (k \div 2)) + 1 = 12 + (k \div 2)
      OBVIOUS
    <3> QED
      BY <2>2, <3>1 DEF Tuned
  <2> QED
    BY <2>1, <2>2, <2>3, CsOnPlan
<1>3. CASE n[1] \in {"C", Plain}
  <2>1. PICK k \in Nat : n = <<n[1], k>>
    BY <1>3 DEF Names
  <2>2. n \in GroundNames
    <3> SUFFICES ASSUME n \notin GroundNames  PROVE FALSE
      OBVIOUS
    <3>1. PICK s \in Services : s[3] = k /\ n[1] = Plain
      BY <1>3, <2>1 DEF searchrecoff
    <3>2. s[3] >= 101
      BY DEF Services
    <3> QED
      BY <2>1, <3>1, <3>2
  <2>3. searchrecoff(n) = [freq |-> Ground(n[1], n[2]), slot |-> 0, type |-> "T"]
    BY <1>3, <2>2 DEF searchrecoff
  <2>4. Tuned(searchrecoff(n)) = TMHz(getfrequency(Ground(n[1], n[2]), 0))
    BY <2>3 DEF Tuned
  <2> QED
    BY <2>2, <2>4, GroundOnPlan
<1> QED
  BY <1>1, <1>2, <1>3 DEF Names

-----------------------------------------------------------------------------
(* parse_time reads what is meant *)

LEMMA Limits ==
  /\ INT_MAX \in Nat /\ MAX_RETRY \in Nat
  /\ bsdev \in Seq(STRING) /\ isdb_t_dev \in Seq(STRING) /\ None \notin Devices
BY SessionsAssumption

\* What fits an int is not wrapped around.
LEMMA WrapFits ==
  ASSUME NEW n \in -INT_MAX - 1 .. INT_MAX
  PROVE  Wrap(n) = n
<1>1. PICK m \in Nat : m = INT_MAX
  BY Limits
<1>2. PICK k \in Nat : k = n + m + 1 /\ k < 2 * (m + 1)
  BY <1>1
<1>3. 2 * (m + 1) \in Nat /\ 2 * (m + 1) > 0
  BY <1>1
<1>4. k % (2 * (m + 1)) = k
  <2>1. PICK b \in Nat : b = 2 * (m + 1) /\ b > 0
    BY <1>3
  <2>2. k % b = k
    BY <1>2, <2>1
  <2> QED
    BY <2>1, <2>2
<1>5. Wrap(n) = k - m - 1
  BY <1>1, <1>2, <1>4 DEF Wrap
<1> QED
  BY <1>1, <1>2, <1>5

Written == Seq(Nat \X {"H", "M", "S"})

\* No letter comes twice.
LEMMA Once ==
  ASSUME NEW p \in Written, InOrder(p), NEW i \in DOMAIN p, NEW j \in DOMAIN p,
         p[i][2] = p[j][2]
  PROVE  i = j
<1>1. i \in Nat /\ j \in Nat
  BY DEF Written
<1>2. p[i][2] \in {"H", "M", "S"}
  BY DEF Written
<1>3. ~(i < j) /\ ~(j < i)
  BY <1>2 DEF InOrder
<1> QED
  BY <1>1, <1>3

\* The part of a letter is the number before it.
LEMMA PartIs ==
  ASSUME NEW p \in Written, InOrder(p), NEW i \in DOMAIN p
  PROVE  Part(p, p[i][2]) = Weight(p[i][2]) * p[i][1]
<1> DEFINE e == CHOOSE e \in Elements(p) : e[2] = p[i][2]
<1>1. p[i] \in Elements(p)
  BY DEF Elements
<1>2. e \in Elements(p) /\ e[2] = p[i][2]
  BY <1>1
<1>3. PICK j \in DOMAIN p : e = p[j]
  BY <1>2 DEF Elements
<1>4. e = p[i]
  BY <1>2, <1>3, Once
<1> QED
  BY <1>4 DEF Part

\* The letter of the greatest weight is at the front or nowhere: taking its number and
\* going on behind it leaves the other letters' parts.
LEMMA Strip ==
  ASSUME NEW p \in Written, InOrder(p), NEW X \in {"H", "M"}, NEW Rest \in SUBSET {"M", "S"},
         X \notin Rest, \A i \in DOMAIN p : p[i][2] \in {X} \cup Rest
  PROVE  /\ After(p, X) \in Written /\ InOrder(After(p, X))
         /\ \A i \in DOMAIN After(p, X) : After(p, X)[i][2] \in Rest
         /\ Value(p, X, Weight(X)) = Part(p, X)
         /\ \A y \in Rest : Part(After(p, X), y) = Part(p, y)
<1>0. Len(p) \in Nat /\ DOMAIN p = 1 .. Len(p)
  BY DEF Written
<1>1. CASE Found(p, X) = {}
  <2>1. \A i \in DOMAIN p : p[i][2] # X
    BY <1>1 DEF Found
  <2>2. Value(p, X, Weight(X)) = Part(p, X)
    BY <1>1, <2>1 DEF Value, Part
  <2> QED
    BY <1>1, <2>1, <2>2 DEF After
<1>2. CASE Found(p, X) # {}
  <2>1. PICK k \in DOMAIN p : p[k][2] = X
    BY <1>2 DEF Found
  <2>2. k = 1 /\ 1 \in DOMAIN p
    <3> SUFFICES ASSUME k # 1  PROVE FALSE
      BY <2>1
    <3>1. 1 \in DOMAIN p /\ 1 < k
      BY <1>0, <2>1
    <3>2. <<p[1][2], X>> \in {<<"H", "M">>, <<"H", "S">>, <<"M", "S">>}
      BY <2>1, <3>1 DEF InOrder
    <3>3. X = "M" /\ p[1][2] = "H"
      BY <3>2
    <3> QED
      BY <3>1, <3>3
  <2>3. Found(p, X) = {1}
    BY <2>1, <2>2, Once DEF Found
  <2>4. After(p, X) = SubSeq(p, 2, Len(p))
    <3>1. (CHOOSE i \in {1} : \A j \in {1} : i <= j) = 1
      OBVIOUS
    <3>2. After(p, X) = SubSeq(p, 1 + 1, Len(p))
      BY <2>3, <3>1 DEF After
    <3> QED
      BY <3>2
  <2>5. PICK q \in Written : /\ q = After(p, X) /\ Len(q) = Len(p) - 1
                             /\ \A i \in 1 .. Len(q) : q[i] = p[i + 1]
    <3>1. Len(p) \in Nat /\ Len(p) >= 1
      BY <1>0, <2>2
    <3>2. SubSeq(p, 2, Len(p)) \in Written
      BY <1>0, <3>1 DEF Written
    <3>3. /\ Len(SubSeq(p, 2, Len(p))) = Len(p) - 1
          /\ \A i \in 1 .. Len(p) - 1 : SubSeq(p, 2, Len(p))[i] = p[i + 1]
      BY <1>0, <3>1 DEF Written
    <3> QED
      BY <2>4, <3>2, <3>3
  <2>6. DOMAIN q = 1 .. Len(p) - 1 /\ \A i \in DOMAIN q : i + 1 \in DOMAIN p /\ i + 1 # 1
    BY <1>0, <2>5 DEF Written
  <2>7. InOrder(q)
    <3> SUFFICES ASSUME NEW i \in DOMAIN q, NEW j \in DOMAIN q, i < j
                 PROVE  <<q[i][2], q[j][2]>> \in {<<"H", "M">>, <<"H", "S">>, <<"M", "S">>}
      BY DEF InOrder
    <3>1. i + 1 \in DOMAIN p /\ j + 1 \in DOMAIN p /\ i + 1 < j + 1
      BY <1>0, <2>6
    <3>2. q[i] = p[i + 1] /\ q[j] = p[j + 1]
      BY <2>5, <2>6
    <3> QED
      BY <3>1, <3>2 DEF InOrder
  <2>8. ASSUME NEW i \in DOMAIN q  PROVE q[i][2] \in Rest
    <3>1. i + 1 \in DOMAIN p /\ q[i] = p[i + 1]
      BY <2>5, <2>6
    <3>2. p[i + 1][2] # p[1][2]
      BY <2>2, <2>6, <3>1, Once
    <3> QED
      BY <2>1, <2>2, <3>1, <3>2
  <2>9. Value(p, X, Weight(X)) = Part(p, X)
    <3>1. Part(p, X) = Weight(X) * p[1][1]
      BY <2>1, <2>2, PartIs
    <3>2. Front(p) = p[1][1]
      BY <1>0, <2>2 DEF Front
    <3> QED
      BY <1>2, <3>1, <3>2 DEF Value
  <2>10. ASSUME NEW y \in Rest  PROVE Part(q, y) = Part(p, y)
    <3>1. CASE \E i \in DOMAIN q : q[i][2] = y
      <4>1. PICK i \in DOMAIN q : q[i][2] = y
        BY <3>1
      <4>2. i + 1 \in DOMAIN p /\ p[i + 1] = q[i]
        BY <2>5, <2>6
      <4>3. Part(q, y) = Weight(y) * q[i][1]
        BY <2>7, <4>1, PartIs
      <4>4. Part(p, y) = Weight(y) * q[i][1]
        BY <4>1, <4>2, PartIs
      <4> QED
        BY <4>3, <4>4
    <3>2. CASE ~ \E i \in DOMAIN q : q[i][2] = y
      <4>1. \A j \in DOMAIN p : p[j][2] # y
        <5> SUFFICES ASSUME NEW j \in DOMAIN p, p[j][2] = y  PROVE FALSE
          OBVIOUS
        <5>1. j # 1
          BY <2>1, <2>2
        <5>2. j - 1 \in DOMAIN q /\ (j - 1) + 1 = j
          BY <1>0, <2>6, <5>1
        <5>3. q[j - 1] = p[j]
          BY <2>5, <2>6, <5>2
        <5> QED
          BY <3>2, <5>2, <5>3
      <4> QED
        BY <3>2, <4>1 DEF Part
    <3> QED
      BY <3>1, <3>2
  <2> QED
    BY <2>5, <2>7, <2>8, <2>9, <2>10
<1> QED
  BY <1>1, <1>2

\* What is left then is the seconds.
LEMMA SecondsLeft ==
  ASSUME NEW p \in Written, InOrder(p), \A i \in DOMAIN p : p[i][2] = "S"
  PROVE  Front(p) = Part(p, "S")
<1>0. Len(p) \in Nat /\ DOMAIN p = 1 .. Len(p)
  BY DEF Written
<1>1. CASE p = <<>>
  BY <1>1 DEF Front, Part
<1>2. CASE p # <<>>
  <2>1. 1 \in DOMAIN p /\ p[1][2] = "S" /\ p[1][1] \in Nat
    BY <1>0, <1>2 DEF Written
  <2>2. Part(p, "S") = Weight("S") * p[1][1]
    BY <2>1, PartIs
  <2>3. Weight("S") = 1
    BY DEF Weight
  <2> QED
    BY <1>2, <2>1, <2>2, <2>3 DEF Front
<1> QED
  BY <1>1, <1>2

LEMMA LettersMean ==
  ASSUME NEW p \in Written, InOrder(p)
  PROVE  Letters(p) = Part(p, "H") + Part(p, "M") + Part(p, "S")
<1>1. \A i \in DOMAIN p : p[i][2] \in {"H"} \cup {"M", "S"}
  BY DEF Written
<1>2. PICK q : q = After(p, "H")
  OBVIOUS
<1>3. /\ q \in Written /\ InOrder(q) /\ \A i \in DOMAIN q : q[i][2] \in {"M"} \cup {"S"}
      /\ Value(p, "H", Weight("H")) = Part(p, "H")
      /\ Part(q, "M") = Part(p, "M") /\ Part(q, "S") = Part(p, "S")
  <2>1. \A i \in DOMAIN q : q[i][2] \in {"M", "S"}
    BY <1>1, <1>2, Strip
  <2>2. {"M"} \cup {"S"} = {"M", "S"}
    OBVIOUS
  <2> QED
    BY <1>1, <1>2, <2>1, <2>2, Strip
<1>4. PICK r : r = After(q, "M")
  OBVIOUS
<1>5. /\ r \in Written /\ InOrder(r) /\ \A i \in DOMAIN r : r[i][2] \in {"S"}
      /\ Value(q, "M", Weight("M")) = Part(q, "M")
      /\ Part(r, "S") = Part(q, "S")
  <2>0. {"S"} \in SUBSET {"M", "S"} /\ "M" \notin {"S"}
    OBVIOUS
  <2>1. PICK S \in SUBSET {"M", "S"} : S = {"S"} /\ "M" \notin S
    BY <2>0
  <2>2. \A i \in DOMAIN q : q[i][2] \in {"M"} \cup S
    BY <1>3, <2>1
  <2>3. /\ After(q, "M") \in Written /\ InOrder(After(q, "M"))
        /\ \A i \in DOMAIN After(q, "M") : After(q, "M")[i][2] \in S
        /\ Value(q, "M", Weight("M")) = Part(q, "M")
        /\ \A y \in S : Part(After(q, "M"), y) = Part(q, y)
    BY ONLY <1>3, <2>1, <2>2, Strip
  <2> QED
    BY <1>4, <2>1, <2>3
<1>6. Front(r) = Part(r, "S")
  BY <1>5, SecondsLeft
<1>7. Weight("H") = 3600 /\ Weight("M") = 60
  BY DEF Weight
<1> QED
  BY <1>2, <1>3, <1>4, <1>5, <1>6, <1>7 DEF Letters

LEMMA ParseRight ==
  ASSUME NEW t, IsTime(t), Readable(t)
  PROVE  parse_time(t, 0) = Meant(t)
<1>0. Meant(t) \in -INT_MAX - 1 .. INT_MAX /\ t.kind # "dash"
  BY DEF Readable
<1>1. CASE t.kind = "colon"
  <2>1. Colon(t.n) = Meant(t)
    <3>1. t.n \in Nat \X Nat \/ t.n \in Nat \X Nat \X Nat
      BY <1>1 DEF IsTime, Dash
    <3>2. t.n[1] \in Nat /\ t.n[2] \in Nat
      BY <3>1
    <3>3. t.n[1] * 3600 = 3600 * t.n[1] /\ t.n[2] * 60 = 60 * t.n[2]
      BY <3>2
    <3> QED
      BY <1>1, <3>3 DEF Colon, Meant
  <2> QED
    BY <1>0, <1>1, <2>1, WrapFits DEF parse_time
<1>2. CASE t.kind = "letters"
  <2>1. PICK p \in Written : p = t.parts /\ InOrder(p)
    BY <1>2 DEF IsTime, Dash, Readable, Written
  <2>2. PICK sum : sum = Part(p, "H") + Part(p, "M") + Part(p, "S")
    OBVIOUS
  <2>3. sum \in Int
    <3>1. ASSUME NEW y \in {"H", "M", "S"}  PROVE Part(p, y) \in Nat
      <4>1. Weight(y) \in Nat
        BY DEF Weight
      <4>2. CASE \E i \in DOMAIN p : p[i][2] = y
        <5>1. PICK i \in DOMAIN p : p[i][2] = y
          BY <4>2
        <5>2. p[i][1] \in Nat
          BY DEF Written
        <5>3. Part(p, y) = Weight(y) * p[i][1]
          BY <2>1, <5>1, PartIs
        <5> QED
          BY <4>1, <5>2, <5>3
      <4>3. CASE ~ \E i \in DOMAIN p : p[i][2] = y
        BY <4>3 DEF Part
      <4> QED
        BY <4>2, <4>3
    <3>2. Part(p, "H") \in Nat /\ Part(p, "M") \in Nat /\ Part(p, "S") \in Nat
      BY <3>1
    <3> QED
      BY <2>2, <3>2
  <2>4. Letters(p) = sum
    BY <2>1, <2>2, LettersMean
  <2>5. Meant(t) = IF t.minus THEN -sum ELSE sum
    BY <1>2, <2>1, <2>2 DEF Meant
  <2>6. (IF t.minus THEN -1 ELSE 1) * (0 + Letters(p)) = Meant(t)
    BY <2>3, <2>4, <2>5
  <2>7. parse_time(t, 0) = Wrap((IF t.minus THEN -1 ELSE 1) * (0 + Letters(p)))
    BY <1>2, <2>1 DEF parse_time
  <2> QED
    BY <1>0, <2>6, <2>7, WrapFits
<1> QED
  BY <1>0, <1>1, <1>2 DEF IsTime, Dash

-----------------------------------------------------------------------------
(* The search through a list of devices *)

\* The list of this channel: a device of it has a place among the devices.
LEMMA ListOfDevices ==
  /\ Len(List) \in Nat
  /\ \A i \in 1 .. Len(List) : List[i] \in Devices
  /\ Elements(List) = First(Len(List))
<1>1. PICK s \in Seq(STRING) : s = List /\ Elements(s) \subseteq Devices
  BY Limits DEF List, Devices
<1>2. DOMAIN s = 1 .. Len(s) /\ Len(s) \in Nat
  OBVIOUS
<1>3. \A i \in 1 .. Len(s) : s[i] \in Elements(s)
  BY <1>2 DEF Elements
<1> QED
  BY <1>1, <1>2, <1>3 DEF Elements, First

\* The device that is tried is one of the devices.
LEMMA CandidateIsDevice ==
  ASSUME Inv, pc = "open"
  PROVE  Candidate \in Devices /\ Candidate # None
<1>1. CASE Named
  BY <1>1, Limits DEF Candidate, Named, Inv, Types
<1>2. CASE ~Named
  <2>1. lp \in 1 .. Len(List)
    BY <1>2 DEF Inv, Searching
  <2> QED
    BY <1>2, <2>1, ListOfDevices, Limits DEF Candidate
<1> QED
  BY <1>1, <1>2

-----------------------------------------------------------------------------
(* Every step keeps the invariant *)

USE DEF given, place, what, search, hardware, time, signals, server, Go, Exit

LEMMA LookupKeeps ==
  ASSUME Inv, Lookup
  PROVE  Inv'
<1>1. Types'
  BY DEF Inv, Lookup, Types
<1>2. Where'
  BY DEF Inv, Lookup, Where, Tuning, Named, OrNext
<1>3. Files'
  BY DEF Inv, Lookup, Files, Named, OrNext
<1>4. Sockets'
  BY DEF Inv, Lookup, Sockets, OrNext
<1>5. Flags'
  BY DEF Inv, Lookup, Flags
<1>6. Queue'
  BY DEF Inv, Lookup, Queue
<1>7. Searching'
  BY DEF Inv, Lookup, Searching, Tuning, First, Named, OrNext
<1>8. Tuner'
  BY DEF Inv, Lookup, Tuner, OrNext
<1>9. TimeRead'
  BY DEF Inv, Lookup, TimeRead, OrNext
<1> QED
  BY <1>1, <1>2, <1>3, <1>4, <1>5, <1>6, <1>7, <1>8, <1>9 DEF Inv

LEMMA NextDeviceKeeps ==
  ASSUME Inv, NextDevice
  PROVE  Inv'
<1>1. Types'
  BY DEF Inv, NextDevice, Types
<1>2. Where'
  BY DEF Inv, NextDevice, Where, Tuning
<1>3. Files'
  BY DEF Inv, NextDevice, Files, Named
<1>4. Sockets'
  BY DEF Inv, NextDevice, Sockets
<1>5. Flags'
  BY DEF Inv, NextDevice, Flags, Tuning
<1>6. Queue'
  BY DEF Inv, NextDevice, Queue
<1>7. Searching'
  <2>1. /\ pc = "next" /\ ~Named /\ table' = table /\ name' = name /\ tfd' = tfd
        /\ tried' = tried /\ lp' = lp + 1 /\ f_exit' = f_exit
        /\ table # Invalid /\ table = searchrecoff(name) /\ List' = List
    BY DEF Inv, NextDevice, Where, Searching, Tuning, Named, List, Satellite
  <2>2. lp \in Nat /\ lp <= Len(List) /\ tried = First(lp)
    BY <2>1 DEF Inv, Types, Searching
  <2>3. CASE More
    <3>1. pc' = "open"
      BY <2>3 DEF NextDevice
    <3>2. lp + 1 \in 1 .. Len(List) /\ (lp + 1) - 1 = lp
      BY <2>2, <2>3, ListOfDevices DEF More
    <3> QED
      BY <2>1, <2>2, <3>1, <3>2 DEF Searching, Tuning, First
  <2>4. CASE ~More
    <3>1. pc' = "untuned"
      BY <2>4 DEF NextDevice
    <3>2. tried' = Elements(List)
      BY <2>1, <2>2, <2>4, ListOfDevices DEF More
    <3> QED
      BY <2>1, <3>1, <3>2 DEF Searching, Tuning
  <2> QED
    BY <2>3, <2>4
<1>8. Tuner'
  BY DEF Inv, NextDevice, Tuner
<1>9. TimeRead'
  BY DEF Inv, NextDevice, TimeRead
<1> QED
  BY <1>1, <1>2, <1>3, <1>4, <1>5, <1>6, <1>7, <1>8, <1>9 DEF Inv

LEMMA OpenFailsKeeps ==
  ASSUME Inv, OpenFails
  PROVE  Inv'
<1>1. Types'
  BY DEF Inv, OpenFails, Types
<1>2. Where'
  BY DEF Inv, OpenFails, Where, Tuning, Named, OrNext
<1>3. Files'
  BY DEF Inv, OpenFails, Files, OrNext
<1>4. Sockets'
  BY DEF Inv, OpenFails, Sockets, OrNext
<1>5. Flags'
  BY DEF Inv, OpenFails, Flags, Tuning
<1>6. Queue'
  BY DEF Inv, OpenFails, Queue
<1>7. Searching'
  BY DEF Inv, OpenFails, Searching, Tuning, First, Named, OrNext, Candidate, List, Satellite
<1>8. Tuner'
  BY DEF Inv, OpenFails, Tuner, OrNext
<1>9. TimeRead'
  BY DEF Inv, OpenFails, TimeRead, OrNext
<1> QED
  BY <1>1, <1>2, <1>3, <1>4, <1>5, <1>6, <1>7, <1>8, <1>9 DEF Inv

LEMMA OpenKeeps ==
  ASSUME Inv, Open
  PROVE  Inv'
<1>1. Types'
  BY CandidateIsDevice DEF Inv, Open, Types
<1>2. Where'
  BY DEF Inv, Open, Where, Tuning
<1>3. Files'
  BY CandidateIsDevice DEF Inv, Open, Files
<1>4. Sockets'
  BY DEF Inv, Open, Sockets
<1>5. Flags'
  BY DEF Inv, Open, Flags, Tuning
<1>6. Queue'
  BY DEF Inv, Open, Queue
<1>7. Searching'
  BY DEF Inv, Open, Searching, Tuning, First, Named, Candidate, List, Satellite
<1>8. Tuner'
  BY DEF Inv, Open, Tuner, Satellite
<1>9. TimeRead'
  BY DEF Inv, Open, TimeRead
<1> QED
  BY <1>1, <1>2, <1>3, <1>4, <1>5, <1>6, <1>7, <1>8, <1>9 DEF Inv

LEMMA SetChannelKeeps ==
  ASSUME Inv, SetChannel
  PROVE  Inv'
<1>1. Types'
  BY DEF Inv, SetChannel, Types, Close
<1>2. Where'
  BY DEF Inv, SetChannel, Where, Named, tune_persistent, LastRetryLost
<1>3. Files'
  BY DEF Inv, SetChannel, Files, Close
<1>4. Sockets'
  BY DEF Inv, SetChannel, Sockets
<1>5. Flags'
  BY DEF Inv, SetChannel, Flags, Tuning
<1>6. Queue'
  BY DEF Inv, SetChannel, Queue
<1>7. Searching'
  BY DEF Inv, SetChannel, Searching, Tuning, First, Candidate, List, Satellite, LastRetryLost
<1>8. Tuner'
  BY DEF Inv, SetChannel, Types, Where, Files, Tuner, Satellite
<1>9. TimeRead'
  BY DEF Inv, SetChannel, TimeRead
<1> QED
  BY <1>1, <1>2, <1>3, <1>4, <1>5, <1>6, <1>7, <1>8, <1>9 DEF Inv

LEMMA PlainFailureKeeps ==
  ASSUME Inv, PlainFailure
  PROVE  Inv'
<1>1. Types'
  BY DEF Inv, PlainFailure, Types
<1>2. Where'
  BY DEF Inv, PlainFailure, Where, Tuning, Named, OrNext
<1>3. Files'
  BY DEF Inv, PlainFailure, Files, Named, OrNext
<1>4. Sockets'
  BY DEF Inv, PlainFailure, Sockets, OrNext
<1>5. Flags'
  BY DEF Inv, PlainFailure, Flags, Tuning
<1>6. Queue'
  BY DEF Inv, PlainFailure, Queue
<1>7. Searching'
  BY DEF Inv, PlainFailure, Searching, Tuning, First, Named, OrNext, Candidate, List, Satellite
<1>8. Tuner'
  BY DEF Inv, PlainFailure, Tuner, OrNext
<1>9. TimeRead'
  BY DEF Inv, PlainFailure, TimeRead, OrNext
<1> QED
  BY <1>1, <1>2, <1>3, <1>4, <1>5, <1>6, <1>7, <1>8, <1>9 DEF Inv

LEMMA AttemptFailsKeeps ==
  ASSUME Inv, AttemptFails
  PROVE  Inv'
<1>1. Types'
  BY DEF Inv, AttemptFails, Types, Close
<1>2. Where'
  BY DEF Inv, AttemptFails, Where, Named, tune_persistent, LastRetryLost
<1>3. Files'
  BY DEF Inv, AttemptFails, Files, Close
<1>4. Sockets'
  BY DEF Inv, AttemptFails, Sockets
<1>5. Flags'
  BY DEF Inv, AttemptFails, Flags, tune_persistent
<1>6. Queue'
  BY DEF Inv, AttemptFails, Queue
<1>7. Searching'
  BY DEF Inv, AttemptFails, Searching, Tuning, First, Named, Candidate, List, Satellite
<1>8. Tuner'
  BY DEF Inv, AttemptFails, Tuner, Satellite
<1>9. TimeRead'
  BY DEF Inv, AttemptFails, TimeRead
<1> QED
  BY <1>1, <1>2, <1>3, <1>4, <1>5, <1>6, <1>7, <1>8, <1>9 DEF Inv

LEMMA RetryKeeps ==
  ASSUME Inv, Retry
  PROVE  Inv'
<1>1. Types'
  BY DEF Inv, Retry, Types
<1>2. Where'
  BY DEF Inv, Retry, Where, Tuning
<1>3. Files'
  BY DEF Inv, Retry, Files
<1>4. Sockets'
  BY DEF Inv, Retry, Sockets
<1>5. Flags'
  BY DEF Inv, Retry, Flags, Tuning
<1>6. Queue'
  BY DEF Inv, Retry, Queue
<1>7. Searching'
  BY DEF Inv, Retry, Searching, Tuning, First, Named, Candidate, List, Satellite
<1>8. Tuner'
  BY DEF Inv, Retry, Tuner, Satellite
<1>9. TimeRead'
  BY DEF Inv, Retry, TimeRead
<1> QED
  BY <1>1, <1>2, <1>3, <1>4, <1>5, <1>6, <1>7, <1>8, <1>9 DEF Inv

LEMMA GiveUpKeeps ==
  ASSUME Inv, GiveUp
  PROVE  Inv'
<1>1. Types'
  BY DEF Inv, GiveUp, Types, Close
<1>2. Where'
  BY DEF Inv, GiveUp, Where
<1>3. Files'
  BY DEF Inv, GiveUp, Files, Close
<1>4. Sockets'
  BY DEF Inv, GiveUp, Sockets
<1>5. Flags'
  BY DEF Inv, GiveUp, Flags, Tuning
<1>6. Queue'
  BY DEF Inv, GiveUp, Queue
<1>7. Searching'
  BY DEF Inv, GiveUp, Searching, Tuning, Told
<1>8. Tuner'
  BY DEF Inv, GiveUp, Tuner
<1>9. TimeRead'
  BY DEF Inv, GiveUp, TimeRead
<1> QED
  BY <1>1, <1>2, <1>3, <1>4, <1>5, <1>6, <1>7, <1>8, <1>9 DEF Inv

LEMMA UntunedKeeps ==
  ASSUME Inv, Untuned
  PROVE  Inv'
<1>1. Types'
  BY DEF Inv, Untuned, Types
<1>2. Where'
  BY DEF Inv, Untuned, Where
<1>3. Files'
  BY DEF Inv, Untuned, Files, Named
<1>4. Sockets'
  BY DEF Inv, Untuned, Types, Sockets
<1>5. Flags'
  BY DEF Inv, Untuned, Flags
<1>6. Queue'
  BY DEF Inv, Untuned, Queue
<1>7. Searching'
  BY DEF Inv, Untuned, Searching, Tuning
<1>8. Tuner'
  BY DEF Inv, Untuned, Tuner
<1>9. TimeRead'
  BY DEF Inv, Untuned, TimeRead
<1> QED
  BY <1>1, <1>2, <1>3, <1>4, <1>5, <1>6, <1>7, <1>8, <1>9 DEF Inv

LEMMA AcceptKeeps ==
  ASSUME Inv, Accept
  PROVE  Inv'
<1>1. Types'
  BY SessionsAssumption DEF Inv, Accept, Types, Where
<1>2. Where'
  BY SessionsAssumption DEF Inv, Accept, Where
<1>3. Files'
  BY SessionsAssumption DEF Inv, Accept, Files, Named
<1>4. Sockets'
  BY SessionsAssumption DEF Inv, Accept, Types, Sockets
<1>5. Flags'
  BY SessionsAssumption DEF Inv, Accept, Flags
<1>6. Queue'
  BY SessionsAssumption DEF Inv, Accept, Queue
<1>7. Searching'
  BY SessionsAssumption DEF Inv, Accept, Searching, Tuning
<1>8. Tuner'
  BY SessionsAssumption DEF Inv, Accept, Tuner
<1>9. TimeRead'
  BY SessionsAssumption DEF Inv, Accept, TimeRead
<1> QED
  BY <1>1, <1>2, <1>3, <1>4, <1>5, <1>6, <1>7, <1>8, <1>9 DEF Inv

LEMMA AcceptFailsKeeps ==
  ASSUME Inv, AcceptFails
  PROVE  Inv'
<1>1. Types'
  BY SessionsAssumption DEF Inv, AcceptFails, Types
<1>2. Where'
  BY SessionsAssumption DEF Inv, AcceptFails, Where
<1>3. Files'
  BY SessionsAssumption DEF Inv, AcceptFails, Files
<1>4. Sockets'
  BY SessionsAssumption DEF Inv, AcceptFails, Sockets
<1>5. Flags'
  BY SessionsAssumption DEF Inv, AcceptFails, Flags
<1>6. Queue'
  BY SessionsAssumption DEF Inv, AcceptFails, Queue
<1>7. Searching'
  BY SessionsAssumption DEF Inv, AcceptFails, Searching, Tuning
<1>8. Tuner'
  BY SessionsAssumption DEF Inv, AcceptFails, Tuner
<1>9. TimeRead'
  BY SessionsAssumption DEF Inv, AcceptFails, TimeRead
<1> QED
  BY <1>1, <1>2, <1>3, <1>4, <1>5, <1>6, <1>7, <1>8, <1>9 DEF Inv

LEMMA SpawnKeeps ==
  ASSUME Inv, Spawn
  PROVE  Inv'
<1>1. Types'
  BY DEF Inv, Spawn, Types
<1>2. Where'
  BY DEF Inv, Spawn, Where
<1>3. Files'
  BY DEF Inv, Spawn, Files
<1>4. Sockets'
  BY DEF Inv, Spawn, Sockets
<1>5. Flags'
  BY DEF Inv, Spawn, Flags, Tuning
<1>6. Queue'
  BY DEF Inv, Spawn, Queue
<1>7. Searching'
  BY DEF Inv, Spawn, Searching
<1>8. Tuner'
  BY DEF Inv, Spawn, Tuner
<1>9. TimeRead'
  BY DEF Inv, Spawn, TimeRead
<1> QED
  BY <1>1, <1>2, <1>3, <1>4, <1>5, <1>6, <1>7, <1>8, <1>9 DEF Inv

LEMMA ChangeKindKeeps ==
  ASSUME Inv, ChangeKind
  PROVE  Inv'
<1>1. Types'
  BY SessionsAssumption DEF Inv, ChangeKind, Types
<1>2. Where'
  BY SessionsAssumption DEF Inv, ChangeKind, Where
<1>3. Files'
  BY SessionsAssumption DEF Inv, ChangeKind, Files
<1>4. Sockets'
  BY SessionsAssumption DEF Inv, ChangeKind, Sockets
<1>5. Flags'
  BY SessionsAssumption DEF Inv, ChangeKind, Flags
<1>6. Queue'
  BY SessionsAssumption DEF Inv, ChangeKind, Queue
<1>7. Searching'
  BY SessionsAssumption DEF Inv, ChangeKind, Searching
<1>8. Tuner'
  BY SessionsAssumption DEF Inv, ChangeKind, Tuner
<1>9. TimeRead'
  BY SessionsAssumption DEF Inv, ChangeKind, TimeRead
<1> QED
  BY <1>1, <1>2, <1>3, <1>4, <1>5, <1>6, <1>7, <1>8, <1>9 DEF Inv

LEMMA ChangedKeeps ==
  ASSUME Inv, Changed
  PROVE  Inv'
<1>1. Types'
  BY DEF Inv, Changed, Types
<1>2. Where'
  BY DEF Inv, Changed, Where
<1>3. Files'
  BY DEF Inv, Changed, Files, Named
<1>4. Sockets'
  BY DEF Inv, Changed, Sockets
<1>5. Flags'
  BY DEF Inv, Changed, Flags, Tuning
<1>6. Queue'
  BY DEF Inv, Changed, Queue
<1>7. Searching'
  BY DEF Inv, Changed, Searching, Tuning
<1>8. Tuner'
  BY DEF Inv, Changed, Tuner
<1>9. TimeRead'
  BY DEF Inv, Changed, TimeRead
<1> QED
  BY <1>1, <1>2, <1>3, <1>4, <1>5, <1>6, <1>7, <1>8, <1>9 DEF Inv

LEMMA RecordingEndsKeeps ==
  ASSUME Inv, RecordingEnds
  PROVE  Inv'
<1>1. Types'
  BY DEF Inv, RecordingEnds, Types
<1>2. Where'
  BY DEF Inv, RecordingEnds, Where
<1>3. Files'
  BY DEF Inv, RecordingEnds, Files
<1>4. Sockets'
  BY DEF Inv, RecordingEnds, Sockets
<1>5. Flags'
  BY DEF Inv, RecordingEnds, Flags, Tuning
<1>6. Queue'
  BY DEF Inv, RecordingEnds, Queue
<1>7. Searching'
  BY DEF Inv, RecordingEnds, Searching, Tuning
<1>8. Tuner'
  BY DEF Inv, RecordingEnds, Tuner
<1>9. TimeRead'
  BY DEF Inv, RecordingEnds, TimeRead
<1> QED
  BY <1>1, <1>2, <1>3, <1>4, <1>5, <1>6, <1>7, <1>8, <1>9 DEF Inv

LEMMA CloseTunerKeeps ==
  ASSUME Inv, CloseTuner
  PROVE  Inv'
<1>1. Types'
  BY DEF Inv, CloseTuner, Types, Close
<1>2. Where'
  BY DEF Inv, CloseTuner, Where
<1>3. Files'
  BY DEF Inv, CloseTuner, Files, Close
<1>4. Sockets'
  BY DEF Inv, CloseTuner, Sockets
<1>5. Flags'
  BY DEF Inv, CloseTuner, Flags, Tuning
<1>6. Queue'
  BY DEF Inv, CloseTuner, Queue
<1>7. Searching'
  BY DEF Inv, CloseTuner, Searching, Tuning
<1>8. Tuner'
  BY DEF Inv, CloseTuner, Tuner
<1>9. TimeRead'
  BY DEF Inv, CloseTuner, TimeRead
<1> QED
  BY <1>1, <1>2, <1>3, <1>4, <1>5, <1>6, <1>7, <1>8, <1>9 DEF Inv

LEMMA EndKeeps ==
  ASSUME Inv, End
  PROVE  Inv'
<1>1. Types'
  BY DEF Inv, End, Types, Freed
<1>2. Where'
  BY DEF Inv, End, Where
<1>3. Files'
  BY DEF Inv, End, Files
<1>4. Sockets'
  BY DEF Inv, End, Sockets
<1>5. Flags'
  BY DEF Inv, End, Flags, Tuning
<1>6. Queue'
  BY DEF Inv, End, Queue
<1>7. Searching'
  BY DEF Inv, End, Searching, Tuning
<1>8. Tuner'
  BY DEF Inv, End, Tuner
<1>9. TimeRead'
  BY DEF Inv, End, TimeRead
<1> QED
  BY <1>1, <1>2, <1>3, <1>4, <1>5, <1>6, <1>7, <1>8, <1>9 DEF Inv

LEMMA NextConnectionKeeps ==
  ASSUME Inv, NextConnection
  PROVE  Inv'
<1>1. Types'
  BY DEF Inv, NextConnection, Types, Freed, OneSocketLess
<1>2. Where'
  BY DEF Inv, NextConnection, Where
<1>3. Files'
  BY DEF Inv, NextConnection, Files, Named
<1>4. Sockets'
  BY DEF Inv, NextConnection, Types, Sockets, Freed, OneSocketLess
<1>5. Flags'
  BY DEF Inv, NextConnection, Flags, NoExit
<1>6. Queue'
  BY DEF Inv, NextConnection, Queue
<1>7. Searching'
  BY DEF Inv, NextConnection, Searching, Tuning
<1>8. Tuner'
  BY DEF Inv, NextConnection, Tuner
<1>9. TimeRead'
  BY DEF Inv, NextConnection, TimeRead
<1> QED
  BY <1>1, <1>2, <1>3, <1>4, <1>5, <1>6, <1>7, <1>8, <1>9 DEF Inv

LEMMA CrashKeeps ==
  ASSUME Inv, Crash
  PROVE  Inv'
<1>1. Types'
  BY DEF Inv, Crash, Types
<1>2. Where'
  BY DEF Inv, Crash, Where
<1>3. Files'
  BY DEF Inv, Crash, Files
<1>4. Sockets'
  BY DEF Inv, Crash, Sockets
<1>5. Flags'
  BY DEF Inv, Crash, Flags, Tuning
<1>6. Queue'
  BY DEF Inv, Crash, Queue
<1>7. Searching'
  BY DEF Inv, Crash, Searching, Tuning
<1>8. Tuner'
  BY DEF Inv, Crash, Tuner
<1>9. TimeRead'
  BY DEF Inv, Crash, TimeRead
<1> QED
  BY <1>1, <1>2, <1>3, <1>4, <1>5, <1>6, <1>7, <1>8, <1>9 DEF Inv

LEMMA ShowKeeps ==
  ASSUME Inv, Show
  PROVE  Inv'
<1>1. Types'
  BY DEF Inv, Show, Types
<1>2. Where'
  BY DEF Inv, Show, Types, Where
<1>3. Files'
  BY DEF Inv, Show, Files
<1>4. Sockets'
  BY DEF Inv, Show, Sockets
<1>5. Flags'
  BY DEF Inv, Show, Flags
<1>6. Queue'
  BY DEF Inv, Show, Queue
<1>7. Searching'
  BY DEF Inv, Show, Searching
<1>8. Tuner'
  BY DEF Inv, Show, Tuner
<1>9. TimeRead'
  BY DEF Inv, Show, TimeRead
<1> QED
  BY <1>1, <1>2, <1>3, <1>4, <1>5, <1>6, <1>7, <1>8, <1>9 DEF Inv

LEMMA InterruptKeeps ==
  ASSUME Inv, Interrupt
  PROVE  Inv'
<1>1. Types'
  BY DEF Inv, Interrupt, Types
<1>2. Where'
  BY DEF Inv, Interrupt, Where, Named
<1>3. Files'
  BY DEF Inv, Interrupt, Files, Named
<1>4. Sockets'
  BY DEF Inv, Interrupt, Sockets
<1>5. Flags'
  BY DEF Inv, Interrupt, Flags, Tuning
<1>6. Queue'
  BY DEF Inv, Interrupt, Queue
<1>7. Searching'
  BY DEF Inv, Interrupt, Searching, Tuning, First, Named, Candidate, List, Satellite
<1>8. Tuner'
  BY DEF Inv, Interrupt, Tuner, Satellite
<1>9. TimeRead'
  BY DEF Inv, Interrupt, TimeRead
<1> QED
  BY <1>1, <1>2, <1>3, <1>4, <1>5, <1>6, <1>7, <1>8, <1>9 DEF Inv

LEMMA TakeSignalKeeps ==
  ASSUME Inv, TakeSignal
  PROVE  Inv'
<1>1. Types'
  BY DEF Inv, TakeSignal, Types
<1>2. Where'
  BY DEF Inv, TakeSignal, Where, Named
<1>3. Files'
  BY DEF Inv, TakeSignal, Files, Named
<1>4. Sockets'
  BY DEF Inv, TakeSignal, Sockets
<1>5. Flags'
  BY DEF Inv, TakeSignal, Flags
<1>6. Queue'
  BY DEF Inv, TakeSignal, Queue
<1>7. Searching'
  BY DEF Inv, TakeSignal, Searching, First, Named, Candidate, List, Satellite
<1>8. Tuner'
  BY DEF Inv, TakeSignal, Tuner, Satellite
<1>9. TimeRead'
  BY DEF Inv, TakeSignal, TimeRead
<1> QED
  BY <1>1, <1>2, <1>3, <1>4, <1>5, <1>6, <1>7, <1>8, <1>9 DEF Inv

LEMMA OthersKeeps ==
  ASSUME Inv, Others
  PROVE  Inv'
<1>1. Types'
  BY DEF Inv, Others, Types
<1>2. Where'
  BY DEF Inv, Others, Where
<1>3. Files'
  BY DEF Inv, Others, Files, Named
<1>4. Sockets'
  BY DEF Inv, Others, Sockets
<1>5. Flags'
  BY DEF Inv, Others, Flags
<1>6. Queue'
  BY DEF Inv, Others, Queue
<1>7. Searching'
  BY DEF Inv, Others, Searching
<1>8. Tuner'
  BY DEF Inv, Others, Tuner
<1>9. TimeRead'
  BY DEF Inv, Others, TimeRead
<1> QED
  BY <1>1, <1>2, <1>3, <1>4, <1>5, <1>6, <1>7, <1>8, <1>9 DEF Inv

LEMMA InitInv ==
  ASSUME Init
  PROVE  Inv
<1>1. Types
  <2>1. name \in Names
    BY SessionsAssumption DEF Init, Names
  <2> QED
    BY <2>1 DEF Init, Types
<1>2. Where /\ Files /\ Sockets /\ Queue /\ Tuner
  BY DEF Init, Where, Files, Sockets, Queue, Tuner, Tuning, Named
<1>3. Flags /\ Searching /\ TimeRead
  BY DEF Init, Flags, Searching, TimeRead, Tuning
<1> QED
  BY <1>1, <1>2, <1>3 DEF Inv

\* A step that changes nothing
LEMMA StutterKeeps ==
  ASSUME Inv, UNCHANGED vars
  PROVE  Inv'
<1>1. Types' /\ Where' /\ Files' /\ Sockets' /\ Queue'
  BY DEF Inv, vars, Types, Where, Files, Sockets, Queue, Tuning, Named
<1>2. Flags' /\ TimeRead'
  BY DEF Inv, vars, Flags, TimeRead, Tuning
<1>3. Searching'
  BY DEF Inv, vars, Searching, Tuning, First, Named, Candidate, List, Satellite
<1>4. Tuner'
  BY DEF Inv, vars, Tuner, Satellite
<1> QED
  BY <1>1, <1>2, <1>3, <1>4 DEF Inv

LEMMA TuneKeeps ==
  ASSUME Inv, Tune
  PROVE  Inv'
BY LookupKeeps, NextDeviceKeeps, OpenFailsKeeps, OpenKeeps, SetChannelKeeps, PlainFailureKeeps,
   AttemptFailsKeeps, RetryKeeps, GiveUpKeeps
   DEF Tune

LEMMA MainKeeps ==
  ASSUME Inv, Main
  PROVE  Inv'
BY TuneKeeps, UntunedKeeps, SpawnKeeps, ChangedKeeps, CloseTunerKeeps, EndKeeps,
   NextConnectionKeeps, ShowKeeps
   DEF Main

LEMMA NextKeeps ==
  ASSUME Inv, [Next]_vars
  PROVE  Inv'
BY MainKeeps, AcceptKeeps, AcceptFailsKeeps, ChangeKindKeeps, RecordingEndsKeeps, CrashKeeps,
   InterruptKeeps, TakeSignalKeeps, OthersKeeps, StutterKeeps
   DEF Next

\* The invariant holds of every program that tunes and records: no step of tune(), of
\* close_tuner(), of a main() or of a signal breaks it.
THEOREM Invariant == Spec => []Inv
<1>1. Init => Inv
  BY InitInv
<1>2. Inv /\ [Next]_vars => Inv'
  BY NextKeeps
<1> QED
  BY <1>1, <1>2, PTL DEF Spec

-----------------------------------------------------------------------------
(* The properties *)

\* What is found is a record of the table, with one of the two types.
LEMMA FoundIs ==
  ASSUME NEW n, searchrecoff(n) # Invalid
  PROVE  [searchrecoff(n) EXCEPT !.type = searchrecoff(n).type] = searchrecoff(n)
<1>1. PICK f, s, y : searchrecoff(n) = [freq |-> f, slot |-> s, type |-> y]
  BY DEF searchrecoff, BsEntry, CsEntry, Invalid
<1> QED
  BY <1>1

\* A program that has tuned has one device file open; and if the device is of the
\* channel's kind, its tuner is where the broadcasters' plan has the channel (tune() and
\* close_tuner() of recpt1core.c, the tables of pt1_dev.base.h and of the driver).
THEOREM OnChannel == Spec => []ChannelTuned
<1>1. ASSUME Inv  PROVE ChannelTuned
  <2> SUFFICES ASSUME pc = "tuned"
               PROVE  /\ open = {tfd}
                      /\ (Kind(tfd) = table.type /\ InPlan => OnPlan(mhz[tfd], name))
    BY DEF ChannelTuned
  <2>1. open = {tfd}
    BY <1>1 DEF Inv, Files
  <2>2. ASSUME Kind(tfd) = table.type, InPlan  PROVE OnPlan(mhz[tfd], name)
    <3>1. table # Invalid /\ table = searchrecoff(name) /\ name \in Names
      BY <1>1 DEF Inv, Searching, Types, Tuning
    <3>2. mhz[tfd] = Tuned([table EXCEPT !.type = table.type])
      BY <1>1, <2>2 DEF Inv, Tuner
    <3>3. mhz[tfd] = Tuned(searchrecoff(name))
      BY <3>1, <3>2, FoundIs
    <3> QED
      BY <2>2, <3>1, <3>3, FoundOnPlan DEF InPlan
  <2> QED
    BY <2>1, <2>2
<1> QED
  BY <1>1, Invariant, PTL

\* "all tuners cannot be used" is said only when every device of the list has been
\* tried, unless a signal ended the search (the loops of tune()).
THEOREM EveryTuner == Spec => []TriesAll
<1>1. Inv => TriesAll
  BY DEF Inv, Searching, TriesAll
<1> QED
  BY <1>1, Invariant, PTL

\* A connection of the server finds what the first one found: what main() of recpt1.c
\* takes back at the end of its loop, and what close_tuner() gave back, is all there is.
THEOREM Afresh == Spec => []StartsAfresh
<1>1. ASSUME Inv  PROVE StartsAfresh
  <2> SUFFICES ASSUME pc = "accept"  PROVE StartsAfresh
    BY DEF StartsAfresh
  <2>1. program = "http" /\ caller = "main"
    BY <1>1 DEF Inv, Where
  <2>2. open = {} /\ (tfd = None \/ Named)
    BY <1>1 DEF Inv, Files
  <2>3. queue = "new"
    BY <1>1, <2>1 DEF Inv, Queue
  <2>4. ~f_exit /\ sigthread = "none"
    BY <1>1, <2>1 DEF Inv, Flags, Tuning
  <2>5. sockets = failed /\ splitters <= failed
    BY <1>1, <2>1 DEF Inv, Sockets
  <2> QED
    BY <2>2, <2>3, <2>4, <2>5 DEF StartsAfresh
<1> QED
  BY <1>1, Invariant, PTL

\* The recording time that parse_time() makes of a text is the one a reader of the text
\* would name, whatever numbers are in it, if it fits an int.
THEOREM TimeAsWritten == Spec => []TimeRight
<1>1. ASSUME Inv  PROVE TimeRight
  <2> SUFFICES ASSUME pc = "recording", program = "recpt1"  PROVE TimeRight
    BY DEF TimeRight
  <2>1. recsec = parse_time(text, 0) /\ (indefinite <=> recsec = -1)
    BY <1>1 DEF Inv, TimeRead
  <2>2. text = Dash \/ text \in Texts
    BY <1>1 DEF Inv, Types
  <2>3. IsTime(text)
    BY <2>2, SessionsAssumption DEF IsTime
  <2>4. Readable(text) => recsec = Meant(text)
    BY <2>1, <2>3, ParseRight
  <2>5. text = Dash => recsec = -1
    BY <2>1 DEF Dash, parse_time
  <2> QED
    BY <2>1, <2>4, <2>5 DEF TimeRight
<1> QED
  BY <1>1, Invariant, PTL
=============================================================================
