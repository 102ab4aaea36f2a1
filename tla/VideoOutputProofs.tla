------------------------- MODULE VideoOutputProofs -------------------------
(***************************************************************************)
(* What the output cameras guarantee, for any number of buffers, sizes of  *)
(* frames and formats, and whatever the driver answers.                    *)
(***************************************************************************)
EXTENDS VideoOutput, WellFoundedInduction, TLAPS

\* Rows of even length: the pixels of a pair are in one row.
LEMMA ProductMonotone ==
  ASSUME NEW a \in Nat, NEW b \in Nat, NEW c \in Nat, a < b
  PROVE  a * c + c <= b * c
<1>1. PICK d \in Nat : b = a + 1 + d
  <2>1. b - a - 1 \in Nat /\ b = a + 1 + (b - a - 1)
    OBVIOUS
  <2> QED
    BY <2>1
<1>2. b * c = a * c + c + d * c
  BY <1>1
<1>3. d * c \in Nat
  OBVIOUS
<1>4. a * c \in Nat /\ b * c \in Nat
  OBVIOUS
<1> QED
  BY <1>2, <1>3, <1>4

LEMMA LeastNumber ==
  ASSUME NEW T \in SUBSET Nat, T # {}
  PROVE  \E x \in T : \A n \in T : ~(n < x)
<1> DEFINE R == OpToRel(<, Nat)
<1>1. \A n, x \in Nat : n < x => <<n, x>> \in R
  BY DEF OpToRel
<1>2. IsWellFoundedOn(R, Nat)
  BY NatLessThanWellFounded
<1> HIDE DEF R
<1>3. \E x \in T : \A n \in T : <<n, x>> \notin R
  BY <1>2, WFMin
<1> QED
  BY <1>1, <1>3

\* A quotient and a remainder: the least y of which the next multiple is past q.
LEMMA Quotient ==
  ASSUME NEW q \in Nat, NEW c \in Nat \ {0}
  PROVE  \E y \in Nat, r \in 0 .. c - 1 : q = y * c + r
<1> DEFINE T == {n \in Nat : q < n * c + c}
<1>1. q \in T
  <2>1. q <= q * c
    BY ProductMonotone
  <2> QED
    BY <2>1
<1>2. PICK y \in T : \A n \in T : ~(n < y)
  <2>1. T \in SUBSET Nat /\ T # {}
    BY <1>1
  <2> HIDE DEF T
  <2> QED
    BY <2>1, LeastNumber
<1>3. y * c <= q
  <2>1. CASE y = 0
    BY <2>1
  <2>2. CASE y # 0
    <3>1. y - 1 \in Nat /\ y - 1 < y
      BY <2>2
    <3>2. ~(q < (y - 1) * c + c)
      BY <1>2, <3>1
    <3>3. (y - 1) * c + c = y * c /\ y * c \in Nat
      OBVIOUS
    <3> QED
      BY <3>2, <3>3
  <2> QED
    BY <2>1, <2>2
<1> DEFINE p == y * c
<1>4. p \in Nat /\ p <= q /\ q < p + c
  BY <1>2, <1>3
<1> HIDE DEF p
<1>5. q - p \in 0 .. c - 1 /\ q = p + (q - p)
  BY <1>4
<1> QED
  BY <1>5 DEF p

(* No turn of to_YUYV leaves a picture whose rows have an even length.     *)
LEMMA EvenRowsFit ==
  ASSUME NEW rows \in Nat \ {0}, NEW cols \in Nat \ {0}, cols % 2 = 0
  PROVE  ~Overruns(rows, cols)
<1> SUFFICES ASSUME NEW t \in Turns(rows, cols)
             PROVE  /\ FirstPixel(t, cols) + 1 \in Pixels(rows, cols)
                    /\ FirstByte(t, cols) + 3 \in Bytes(rows, cols)
  BY DEF Overruns
<1> DEFINE y == t[1]
           x == t[2]
<1>1. y \in 0 .. rows - 1 /\ x \in 0 .. cols - 1 /\ x % 2 = 0
  BY DEF Turns
<1> HIDE DEF y, x
<1>2. x + 2 <= cols
  BY <1>1
<1>3. y * cols + cols <= rows * cols
  BY <1>1, ProductMonotone
<1>4. y * cols \in Nat /\ rows * cols \in Nat
  BY <1>1
<1>5. y * (2 * cols) = 2 * (y * cols) /\ 2 * rows * cols = 2 * (rows * cols)
  BY <1>1
<1>6. y * cols + x + 1 \in 0 .. rows * cols - 1
  BY <1>1, <1>2, <1>3, <1>4
<1>7. 2 * (y * cols) + 2 * x + 3 \in 0 .. 2 * (rows * cols) - 1
  BY <1>1, <1>2, <1>3, <1>4
<1> QED
  BY <1>5, <1>6, <1>7 DEF FirstPixel, FirstByte, Pixels, Bytes, x, y

(* Every byte of such a picture is written in one turn, that of its pair.  *)
LEMMA OneTurn ==
  ASSUME NEW rows \in Nat \ {0}, NEW c \in Nat \ {0},
         NEW k \in Bytes(rows, 2 * c)
  PROVE  \E t \in Turns(rows, 2 * c) :
           /\ FirstByte(t, 2 * c) = 4 * (k \div 4)
           /\ FirstPixel(t, 2 * c) = 2 * (k \div 4)
           /\ {s \in Turns(rows, 2 * c) : k - FirstByte(s, 2 * c) \in 0 .. 3} = {t}
<1> DEFINE q == k \div 4
<1>1. k \in Nat /\ q \in Nat /\ k - 4 * q \in 0 .. 3
  BY DEF Bytes
<1>2. q < rows * c
  <2>1. 2 * rows * (2 * c) = 4 * (rows * c) /\ rows * c \in Nat
    OBVIOUS
  <2>2. k < 4 * (rows * c)
    BY <2>1 DEF Bytes
  <2> QED
    BY <1>1, <2>1, <2>2
<1> HIDE DEF q
<1>3. PICK y \in Nat, r \in 0 .. c - 1 : q = y * c + r
  BY <1>1, Quotient
<1>4. y < rows
  <2> SUFFICES ASSUME ~(y < rows) PROVE FALSE
    OBVIOUS
  <2>1. rows * c <= y * c
    <3>1. CASE rows = y
      BY <3>1
    <3>2. CASE rows < y
      BY <3>2, ProductMonotone
    <3> QED
      BY <3>1, <3>2
  <2> QED
    BY <1>2, <1>3, <2>1
<1>5. <<y, 2 * r>> \in Turns(rows, 2 * c)
  BY <1>3, <1>4 DEF Turns
<1>6. /\ FirstByte(<<y, 2 * r>>, 2 * c) = 4 * q
      /\ FirstPixel(<<y, 2 * r>>, 2 * c) = 2 * q
  <2>1. y * (2 * (2 * c)) = 4 * (y * c) /\ y * (2 * c) = 2 * (y * c) /\ y * c \in Nat
    BY <1>3
  <2> QED
    BY <1>3, <2>1 DEF FirstByte, FirstPixel
<1>7. ASSUME NEW s \in Turns(rows, 2 * c), k - FirstByte(s, 2 * c) \in 0 .. 3
      PROVE  s = <<y, 2 * r>>
  <2>1. PICK z \in 0 .. rows - 1, x \in 0 .. 2 * c - 1 : s = <<z, x>> /\ x % 2 = 0
    BY DEF Turns
  <2>2. PICK p \in 0 .. c - 1 : x = 2 * p
    <3>1. x \div 2 \in 0 .. c - 1 /\ x = 2 * (x \div 2)
      BY <2>1
    <3> QED
      BY <3>1
  <2>3. FirstByte(s, 2 * c) = 4 * (z * c + p)
    <3>1. z * (2 * (2 * c)) = 4 * (z * c) /\ z * c \in Nat
      BY <2>1
    <3> QED
      BY <2>1, <2>2, <3>1 DEF FirstByte
  <2>4. z * c + p = y * c + r
    <3>1. z * c + p \in Nat
      BY <2>1, <2>2
    <3> DEFINE n == z * c + p
    <3>2. k - 4 * n \in 0 .. 3 /\ n \in Nat
      BY <1>7, <2>3, <3>1
    <3> HIDE DEF n
    <3>3. n = q
      BY <1>1, <3>2
    <3> QED
      BY <1>3, <3>3 DEF n
  <2>5. z = y
    <3>0. z \in Nat /\ z * c \in Nat /\ y * c \in Nat
      BY <2>1, <1>3
    <3>1. ~(z < y)
      <4> SUFFICES ASSUME z < y PROVE FALSE
        OBVIOUS
      <4>1. z * c + c <= y * c
        BY <3>0, <1>3, ProductMonotone
      <4> QED
        BY <4>1, <2>4, <2>2, <1>3, <3>0
    <3>2. ~(y < z)
      <4> SUFFICES ASSUME y < z PROVE FALSE
        OBVIOUS
      <4>1. y * c + c <= z * c
        BY <3>0, <1>3, ProductMonotone
      <4> QED
        BY <4>1, <2>4, <2>2, <1>3, <3>0
    <3> QED
      BY <3>0, <3>1, <3>2, <1>3
  <2>6. p = r
    BY <2>4, <2>5, <1>3, <2>2
  <2> QED
    BY <2>1, <2>2, <2>5, <2>6
<1>8. k - FirstByte(<<y, 2 * r>>, 2 * c) \in 0 .. 3
  BY <1>1, <1>6
<1> QED
  BY <1>5, <1>6, <1>7, <1>8 DEF q

LEMMA EvenIsDouble ==
  ASSUME NEW cols \in Nat \ {0}, cols % 2 = 0
  PROVE  \E c \in Nat \ {0} : cols = 2 * c
<1>1. cols \div 2 \in Nat \ {0} /\ cols = 2 * (cols \div 2)
  OBVIOUS
<1> QED
  BY <1>1

(* Converter::to_YUYV makes YUYV of every picture whose rows have an even  *)
(* length, of any size: each byte is of the channel and of the pixel that  *)
(* its place calls for.                                                    *)
THEOREM EvenRowsPacked ==
  ASSUME NEW rows \in Nat \ {0}, NEW cols \in Nat \ {0}, cols % 2 = 0
  PROVE  ToYUYV(rows, cols) = Packed(rows, cols)
<1>1. PICK c \in Nat \ {0} : cols = 2 * c
  BY EvenIsDouble
<1> DEFINE Hits(k) == {t \in Turns(rows, cols) : k - FirstByte(t, cols) \in 0 .. 3}
           Last(k) == CHOOSE t \in Hits(k) : \A s \in Hits(k) : Before(s, t)
           Part(k) == Yuyv[k - FirstByte(Last(k), cols) + 1]
<1>2. ASSUME NEW k \in Bytes(rows, cols)
      PROVE  /\ FirstByte(Last(k), cols) = 4 * (k \div 4)
             /\ FirstPixel(Last(k), cols) = 2 * (k \div 4)
  <2>1. PICK t \in Turns(rows, cols) :
          /\ FirstByte(t, cols) = 4 * (k \div 4)
          /\ FirstPixel(t, cols) = 2 * (k \div 4)
          /\ Hits(k) = {t}
    BY <1>1, <1>2, OneTurn
  <2>2. t[1] \in Int /\ t[2] \in Int
    BY DEF Turns
  <2>3. \A s \in {t} : Before(s, t)
    BY <2>2 DEF Before
  <2>4. Last(k) = t
    BY <2>1, <2>3
  <2> QED
    BY <2>1, <2>4
<1>3. ASSUME NEW k \in Bytes(rows, cols)
      PROVE  [chan |-> Part(k).chan, pixel |-> FirstPixel(Last(k), cols) + Part(k).pixel]
             = [chan |-> IF k % 2 = 0 THEN "y" ELSE IF k % 4 = 1 THEN "u" ELSE "v",
                pixel |-> k \div 2]
  <2> DEFINE i == k % 4
             n == 2 * (k \div 4)
  <2>1. k \in Nat
    BY <1>1, <1>3 DEF Bytes
  <2>2. i \in 0 .. 3 /\ k - 4 * (k \div 4) = i /\ n \in Nat
    BY <2>1
  <2>3. (k % 2 = 0 <=> i \in {0, 2}) /\ k \div 2 = n + (IF i < 2 THEN 0 ELSE 1)
    BY <2>1
  <2>4. Part(k) = Yuyv[i + 1] /\ FirstPixel(Last(k), cols) = n
    BY <1>2, <1>3, <2>2
  <2> HIDE DEF i, n, Part, Last
  <2>5. /\ i = 0 => Yuyv[i + 1] = [chan |-> "y", pixel |-> 0]
        /\ i = 1 => Yuyv[i + 1] = [chan |-> "u", pixel |-> 0]
        /\ i = 2 => Yuyv[i + 1] = [chan |-> "y", pixel |-> 1]
        /\ i = 3 => Yuyv[i + 1] = [chan |-> "v", pixel |-> 1]
    BY DEF Yuyv
  <2>6. k % 4 = i
    BY DEF i
  <2> QED
    BY <2>2, <2>3, <2>4, <2>5, <2>6
<1> HIDE DEF Part
<1>4. ToYUYV(rows, cols) =
        [k \in Bytes(rows, cols) |->
           [chan |-> Part(k).chan, pixel |-> FirstPixel(Last(k), cols) + Part(k).pixel]]
  BY DEF ToYUYV, Part
<1> HIDE DEF Last
<1> QED
  BY <1>3, <1>4 DEF Packed

(* The bytes of a pixel hold the four formulas: for every colour their     *)
(* whole parts are in the range of a television signal, and none wraps.    *)
THEOREM BytesHold ==
  ASSUME NEW b \in 0 .. 255, NEW g \in 0 .. 255, NEW r \in 0 .. 255
  PROVE  /\ Luma(b, g, r) \div 1000 \in 16 .. 235
         /\ ChromaU(b, g, r) \div 1000 \in 16 .. 239
         /\ ChromaV(b, g, r) \div 1000 \in 16 .. 239
<1>1. 16000 <= Luma(b, g, r) /\ Luma(b, g, r) < 236000
  BY SMT DEF Luma
<1>2. 16000 <= ChromaU(b, g, r) /\ ChromaU(b, g, r) < 240000
  BY SMT DEF ChromaU
<1>3. 16000 <= ChromaV(b, g, r) /\ ChromaV(b, g, r) < 240000
  BY SMT DEF ChromaV
<1>4. Luma(b, g, r) \in Int /\ ChromaU(b, g, r) \in Int /\ ChromaV(b, g, r) \in Int
  BY SMT DEF Luma, ChromaU, ChromaV
<1>5. \A n, m \in Int : 16000 <= n /\ n < 1000 * (m + 1) => n \div 1000 \in 16 .. m
  BY SMT
<1> QED
  BY <1>1, <1>2, <1>3, <1>4, <1>5, SMT
-----------------------------------------------------------------------------
(* The state of the ring between two calls, and of a device without one.   *)
(* Nothing is mapped past n_buffers, so stop() unmaps all there is.        *)
RingInv ==
  /\ iotype = "readwrite" => stream = NoStream /\ told.start
  /\ output = "opened" =>
       /\ iotype = "mmap" /\ fd
       /\ path = "device" => format.m = told.format /\ format.driver = told.format
  /\ output \in {"none", "opened", "null"} => stream = NoStream
  /\ stream.mapped \subseteq 0 .. stream.n - 1
  /\ stream.n > 0 => stream.queued \subseteq 0 .. stream.n - 1
  /\ output = "object" /\ stream.n > 0 /\ told.start => stream.mapped = 0 .. stream.n - 1
  /\ output = "object" /\ partial /\ ~stale =>
       /\ stream.on /\ stream.n > 0
       /\ pbuf.index \in 0 .. stream.n - 1 \ stream.queued

OutputInv ==
  /\ TypeOK
  /\ RingInv
  /\ NothingLeft
  /\ HeldBuffers
  /\ FormatKnown
  /\ CrashExplained

StreamType == [n : 0 .. NbBuffers, mapped : SUBSET Buffers,
               queued : SUBSET Buffers, on : BOOLEAN]

LEMMA StartedFacts ==
  ASSUME NEW s \in Started
  PROVE  /\ s \in StreamType
         /\ s.mapped \subseteq 0 .. s.n - 1 /\ s.queued \subseteq 0 .. s.n - 1
<1>1. PICK n \in 0 .. NbBuffers :
        s \in [n : {n}, mapped : SUBSET (0 .. n - 1),
               queued : SUBSET (0 .. n - 1), on : BOOLEAN]
  BY DEF Started
<1>2. 0 .. n - 1 \subseteq Buffers
  BY OutputAssumption DEF Buffers
<1> QED
  BY <1>1, <1>2 DEF StreamType

LEMMA StoppedFacts ==
  ASSUME NEW s \in StreamType, NEW off \in BOOLEAN, s.mapped \subseteq 0 .. s.n - 1
  PROVE  /\ Stopped(s, off) \in StreamType
         /\ Stopped(s, off).n = 0 /\ Stopped(s, off).mapped = {}
         /\ off => Stopped(s, off) = NoStream
<1>1. (IF off THEN {} ELSE s.queued) \in SUBSET Buffers
  BY DEF StreamType
<1>2. (s.on /\ ~off) \in BOOLEAN
  OBVIOUS
<1>3. 0 \in 0 .. NbBuffers
  BY OutputAssumption
<1> DEFINE q == IF off THEN {} ELSE s.queued
           o == s.on /\ ~off
<1>6. Stopped(s, off) = [n |-> 0, mapped |-> {}, queued |-> q, on |-> o]
  <2>1. s.mapped \ (0 .. s.n - 1) = {}
    OBVIOUS
  <2> QED
    BY <2>1 DEF Stopped
<1>7. ASSUME off PROVE Stopped(s, off) = NoStream
  <2>1. q = {} /\ o = FALSE
    BY <1>7
  <2> HIDE DEF q, o
  <2> QED
    BY <1>6, <2>1 DEF NoStream
<1> HIDE DEF q, o
<1>4. [n |-> 0, mapped |-> {}, queued |-> q, on |-> o] \in StreamType
  BY <1>1, <1>2, <1>3 DEF StreamType, q, o
<1> QED
  BY <1>4, <1>6, <1>7

\* A picture has a byte, so an offset is one of its bytes.
LEMMA BytesPositive ==
  /\ \A s \in {frame} \cup OtherSizes : frame \in [rows : 1 .. MaxRows, cols : 1 .. MaxCols]
       => BytesOf(s) \in Nat \ {0}
  /\ \A n, m \in Nat : m > 0 => n % m \in 0 .. m - 1
<1>1. ASSUME NEW a \in Nat \ {0}, NEW b \in Nat \ {0} PROVE 2 * a * b \in Nat \ {0}
  <2>1. b <= a * b
    BY ProductMonotone
  <2> QED
    BY <2>1
<1>2. ASSUME frame \in [rows : 1 .. MaxRows, cols : 1 .. MaxCols],
             NEW s \in {frame} \cup OtherSizes
      PROVE  s.rows \in Nat \ {0} /\ s.cols \in Nat \ {0}
  BY <1>2, OutputAssumption
<1>3. \A n, m \in Nat : m > 0 => n % m \in 0 .. m - 1
  OBVIOUS
<1> QED
  BY <1>1, <1>2, <1>3 DEF BytesOf

LEMMA NoStreamTyped == NoStream \in StreamType
  BY OutputAssumption DEF NoStream, StreamType

LEMMA UninitialisedTyped ==
  ASSUME Uninitialised
  PROVE  /\ partial' \in BOOLEAN /\ pbuf' \in [index : Buffers, used : 0 .. Length]
         /\ stale' = TRUE
<1>1. pbuf' \in [index : Buffers, used : 0 .. Length] /\ stale' = TRUE
  BY OutputAssumption DEF Uninitialised, Buffers
<1>2. partial' \in (IF iotype = "mmap" THEN BOOLEAN ELSE {FALSE})
  BY DEF Uninitialised
<1>3. CASE iotype = "mmap"
  BY <1>1, <1>2, <1>3, Zenon
<1>4. CASE iotype # "mmap"
  BY <1>1, <1>2, <1>4
<1> QED
  BY <1>3, <1>4

LEMMA InitInv == Init => OutputInv
<1> SUFFICES ASSUME Init PROVE OutputInv
  OBVIOUS
<1> USE OutputAssumption DEF Init
<1>1. stream \in StreamType
  BY NoStreamTyped
<1>2. pbuf \in [index : Buffers, used : 0 .. Length]
  BY DEF Buffers
<1>3. format \in [m : Formats, driver : Formats]
  OBVIOUS
<1>4. told \in [start : BOOLEAN, format : Formats \cup {Nothing}]
  OBVIOUS
<1>5. offset \in 0 .. BytesOf(size) - 1 /\ taken \in 0 .. BytesOf(frame)
  BY BytesPositive
<1>6. TypeOK
  BY <1>1, <1>2, <1>3, <1>4, <1>5 DEF TypeOK, StreamType
<1>7. RingInv
  BY DEF RingInv, NoStream
<1>8. NothingLeft /\ HeldBuffers /\ FormatKnown /\ CrashExplained
  BY DEF NothingLeft, HeldBuffers, FormatKnown, CrashExplained, NoStream
<1> QED
  BY <1>6, <1>7, <1>8 DEF OutputInv

(* What start() may leave, called by create() or by the user: a reported   *)
(* success is a ring that the driver has all of, and mappings are          *)
(* forgotten only where stop() was left out.                               *)
LEMMA StartStreamFacts ==
  ASSUME OutputInv, StartStream
  PROVE  /\ stream' \in StreamType
         /\ stream'.mapped \subseteq 0 .. stream'.n - 1
         /\ stream'.n > 0 => stream'.queued \subseteq 0 .. stream'.n - 1
         /\ told' = [told EXCEPT !.start = told'.start] /\ told'.start \in BOOLEAN
         /\ told'.start => /\ stream'.mapped = 0 .. stream'.n - 1
                           /\ stream'.queued = 0 .. stream'.n - 1
                           /\ lost' = {} /\ stale' = TRUE
         /\ lost' \in SUBSET Buffers /\ stale' \in BOOLEAN
         /\ orphans' \in BOOLEAN /\ again' \in BOOLEAN /\ (orphans' => again')
         /\ ~stale' => ~stale /\ stream' = stream
<1> USE DEF OutputInv, TypeOK, RingInv, NothingLeft
<1>0. stream \in StreamType
  BY DEF StreamType
<1>1. CASE told' = [told EXCEPT !.start = FALSE] /\ UNCHANGED <<stream, stale, lost, mappings>>
  BY <1>0, <1>1 DEF mappings
<1>2. CASE ~UNCHANGED <<stream, stale, lost, mappings>> \/ told' # [told EXCEPT !.start = FALSE]
  <2>1. PICK success \in BOOLEAN :
          /\ Reports(stream', success)
          /\ told' = [told EXCEPT !.start = success]
          /\ lost' = IF success THEN {} ELSE lost
    BY <1>2 DEF StartStream
  <2>2. /\ stream' \in Started /\ stale' = TRUE
        /\ orphans' = (orphans \/ stream.mapped # {}) /\ again' = (again \/ stream.n > 0)
    BY <1>2 DEF StartStream
  <2>3. told'.start = success
    BY <2>1
  <2>4. success => Succeeded(stream')
    BY <2>1 DEF Reports
  <2>5. stream.mapped # {} => stream.n > 0
    BY <1>0 DEF StreamType
  <2> QED
    BY <2>1, <2>2, <2>3, <2>4, <2>5, StartedFacts DEF Succeeded
<1> QED
  BY <1>1, <1>2

LEMMA StepInv == OutputInv /\ [Next]_vars => OutputInv'
<1> SUFFICES ASSUME OutputInv, [Next]_vars
             PROVE  OutputInv'
  OBVIOUS
<1> USE OutputAssumption
<1> USE DEF OutputInv, RingInv, NothingLeft, HeldBuffers, FormatKnown, CrashExplained
<1>0. stream \in StreamType
  BY DEF TypeOK, StreamType
<1>1. CASE UNCHANGED vars
  BY <1>1 DEF vars, device, write, fixed, mappings, picture, TypeOK
<1>2. CASE Create
  <2> USE <1>2 DEF Create, fixed, mappings
  <2>1. partial' \in BOOLEAN /\ pbuf' \in [index : Buffers, used : 0 .. Length]
    BY UninitialisedTyped
  <2>2. size' \in {frame'} \cup OtherSizes
    BY DEF Sizes
  <2>3. offset' \in 0 .. BytesOf(size') - 1 /\ taken' \in 0 .. BytesOf(frame')
    <3>1. BytesOf(frame') \in Nat \ {0} /\ BytesOf(size') \in Nat \ {0}
      BY <2>2, BytesPositive DEF TypeOK
    <3> QED
      BY <3>1
  <2>4. format' \in [m : Formats, driver : Formats]
    BY DEF ConfigureFormat, TypeOK
  <2>5. stream' = NoStream /\ told' = [start |-> TRUE, format |-> Asked] /\ stale' = TRUE
    BY UninitialisedTyped
  <2>9. /\ stale' \in BOOLEAN /\ up' \in BOOLEAN /\ lost' = {} /\ torn' = FALSE /\ fd' = TRUE
        /\ output' \in {"opened", "object"}
        /\ UNCHANGED <<iotype, path, frame, orphans, again>>
    BY UninitialisedTyped DEF TypeOK
  <2>10. told' \in [start : BOOLEAN, format : Formats \cup {Nothing}]
    BY <2>5
  <2>6. TypeOK'
    <3> HIDE DEF Create
    <3> QED
      BY <2>1, <2>2, <2>3, <2>4, <2>5, <2>9, <2>10, NoStreamTyped DEF TypeOK, StreamType
  <2>7. RingInv' /\ HeldBuffers'
    BY <2>5, <2>9 DEF NoStream, TypeOK, ConfigureFormat
  <2>8. FormatKnown' /\ NothingLeft' /\ CrashExplained'
    BY DEF ConfigureFormat
  <2> QED
    BY <2>6, <2>7, <2>8
<1>14. CASE CreateFails
  <2> USE <1>14 DEF CreateFails, fixed, mappings, picture
  <2>1. partial' \in BOOLEAN /\ pbuf' \in [index : Buffers, used : 0 .. Length]
    BY UninitialisedTyped
  <2>2. format' \in [m : Formats, driver : Formats]
    OBVIOUS
  <2>3. /\ stale' = TRUE /\ lost' = {} /\ fd' = FALSE /\ output' = "failed" /\ up = TRUE
        /\ UNCHANGED <<stream, told, iotype, path, frame, orphans, again,
                       size, offset, torn, taken, up>>
    BY UninitialisedTyped DEF TypeOK
  <2> HIDE DEF CreateFails
  <2>4. TypeOK'
    BY <2>1, <2>2, <2>3 DEF TypeOK
  <2> QED
    BY <2>3, <2>4
<1>15. CASE CreateStarts
  <2> USE <1>15 DEF CreateStarts, fixed, picture
  <2>1. output' = (IF told'.start THEN "object" ELSE "failed") /\ up' = TRUE
    OBVIOUS
  <2>2. /\ stream' \in StreamType
        /\ stream'.mapped \subseteq 0 .. stream'.n - 1
        /\ stream'.n > 0 => stream'.queued \subseteq 0 .. stream'.n - 1
        /\ told' = [told EXCEPT !.start = told'.start] /\ told'.start \in BOOLEAN
        /\ told'.start => /\ stream'.mapped = 0 .. stream'.n - 1
                          /\ stream'.queued = 0 .. stream'.n - 1
                          /\ lost' = {} /\ stale' = TRUE
        /\ lost' \in SUBSET Buffers /\ stale' \in BOOLEAN
        /\ orphans' \in BOOLEAN /\ again' \in BOOLEAN /\ (orphans' => again')
    BY StartStreamFacts
  <2> HIDE DEF CreateStarts
  <2>3. /\ iotype = "mmap" /\ fd = TRUE /\ output = "opened"
        /\ UNCHANGED <<fd, format, partial, pbuf, iotype, path, frame,
                       size, offset, torn, taken, up>>
    BY DEF CreateStarts, TypeOK
  <2>4. told' \in [start : BOOLEAN, format : Formats \cup {Nothing}] /\ told'.format = told.format
    BY <2>2 DEF TypeOK
  <2>5. TypeOK'
    BY <2>1, <2>2, <2>3, <2>4 DEF TypeOK, StreamType
  <2>6. RingInv'
    <3>1. iotype' = "mmap" /\ output' \notin {"none", "opened", "null"}
      BY <2>1, <2>3
    <3>2. output' = "object" => told'.start /\ stale' = TRUE
      BY <2>1, <2>2
    <3> QED
      BY <2>2, <3>1, <3>2
  <2>7. HeldBuffers' /\ NothingLeft'
    BY <2>1, <2>2, <2>3
  <2>8. FormatKnown'
    BY <2>1, <2>3, <2>4 DEF TypeOK
  <2>9. CrashExplained'
    BY <2>1
  <2> QED
    BY <2>5, <2>6, <2>7, <2>8, <2>9
<1>16. CASE CreateRefuses
  <2> USE <1>16 DEF CreateRefuses, Destroy, fixed, mappings, picture, write
  <2>1. stream' = NoStream
    BY <1>0, StoppedFacts
  <2>2. UNCHANGED <<iotype, path, format, partial, pbuf, stale, told, lost, orphans, again,
                    frame, size, offset, torn, taken, up>>
    OBVIOUS
  <2>3. output' = "null" /\ fd' = FALSE /\ up = TRUE
    BY DEF TypeOK
  <2> HIDE DEF CreateRefuses
  <2>8. stream' \in StreamType
    BY <2>1, NoStreamTyped
  <2>4. TypeOK'
    BY <2>2, <2>3, <2>8 DEF TypeOK, StreamType
  <2>5. stream'.n = 0 /\ stream'.mapped = {}
    BY <2>1 DEF NoStream
  <2>6. RingInv' /\ NothingLeft'
    BY <2>1, <2>2, <2>3, <2>5
  <2>7. HeldBuffers' /\ FormatKnown' /\ CrashExplained'
    BY <2>2, <2>3
  <2> QED
    BY <2>4, <2>6, <2>7
<1>3. CASE UseNull
  <2>1. /\ output = "null" /\ up' = FALSE
        /\ UNCHANGED <<iotype, path, output, fd, stream, partial, pbuf, format, told, stale,
                       lost, orphans, again, frame, size, offset, torn, taken>>
    BY <1>3 DEF UseNull, device, write, fixed, mappings, picture
  <2>0. TypeOK /\ up' \in BOOLEAN
    BY <2>1
  <2>2. TypeOK'
    <3> HIDE DEF OutputInv
    <3>1. UNCHANGED <<BytesOf(size), BytesOf(frame)>>
      BY <2>1
    <3> QED
      BY <2>0, <2>1, <3>1 DEF TypeOK
  <2> QED
    BY <2>1, <2>2
<1>4. CASE Start
  <2> USE <1>4 DEF Start, Ring, Uses, fixed, picture
  <2>1. /\ stream' \in StreamType
        /\ stream'.mapped \subseteq 0 .. stream'.n - 1
        /\ stream'.n > 0 => stream'.queued \subseteq 0 .. stream'.n - 1
        /\ told' = [told EXCEPT !.start = told'.start] /\ told'.start \in BOOLEAN
        /\ told'.start => /\ stream'.mapped = 0 .. stream'.n - 1
                          /\ stream'.queued = 0 .. stream'.n - 1
                          /\ lost' = {} /\ stale' = TRUE
        /\ lost' \in SUBSET Buffers /\ stale' \in BOOLEAN
        /\ orphans' \in BOOLEAN /\ again' \in BOOLEAN /\ (orphans' => again')
        /\ ~stale' => ~stale /\ stream' = stream
    BY StartStreamFacts
  <2>2. /\ iotype = "mmap" /\ output = "object" /\ up
        /\ UNCHANGED <<output, fd, format, partial, pbuf, iotype, path, frame,
                       size, offset, torn, taken, up>>
    OBVIOUS
  <2> HIDE DEF Start
  <2>3. told' \in [start : BOOLEAN, format : Formats \cup {Nothing}] /\ told'.format = told.format
    BY <2>1 DEF TypeOK
  <2>4. TypeOK'
    BY <2>1, <2>2, <2>3 DEF TypeOK, StreamType
  <2>5. RingInv'
    BY <2>1, <2>2
  <2>6. HeldBuffers'
    BY <2>1, <2>2
  <2>7. FormatKnown' /\ CrashExplained' /\ NothingLeft'
    BY <2>1, <2>2, <2>3
  <2> QED
    BY <2>4, <2>5, <2>6, <2>7
<1>5. CASE Stop
  <2> USE <1>5 DEF Stop, Ring, Uses, fixed, mappings, picture
  <2>1. stream' \in StreamType /\ stream'.n = 0 /\ stream'.mapped = {}
    BY <1>0, StoppedFacts
  <2>2. TypeOK'
    BY <2>1 DEF TypeOK, StreamType
  <2> QED
    BY <2>1, <2>2
<1>6. CASE Delete
  <2> USE <1>6 DEF Delete, Destroy, Uses, fixed, mappings, picture
  <2>1. stream' = NoStream
    BY <1>0, StoppedFacts
  <2>2. pbuf' \in [index : Buffers, used : 0 .. Length]
    BY DEF Buffers
  <2>3. /\ output' = "none" /\ fd' = FALSE /\ up = TRUE
        /\ partial' = FALSE /\ stale' = TRUE /\ lost' = {}
        /\ UNCHANGED <<iotype, path, format, told, orphans, again,
                       frame, size, offset, torn, taken, up>>
    BY DEF TypeOK
  <2> HIDE DEF Delete
  <2>4. TypeOK'
    BY <2>1, <2>2, <2>3, NoStreamTyped DEF TypeOK, StreamType
  <2>5. stream'.n = 0 /\ stream'.mapped = {}
    BY <2>1 DEF NoStream
  <2>6. RingInv' /\ NothingLeft'
    BY <2>1, <2>3, <2>5
  <2>7. HeldBuffers' /\ FormatKnown' /\ CrashExplained'
    BY <2>3
  <2> QED
    BY <2>4, <2>6, <2>7
<1>7. CASE SetFormat
  <2> USE <1>7 DEF SetFormat, Uses, fixed, write, mappings
  <2>1. size' \in {frame} \cup OtherSizes
    BY DEF Sizes, TypeOK
  <2>2. offset' \in 0 .. BytesOf(size') - 1
    <3>1. BytesOf(size') \in Nat \ {0} /\ BytesOf(size) \in Nat \ {0}
      BY <2>1, BytesPositive DEF TypeOK
    <3>2. UNCHANGED <<size, offset>> \/ offset' = offset % BytesOf(size')
      OBVIOUS
    <3>3. offset \in Nat /\ offset \in 0 .. BytesOf(size) - 1
      BY <3>1 DEF TypeOK
    <3> HIDE DEF SetFormat
    <3> QED
      BY <3>1, <3>2, <3>3, BytesPositive
  <2>3. /\ format' \in [m : Formats, driver : Formats]
        /\ told' \in [start : BOOLEAN, format : Formats \cup {Nothing}]
        /\ told'.start = told.start
    BY DEF TypeOK
  <2>4. TypeOK'
    BY <2>1, <2>2, <2>3 DEF TypeOK
  <2>5. FormatKnown'
    BY DEF TypeOK
  <2> QED
    BY <2>3, <2>4, <2>5
<1>8. CASE QueryFormat
  <2> USE <1>8 DEF QueryFormat, Uses, fixed, write, mappings, picture
  <2>1. TypeOK'
    BY DEF TypeOK
  <2>2. told'.start = told.start
    BY DEF TypeOK
  <2>3. FormatKnown'
    BY DEF TypeOK
  <2> QED
    BY <2>1, <2>2, <2>3
<1>9. CASE WriteFrame
  <2> USE <1>9 DEF WriteFrame, Uses, device, write, fixed, mappings
  <2>1. TypeOK'
    <3>1. BytesOf(frame) \in Nat \ {0} /\ BytesOf(size) \in Nat \ {0}
      BY BytesPositive DEF TypeOK
    <3>2. taken' \in 0 .. BytesOf(frame) /\ taken' \in Nat /\ offset \in Nat
      BY <3>1 DEF TypeOK
    <3>3. (offset + taken') % BytesOf(size) \in 0 .. BytesOf(size) - 1
      BY <3>1, <3>2, BytesPositive
    <3>4. offset' \in 0 .. BytesOf(size) - 1
      BY <3>1, <3>3
    <3>5. torn' \in BOOLEAN /\ up' \in BOOLEAN
      BY DEF TypeOK
    <3> QED
      BY <3>2, <3>4, <3>5 DEF TypeOK, BytesOf
  <2>2. frame.cols % 2 = 0 => ~Overruns(frame.rows, frame.cols)
    BY EvenRowsFit DEF TypeOK
  <2>3. frame.cols \in Nat
    BY DEF TypeOK
  <2>4. frame.cols % 2 = 0 \/ frame.cols % 2 = 1
    BY <2>3
  <2>5. CrashExplained'
    BY <2>2, <2>4
  <2> QED
    BY <2>1, <2>5
<1>10. CASE WriteBuffer
  <2> USE <1>10 DEF WriteBuffer, Ring, Uses, fixed, write, mappings, picture
  <2>1. PICK i \in Buffers :
          /\ Dequeues(i)
          /\ IF i \in stream.mapped THEN Requeue(i) /\ UNCHANGED up
                                    ELSE up' = FALSE /\ UNCHANGED <<stream, lost>>
    OBVIOUS
  <2>2. CASE i \in stream.mapped
    <3>1. \/ stream' = [stream EXCEPT !.queued = (stream.queued \ {i}) \cup {i}] /\ lost' = lost \ {i}
          \/ stream' = [stream EXCEPT !.queued = stream.queued \ {i}] /\ lost' = lost \cup {i}
      BY <2>1, <2>2 DEF Requeue, Queue
    <3>2. /\ stream'.n = stream.n /\ stream'.mapped = stream.mapped /\ stream'.on = stream.on
          /\ stream' \in StreamType /\ lost' \in SUBSET Buffers
      BY <3>1, <1>0 DEF StreamType, TypeOK
    <3>3. /\ stream'.queued \subseteq stream.queued
          /\ \A j \in Buffers : j # i => (j \in stream'.queued <=> j \in stream.queued)
                                       /\ (j \in lost' <=> j \in lost)
          /\ i \notin stream'.queued <=> i \in lost'
      BY <3>1, <2>1, <1>0 DEF StreamType, Dequeues
    <3>4. TypeOK'
      BY <2>1, <2>2, <3>2 DEF TypeOK, StreamType
    <3>5. ~(partial /\ ~stale /\ pbuf.index = i)
      BY <2>1 DEF Dequeues
    <3>6. HeldBuffers'
      <4>1. ASSUME told.start, NEW j \in 0 .. stream.n - 1
            PROVE  j \notin stream'.queued <=> j \in lost' \/ (partial /\ ~stale /\ pbuf.index = j)
        <5>1. j \in Buffers
          BY <1>0 DEF StreamType, Buffers
        <5>2. CASE j = i
          BY <5>2, <3>3, <3>5
        <5>3. CASE j # i
          BY <4>1, <5>1, <5>3, <3>3, <2>1 DEF Dequeues
        <5> QED
          BY <5>2, <5>3
      <4> QED
        BY <3>2, <4>1
    <3>7. RingInv'
      <4>1. iotype # "readwrite" /\ stream.n > 0
        BY <2>1 DEF Dequeues
      <4>2. partial /\ ~stale => pbuf.index \in 0 .. stream.n - 1 \ stream'.queued
        BY <3>3
      <4> QED
        BY <3>2, <3>3, <4>1, <4>2
    <3> QED
      BY <2>1, <2>2, <3>4, <3>6, <3>7
  <2>3. CASE i \notin stream.mapped
    <3>1. UNCHANGED <<stream, lost>> /\ up' = FALSE
      BY <2>1, <2>3
    <3>2. ~told.start
      BY <2>1, <2>3 DEF Dequeues
    <3>3. TypeOK'
      BY <3>1 DEF TypeOK
    <3>4. CrashExplained'
      BY <3>2
    <3> QED
      BY <3>1, <3>3, <3>4
  <2> QED
    BY <2>2, <2>3
<1>11. CASE StartPartialWrite
  <2> USE <1>11 DEF StartPartialWrite, Ring, Uses, fixed, mappings, picture
  <2>1. PICK i \in Buffers :
          /\ Dequeues(i)
          /\ stream' = [stream EXCEPT !.queued = @ \ {i}]
          /\ pbuf' = [index |-> i, used |-> 0]
    OBVIOUS
  <2>2. /\ stream'.n = stream.n /\ stream'.mapped = stream.mapped /\ stream'.on = stream.on
        /\ stream'.queued = stream.queued \ {i} /\ stream' \in StreamType
    BY <2>1, <1>0 DEF StreamType
  <2>3. pbuf' \in [index : Buffers, used : 0 .. Length] /\ pbuf'.index = i
    BY <2>1
  <2>4. TypeOK'
    BY <2>2, <2>3 DEF TypeOK, StreamType
  <2>5. i \in 0 .. stream.n - 1 /\ stream.n > 0 /\ stream.on /\ i \in stream.queued
    BY <2>1 DEF Dequeues
  <2>6. RingInv'
    BY <2>2, <2>3, <2>5
  <2>7. HeldBuffers'
    BY <2>2, <2>3, <2>5
  <2> QED
    BY <2>4, <2>6, <2>7
<1>12. CASE WritePartial
  <2> USE <1>12 DEF WritePartial, Ring, Uses, device, fixed, mappings, picture
  <2>1. PICK more \in 0 .. MaxWrite : pbuf' = [pbuf EXCEPT !.used = Fill(@, more)]
    OBVIOUS
  <2>2. pbuf' \in [index : Buffers, used : 0 .. Length] /\ pbuf'.index = pbuf.index
    <3>1. pbuf \in [index : Buffers, used : 0 .. Length]
      BY DEF TypeOK
    <3>2. Fill(pbuf.used, more) \in 0 .. Length
      BY <2>1, <3>1 DEF Fill
    <3> HIDE DEF WritePartial, TypeOK
    <3> QED
      BY <2>1, <3>1, <3>2
  <2>3. TypeOK'
    BY <2>2 DEF TypeOK
  <2>4. CrashExplained'
    BY DEF TypeOK
  <2> QED
    BY <2>2, <2>3, <2>4
<1>13. CASE EndPartialWrite
  <2> USE <1>13 DEF EndPartialWrite, Ring, Uses, fixed, mappings, picture
  <2> DEFINE i == pbuf.index
  <2>1. CASE stream.n > 0 /\ i \in 0 .. stream.n - 1 \ stream.queued
    <3>1. \/ stream' = [stream EXCEPT !.queued = stream.queued \cup {i}] /\ lost' = lost \ {i}
          \/ stream' = [stream EXCEPT !.queued = stream.queued] /\ lost' = lost \cup {i}
      BY <2>1 DEF Queue
    <3>2. i \in Buffers
      BY DEF TypeOK
    <3>3. /\ stream'.n = stream.n /\ stream'.mapped = stream.mapped /\ stream'.on = stream.on
          /\ stream' \in StreamType /\ lost' \in SUBSET Buffers
      BY <3>1, <3>2, <1>0 DEF StreamType, TypeOK
    <3>4. /\ stream'.queued \subseteq stream.queued \cup {i}
          /\ \A j \in Buffers : j # i => (j \in stream'.queued <=> j \in stream.queued)
                                       /\ (j \in lost' <=> j \in lost)
          /\ i \notin stream'.queued <=> i \in lost'
      BY <3>1, <2>1, <1>0 DEF StreamType
    <3>5. TypeOK'
      BY <3>3 DEF TypeOK, StreamType
    <3>6. HeldBuffers'
      <4>1. ASSUME told.start, NEW j \in 0 .. stream.n - 1
            PROVE  j \notin stream'.queued <=> j \in lost'
        <5>1. j \in Buffers
          BY <1>0 DEF StreamType, Buffers
        <5>2. CASE j = i
          BY <5>2, <3>4
        <5>3. CASE j # i
          BY <4>1, <5>1, <5>3, <3>4, <2>1
        <5> QED
          BY <5>2, <5>3
      <4> QED
        BY <3>3, <4>1
    <3>7. RingInv'
      BY <2>1, <3>3, <3>4
    <3> QED
      BY <3>5, <3>6, <3>7
  <2>2. CASE ~(stream.n > 0 /\ i \in 0 .. stream.n - 1 \ stream.queued)
    <3>1. UNCHANGED <<stream, lost>>
      BY <2>2
    <3>2. stream.n > 0 => ~(partial /\ ~stale)
      BY <2>2
    <3>3. TypeOK'
      BY <3>1 DEF TypeOK
    <3>4. HeldBuffers'
      BY <3>1, <3>2
    <3> QED
      BY <3>1, <3>3, <3>4
  <2> QED
    BY <2>1, <2>2
<1> QED
  BY <1>1, <1>2, <1>3, <1>4, <1>5, <1>6, <1>7, <1>8, <1>9, <1>10, <1>11, <1>12, <1>13,
     <1>14, <1>15, <1>16 DEF Next

LEMMA OutputSafe == Spec => []OutputInv
  BY InitInv, StepInv, PTL DEF Spec

(* TypeOK is an invariant.                                                 *)
THEOREM OutputTypes == Spec => []TypeOK
<1>1. OutputInv => TypeOK
  BY DEF OutputInv
<1> QED
  BY <1>1, OutputSafe, PTL

(* An invalid access comes from a refused output, an odd row, a stream     *)
(* that never started or a partial write of another stream.                *)
THEOREM CrashesExplained == Spec => []CrashExplained
<1>1. OutputInv => CrashExplained
  BY DEF OutputInv
<1> QED
  BY <1>1, OutputSafe, PTL

(* An output that create() refused, or that was deleted, has no descriptor *)
(* and no mapping left, whatever the driver granted or refused before, and *)
(* a mapping is forgotten only by a start() that no stop() came before.    *)
THEOREM NothingLeftBehind == Spec => []NothingLeft
<1>1. OutputInv => NothingLeft
  BY DEF OutputInv
<1> QED
  BY <1>1, OutputSafe, PTL

(* No buffer of a started ring is lost but by a QBUF that the driver       *)
(* refused.                                                                *)
THEOREM RingLosesNoBuffer == Spec => []HeldBuffers
<1>1. OutputInv => HeldBuffers
  BY DEF OutputInv
<1> QED
  BY <1>1, OutputSafe, PTL

(* The format the caller was told is the one the device has.               *)
THEOREM FormatsKnown == Spec => []FormatKnown
<1>1. OutputInv => FormatKnown
  BY DEF OutputInv
<1> QED
  BY <1>1, OutputSafe, PTL

(* While no write was short and none had another size, a write begins a    *)
(* picture.                                                                *)
WholeSoFar == ~torn => offset = 0

LEMMA StepWhole == TypeOK /\ WholeSoFar /\ [Next]_vars => WholeSoFar'
<1> SUFFICES ASSUME TypeOK, WholeSoFar, [Next]_vars PROVE WholeSoFar'
  OBVIOUS
<1>0. /\ BytesOf(frame) \in Nat \ {0} /\ 0 % BytesOf(frame) = 0
      /\ BytesOf(frame) % BytesOf(frame) = 0
      /\ \A s \in {frame} \cup OtherSizes : 0 % BytesOf(s) = 0
  <2>1. \A s \in {frame} \cup OtherSizes : BytesOf(s) \in Nat \ {0}
    BY BytesPositive DEF TypeOK
  <2>2. \A n \in Nat \ {0} : 0 % n = 0 /\ n % n = 0
    OBVIOUS
  <2> QED
    BY <2>1, <2>2
<1> USE DEF WholeSoFar
<1>1. CASE WriteFrame
  <2> SUFFICES ASSUME ~torn' PROVE offset' = 0
    OBVIOUS
  <2>1. /\ ~torn /\ size = frame /\ taken' \in {0, BytesOf(frame)}
        /\ offset' \in {0, (offset + taken') % BytesOf(size)}
    BY <1>1 DEF WriteFrame
  <2>2. offset = 0 /\ taken' \in Nat
    BY <1>0, <2>1
  <2>3. \A n \in Nat : 0 + n = n
    OBVIOUS
  <2>4. offset + taken' = taken'
    BY <2>2, <2>3
  <2> QED
    BY <1>0, <2>1, <2>4
<1>2. CASE SetFormat
  <2>1. UNCHANGED torn
    BY <1>2 DEF SetFormat
  <2>2. UNCHANGED offset \/ (size' \in Sizes /\ offset' = offset % BytesOf(size'))
    BY <1>2 DEF SetFormat
  <2> QED
    BY <1>0, <2>1, <2>2 DEF Sizes
<1>3. CASE Create
  BY <1>3 DEF Create
<1>4. CASE UNCHANGED vars \/ CreateFails \/ CreateStarts \/ CreateRefuses \/ UseNull
  BY <1>4 DEF vars, picture, CreateFails, CreateStarts, CreateRefuses, UseNull
<1>5. CASE Start \/ Stop \/ Delete \/ QueryFormat \/ WriteBuffer
           \/ StartPartialWrite \/ WritePartial \/ EndPartialWrite
  BY <1>5 DEF picture, Start, Stop, Delete, QueryFormat, WriteBuffer, StartPartialWrite,
              WritePartial, EndPartialWrite
<1> QED
  BY <1>1, <1>2, <1>3, <1>4, <1>5 DEF Next

(* Every byte that a device with the size of the frames takes is at its    *)
(* place, for every size with rows of even length, as long as it took each *)
(* earlier frame whole; the answer of write() is not looked at, so that a  *)
(* short one displaces what follows.                                       *)
THEOREM SentWhole == Spec => SentPacked
<1>1. Init => WholeSoFar
  BY DEF Init, WholeSoFar
<1>2. TypeOK /\ WholeSoFar /\ [Next]_vars =>
        [frame.cols % 2 = 0 /\ size = frame /\ ~torn /\ WriteFrame =>
           \A k \in DOMAIN Sent' :
             Sent'[k] = Packed(frame.rows, frame.cols)[(offset + k) % BytesOf(size)]]_vars
  <2> SUFFICES ASSUME TypeOK, WholeSoFar, frame.cols % 2 = 0, size = frame, ~torn, WriteFrame,
                      NEW k \in DOMAIN Sent'
               PROVE  Sent'[k] = Packed(frame.rows, frame.cols)[(offset + k) % BytesOf(size)]
    OBVIOUS
  <2>1. frame.rows \in Nat \ {0} /\ frame.cols \in Nat \ {0}
    BY OutputAssumption DEF TypeOK
  <2>2. frame' = frame /\ taken' \in 0 .. BytesOf(frame) /\ offset = 0
    BY DEF WriteFrame, fixed, WholeSoFar
  <2>3. Sent' = [i \in 0 .. taken' - 1 |-> ToYUYV(frame.rows, frame.cols)[i]]
    BY <2>2 DEF Sent
  <2>4. BytesOf(frame) \in Nat \ {0}
    BY BytesPositive DEF TypeOK
  <2>5. k \in 0 .. taken' - 1 /\ Sent'[k] = ToYUYV(frame.rows, frame.cols)[k]
    BY <2>3
  <2>6. (offset + k) % BytesOf(size) = k
    <3>1. k \in 0 .. BytesOf(frame) - 1
      BY <2>2, <2>4, <2>5
    <3>2. \A n \in Nat \ {0} : \A i \in 0 .. n - 1 : (0 + i) % n = i
      OBVIOUS
    <3> QED
      BY <2>2, <2>4, <3>1, <3>2
  <2>7. ToYUYV(frame.rows, frame.cols) = Packed(frame.rows, frame.cols)
    BY <2>1, EvenRowsPacked
  <2> QED
    BY <2>5, <2>6, <2>7
<1> QED
  BY <1>1, <1>2, StepWhole, OutputTypes, PTL DEF Spec, SentPacked
=============================================================================
