--------------------------- MODULE PlaybackProofs ---------------------------
(***************************************************************************)
(* Theorems about Playback, for any streams, buffer lengths, period and    *)
(* volumes.                                                                *)
(*                                                                         *)
(* The commands that have not been executed are reasoned about as one      *)
(* queue, Waiting: submitting appends to it, executing takes its head, and *)
(* the other steps of the pipe leave it as it is.  IInv relates the last   *)
(* waiting command about a stream to what the application asked for and    *)
(* was told, or, if none waits, the mixer's state.  The recursion of       *)
(* Render is shown to be the closed form that Round and Straight give.     *)
(***************************************************************************)
EXTENDS Playback, SequenceTheorems, WellFoundedInduction, TLAPS

-----------------------------------------------------------------------------
(* Induction over a set of numbers.                                        *)
LEMMA SetInduction ==
  ASSUME NEW P, 0 \in P, \A n \in Nat : n \in P => n + 1 \in P
  PROVE  Nat \subseteq P
<1> DEFINE Rest == Nat \ P
<1>1. SUFFICES ASSUME Rest # {} PROVE FALSE
  OBVIOUS
<1>2. Rest \subseteq Nat
  OBVIOUS
<1>3. PICK m \in Rest : \A n \in Rest : <<n, m>> \notin OpToRel(<, Nat)
  <2> HIDE DEF Rest
  <2> QED BY <1>1, <1>2, NatLessThanWellFounded, WFMin, Zenon
<1>4. m \in Nat /\ m # 0 /\ m - 1 \in Nat /\ m - 1 < m /\ (m - 1) + 1 = m
  BY SMT
<1>5. <<m - 1, m>> \in OpToRel(<, Nat)
  BY <1>4 DEF OpToRel
<1>6. m - 1 \in P
  BY <1>3, <1>4, <1>5
<1> QED
  BY <1>4, <1>6

-----------------------------------------------------------------------------
(* A number below the divisor is its own remainder, and adding the divisor *)
(* leaves the remainder as it is.                                          *)
LEMMA RemainderBelow ==
  ASSUME NEW len \in Nat \ {0}, NEW x \in 0..len - 1
  PROVE  x % len = x
OBVIOUS

(* A remainder is below the divisor.                                       *)
LEMMA RemainderType ==
  ASSUME NEW len \in Nat \ {0}, NEW x \in Nat
  PROVE  x % len \in 0..len - 1
OBVIOUS

(* There is one quotient and one remainder.                                *)
LEMMA DivisionIsUnique ==
  ASSUME NEW len \in Nat \ {0}, NEW x \in Nat, NEW q \in Nat,
         NEW r \in 0..len - 1, x = q * len + r
  PROVE  x % len = r
OBVIOUS

(* Adding the divisor, the length of the buffer, leaves the remainder as   *)
(* it is.                                                                  *)
LEMMA RemainderShift ==
  ASSUME NEW len \in Nat \ {0}, NEW x \in Nat
  PROVE  (x + len) % len = x % len
<1> DEFINE q == x \div len
           r == x % len
<1>1. x \div len \in Nat /\ x % len = x - (x \div len) * len
  OBVIOUS
<1>2. q \in Nat /\ r \in 0..len - 1 /\ r = x - q * len
  BY <1>1, RemainderType
<1> HIDE DEF q, r
<1>3. q + 1 \in Nat /\ (q + 1) * len = q * len + len
  BY <1>2
<1>4. x + len = (q + 1) * len + r /\ x + len \in Nat
  BY <1>2, <1>3
<1>5. (x + len) % len = r
  BY <1>2, <1>3, <1>4, DivisionIsUnique
<1> QED BY <1>5 DEF r

-----------------------------------------------------------------------------
(* What one turn of the loop of snd_stream_render makes of its recursion.  *)
Turn(len, loop, f, w) ==
  [p \in 0..len |->
    LET pastEnd == p + w > len
        pEnd == IF pastEnd THEN len ELSE p + w
        wLeft == IF pastEnd THEN w - (len - p) ELSE 0
        span == [k \in 1..(pEnd - p) |-> p + k - 1]
        rest == f[wLeft][0]
    IN IF wLeft = 0 \/ ~loop
       THEN [frames |-> span, pos |-> pEnd]
       ELSE [frames |-> span \o rest.frames, pos |-> rest.pos]]

(* What the whole loop gives, without the recursion.                       *)
Straight(len, w, p) ==
  LET end == IF p + w > len THEN len ELSE p + w
  IN [frames |-> [k \in 1..(end - p) |-> p + k - 1], pos |-> end]

(* The same for a looping stream, which goes round its buffer.             *)
Round(len, w, p) ==
  [frames |-> [k \in 1..w |-> (p + k - 1) % len],
   pos |-> IF w = 0 THEN p ELSE ((p + w - 1) % len) + 1]

(* Both as a function like the one Render defines by recursion.            *)
Closed(len, loop) ==
  [w \in 0..Period |-> [p \in 0..len |->
    IF loop THEN Round(len, w, p) ELSE Straight(len, w, p)]]

(* A looping stream that does not reach its end in this turn.              *)
LEMMA RoundInside ==
  ASSUME NEW len \in Nat \ {0}, NEW w \in Nat, NEW p \in 0..len, p + w <= len
  PROVE  Round(len, w, p) = Straight(len, w, p)
<1>1. \A k \in 1..w : (p + k - 1) % len = p + k - 1
  <2> TAKE k \in 1..w
  <2>1. p + k - 1 \in 0..len - 1
    OBVIOUS
  <2> QED BY <2>1, RemainderBelow
<1>2. [k \in 1..w |-> (p + k - 1) % len] = [k \in 1..w |-> p + k - 1]
  BY <1>1
<1>3. (IF w = 0 THEN p ELSE ((p + w - 1) % len) + 1) = p + w
  <2>1. CASE w = 0
    BY <2>1
  <2>2. CASE w # 0
    <3>1. p + w - 1 \in 0..len - 1
      BY <2>2
    <3>2. (p + w - 1) % len = p + w - 1
      BY <3>1, RemainderBelow
    <3> QED BY <2>2, <3>2
  <2> QED BY <2>1, <2>2
<1>4. (IF p + w > len THEN len ELSE p + w) = p + w /\ (p + w) - p = w
  OBVIOUS
<1> QED BY <1>2, <1>3, <1>4, Zenon DEF Round, Straight

(* One that does goes on from the start of the buffer.                     *)
LEMMA RoundPast ==
  ASSUME NEW len \in Nat \ {0}, NEW w \in Nat, NEW p \in 0..len, p + w > len
  PROVE  /\ [k \in 1..(len - p) |-> p + k - 1] \o Round(len, w - (len - p), 0).frames
              = Round(len, w, p).frames
         /\ Round(len, w - (len - p), 0).pos = Round(len, w, p).pos
<1> DEFINE m == len - p
           n == w - m
           head == [k \in 1..m |-> p + k - 1]
           tail == [k \in 1..n |-> (0 + k - 1) % len]
           all == [k \in 1..w |-> (p + k - 1) % len]
<1>1. m \in Nat /\ n \in Nat \ {0} /\ m + n = w /\ m + p = len
  OBVIOUS
<1>2. ASSUME NEW k \in 1..m PROVE (p + k - 1) % len = p + k - 1
  <2>1. p + k - 1 \in 0..len - 1
    OBVIOUS
  <2> QED BY <2>1, RemainderBelow
<1>3. ASSUME NEW k \in 1..n PROVE (p + (m + k) - 1) % len = (0 + k - 1) % len
  <2>1. k - 1 \in Nat /\ p + (m + k) - 1 = (k - 1) + len /\ 0 + k - 1 = k - 1
    BY <1>1
  <2> QED BY <2>1, RemainderShift
<1>4. head \in Seq(Nat) /\ Len(head) = m
  <2>1. \A k \in 1..m : p + k - 1 \in Nat
    OBVIOUS
  <2> HIDE DEF m
  <2>2. head \in [1..m -> Nat]
    BY <2>1
  <2> QED BY <2>2, <1>1, LenProperties, IsASeq
<1>5. tail \in Seq(Nat) /\ Len(tail) = n
  <2>1. \A k \in 1..n : (0 + k - 1) % len \in Nat
    <3> TAKE k \in 1..n
    <3>1. 0 + k - 1 \in Nat
      BY <1>1
    <3> QED BY <3>1, RemainderType
  <2> HIDE DEF n
  <2>2. tail \in [1..n -> Nat]
    BY <2>1
  <2> QED BY <2>2, <1>1, LenProperties, IsASeq
<1>6. all \in Seq(Nat) /\ Len(all) = w
  <2>1. \A k \in 1..w : (p + k - 1) % len \in Nat
    <3> TAKE k \in 1..w
    <3>1. p + k - 1 \in Nat
      OBVIOUS
    <3> QED BY <3>1, RemainderType
  <2>2. all \in [1..w -> Nat]
    BY <2>1
  <2> QED BY <2>2, LenProperties, IsASeq
<1>7. head \o tail = all
  <2>1. /\ head \o tail \in Seq(Nat)
        /\ Len(head \o tail) = w
        /\ \A i \in 1..w : (head \o tail)[i] = IF i <= m THEN head[i] ELSE tail[i - m]
    <3> HIDE DEF m, n, head, tail
    <3> QED BY <1>1, <1>4, <1>5, ConcatProperties
  <2>2. ASSUME NEW i \in 1..w PROVE (head \o tail)[i] = all[i]
    <3>1. CASE i <= m
      <4>1. i \in 1..m
        BY <3>1, <1>1
      <4>2. head[i] = p + i - 1 /\ all[i] = (p + i - 1) % len
        BY <4>1
      <4> QED BY <2>1, <3>1, <4>1, <4>2, <1>2
    <3>2. CASE ~(i <= m)
      <4>1. i - m \in 1..n /\ m + (i - m) = i
        BY <3>2, <1>1
      <4>2. tail[i - m] = (0 + (i - m) - 1) % len /\ all[i] = (p + i - 1) % len
        BY <4>1
      <4>3. (p + (m + (i - m)) - 1) % len = (0 + (i - m) - 1) % len
        <5> HIDE DEF m, n
        <5> QED BY <4>1, <1>3
      <4> HIDE DEF m, n, head, tail, all
      <4> QED BY <2>1, <3>2, <4>1, <4>2, <4>3
    <3> QED BY <3>1, <3>2
  <2> HIDE DEF head, tail, all, m, n
  <2> QED BY <1>6, <2>1, <2>2, SeqEqual
<1>8. (IF n = 0 THEN 0 ELSE ((0 + n - 1) % len) + 1)
        = IF w = 0 THEN p ELSE ((p + w - 1) % len) + 1
  <2>1. n \in 1..n /\ m + n = w /\ n # 0 /\ w # 0
    BY <1>1
  <2>2. (p + (m + n) - 1) % len = (0 + n - 1) % len
    <3> HIDE DEF m, n
    <3> QED BY <2>1, <1>3
  <2> HIDE DEF m, n
  <2> QED BY <2>1, <2>2
<1>9. Round(len, w - (len - p), 0).frames = tail /\ Round(len, w, p).frames = all
  BY DEF Round
<1>10. /\ Round(len, w - (len - p), 0).pos = IF n = 0 THEN 0 ELSE ((0 + n - 1) % len) + 1
       /\ Round(len, w, p).pos = IF w = 0 THEN p ELSE ((p + w - 1) % len) + 1
  BY DEF Round
<1> QED BY <1>7, <1>8, <1>9, <1>10

(* The closed form satisfies the recursion of Render.                      *)
LEMMA ClosedTurns ==
  ASSUME NEW len \in Nat \ {0}, NEW loop \in BOOLEAN, NEW w \in 0..Period
  PROVE  Turn(len, loop, Closed(len, loop), w) = Closed(len, loop)[w]
<1>1. w \in Nat /\ Period \in Nat
  BY MixerAssumption
<1> DEFINE f == Closed(len, loop)
<1>2. SUFFICES ASSUME NEW p \in 0..len
               PROVE Turn(len, loop, f, w)[p] = f[w][p]
  <2>1. f[w] = [p \in 0..len |-> IF loop THEN Round(len, w, p) ELSE Straight(len, w, p)]
    BY DEF Closed
  <2>2. Turn(len, loop, f, w) = [p \in 0..len |-> Turn(len, loop, f, w)[p]]
    BY DEF Turn
  <2>3. f[w] = [p \in 0..len |-> f[w][p]]
    BY <2>1
  <2> QED BY <2>2, <2>3, <1>2
<1>3. f[w][p] = IF loop THEN Round(len, w, p) ELSE Straight(len, w, p)
  BY DEF Closed
<1> HIDE DEF f
<1>4. CASE ~loop
  BY <1>3, <1>4 DEF Turn, Straight
<1>5. CASE loop /\ p + w <= len
  <2>1. Turn(len, loop, f, w)[p] = Straight(len, w, p)
    BY <1>5 DEF Turn, Straight
  <2> QED BY <2>1, <1>1, <1>3, <1>5, RoundInside
<1>6. CASE loop /\ p + w > len
  <2>1. w - (len - p) \in 0..Period /\ 0 \in 0..len /\ w - (len - p) # 0
    BY <1>1, <1>6
  <2>2. f[w - (len - p)][0] = Round(len, w - (len - p), 0)
    BY <2>1, <1>6 DEF f, Closed
  <2>3. Turn(len, loop, f, w)[p] =
          [frames |-> [k \in 1..(len - p) |-> p + k - 1] \o Round(len, w - (len - p), 0).frames,
           pos |-> Round(len, w - (len - p), 0).pos]
    BY <1>6, <2>1, <2>2 DEF Turn
  <2>4. Round(len, w, p) = [frames |-> Round(len, w, p).frames, pos |-> Round(len, w, p).pos]
    BY DEF Round
  <2> QED BY <2>3, <2>4, <1>1, <1>3, <1>6, RoundPast
<1> QED BY <1>4, <1>5, <1>6, <1>1

(* There is one function that satisfies the recursion: the one above.      *)
LEMMA RenderIsClosed ==
  ASSUME NEW len \in Nat \ {0}, NEW loop \in BOOLEAN
  PROVE  Render(len, loop) = Closed(len, loop)
<1> DEFINE f == Render(len, loop)
           g == Closed(len, loop)
<1>1. g = [w \in 0..Period |-> Turn(len, loop, g, w)]
  <2>1. g = [w \in 0..Period |-> g[w]]
    BY DEF Closed
  <2> HIDE DEF g
  <2>2. \A w \in 0..Period : Turn(len, loop, g, w) = g[w]
    BY ClosedTurns DEF g
  <2> QED BY <2>1, <2>2
<1>2. f = [w \in 0..Period |-> Turn(len, loop, f, w)]
  <2>1. \E h : h = [w \in 0..Period |-> Turn(len, loop, h, w)]
    BY <1>1
  <2> QED BY <2>1 DEF Render, Turn
<1> HIDE DEF f, g
<1>3. \A w \in 0..Period : f[w] = Turn(len, loop, f, w) /\ g[w] = Turn(len, loop, g, w)
  BY <1>1, <1>2
<1> DEFINE Same == {n \in Nat : \A w \in 0..Period : w <= n => f[w] = g[w]}
<1>4. Period \in Nat
  BY MixerAssumption
<1>5. ASSUME NEW w \in 0..Period, \A u \in 0..Period : u < w => f[u] = g[u]
      PROVE  f[w] = g[w]
  <2>1. ASSUME NEW p \in 0..len, ~loop \/ p + w <= len \/ p < len
        PROVE  Turn(len, loop, f, w)[p] = Turn(len, loop, g, w)[p]
    <3>1. CASE ~loop \/ p + w <= len
      BY <3>1, <1>4 DEF Turn
    <3>2. CASE ~(~loop \/ p + w <= len)
      <4>1. /\ p + w > len
            /\ w - (len - p) \in 0..Period
            /\ w - (len - p) < w
        BY <2>1, <3>2, <1>4
      <4>2. f[w - (len - p)] = g[w - (len - p)]
        BY <4>1, <1>5
      <4> QED BY <4>1, <4>2 DEF Turn
    <3> QED BY <3>1, <3>2
  <2>2. 0 \in 0..len /\ 0 < len /\ len \in 0..len
    OBVIOUS
  <2>3. f[w][0] = g[w][0]
    BY <2>1, <2>2, <1>3
  <2>4. Turn(len, loop, f, w)[len] = Turn(len, loop, g, w)[len]
    <3>1. w - (len - len) = w /\ w \in Nat
      BY <1>4
    <3> QED BY <2>2, <2>3, <3>1 DEF Turn
  <2>5. \A p \in 0..len : Turn(len, loop, f, w)[p] = Turn(len, loop, g, w)[p]
    BY <2>1, <2>4
  <2>6. /\ Turn(len, loop, f, w) = [p \in 0..len |-> Turn(len, loop, f, w)[p]]
        /\ Turn(len, loop, g, w) = [p \in 0..len |-> Turn(len, loop, g, w)[p]]
    BY DEF Turn
  <2>7. Turn(len, loop, f, w) = Turn(len, loop, g, w)
    BY <2>5, <2>6
  <2> QED BY <2>7, <1>3
<1>6. 0 \in Same
  <2>1. ASSUME NEW w \in 0..Period, w <= 0 PROVE f[w] = g[w]
    <3>1. \A u \in 0..Period : ~(u < w)
      BY <2>1, <1>4
    <3> QED BY <3>1, <1>5
  <2> QED BY <2>1
<1>7. ASSUME NEW n \in Nat, n \in Same PROVE n + 1 \in Same
  <2>1. ASSUME NEW w \in 0..Period, w <= n + 1 PROVE f[w] = g[w]
    <3>1. \A u \in 0..Period : u < w => u <= n
      BY <2>1, <1>4
    <3>2. \A u \in 0..Period : u < w => f[u] = g[u]
      BY <3>1, <1>7
    <3> QED BY <3>2, <1>5
  <2> QED BY <2>1
<1>8. Period \in Same
  <2> HIDE DEF Same
  <2> QED BY <1>4, <1>6, <1>7, SetInduction
<1>9. \A w \in 0..Period : f[w] = g[w]
  BY <1>4, <1>8
<1>10. f = [w \in 0..Period |-> f[w]] /\ g = [w \in 0..Period |-> g[w]]
  BY <1>1, <1>2, <1>3
<1>11. f = g
  BY <1>9, <1>10
<1> QED BY <1>11 DEF f, g

-----------------------------------------------------------------------------
(* Nothing in the queue w belongs to mine; its last element that does is   *)
(* one of good.                                                            *)
NoneIn(w, mine) == \A k \in 1..Len(w) : w[k] \notin mine

LastIn(w, mine, good) ==
  \E k \in 1..Len(w) :
    /\ w[k] \in good
    /\ \A j \in 1..Len(w) : j > k => w[j] \notin mine

(* The play and stop commands about s, and those that do what a asks; the  *)
(* volume commands about s, and those that set v as a uint8_t.             *)
Transports(s) == {v \in Requests : v.stm = s /\ v.type \in {"play", "stop"}}

Asking(s, a) ==
  {v \in Transports(s) :
     IF v.type = "stop" THEN a = "stop"
     ELSE a = IF v.loop THEN "loop" ELSE "once"}

Faders(s) == {v \in Requests : v.stm = s /\ v.type = "set_volume"}

Setting(s, v) == {c \in Faders(s) : c.volumes = [ch \in Channels |-> Narrow(v)]}

(* The types of the variables.                                             *)
PlayTypeOK ==
  /\ intake \in Seq(Requests)
  /\ chamber \in Seq(Requests)
  /\ iter \in 1..Len(chamber) + 1
  /\ phase \in Phases
  /\ streams \in Seq(Streams)
  /\ left \in Seq(Streams)
  /\ pos \in [Streams -> Nat]
  /\ \A s \in Streams : pos[s] <= NFrames[s]
  /\ looping \in [Streams -> BOOLEAN]
  /\ volumes \in [Streams -> [Channels -> Volumes]]
  /\ playing \in [Streams -> BOOLEAN]
  /\ looped \in [Streams -> BOOLEAN]
  /\ checking \in Streams \cup {NoStream}
  /\ asked \in [Streams -> {"stop", "once", "loop"}]
  /\ denied \subseteq Streams
  /\ level \in [Streams -> Levels \cup {Unity}]

(* The list: no stream is there twice, the iterator's rest is its end and  *)
(* empty outside the mix, and a stream in it has samples left.             *)
Once(q) == \A j, k \in 1..Len(q) : q[j] = q[k] => j = k

EndOf(r, q) ==
  /\ Len(r) <= Len(q)
  /\ \A k \in 1..Len(r) : r[k] = q[Len(q) - Len(r) + k]

ListInv ==
  /\ Once(streams)
  /\ EndOf(left, streams)
  /\ phase # "mix" => left = <<>>
  /\ \A k \in 1..Len(streams) : pos[streams[k]] < NFrames[streams[k]]

(* What the mixer does with s is what was asked, or will be when the last  *)
(* waiting command about it has been executed.                             *)
Granted(s) ==
  /\ asked[s] = "stop" => ~InMix(s)
  /\ asked[s] = "once" => ~looping[s] /\ (InMix(s) \/ pos[s] = NFrames[s])
  /\ asked[s] = "loop" => looping[s]

AskedInv ==
  \A s \in Streams :
    \/ LastIn(Waiting, Transports(s), Asking(s, asked[s]))
    \/ NoneIn(Waiting, Transports(s)) /\ Granted(s)

(* The same for the volume.                                                *)
Tuned(s) ==
  \A ch \in Channels :
    volumes[s][ch] = level[s] \/ (level[s] = 256 /\ volumes[s][ch] = 0)

LevelInv ==
  \A s \in Streams :
    \/ level[s] \in Levels /\ LastIn(Waiting, Faders(s), Setting(s, level[s]))
    \/ NoneIn(Waiting, Faders(s)) /\ Tuned(s)

(* And for what the application has been told.                             *)
Told(s) ==
  /\ InMix(s) => playing[s] \/ s \in denied
  /\ playing[s] => InMix(s) \/ pos[s] = NFrames[s]

StatusInv ==
  /\ checking # NoStream => playing[checking]
  /\ \A s \in Streams :
       /\ asked[s] = "stop" => ~playing[s]
       /\ \/ NoneIn(Waiting, Transports(s)) /\ Told(s)
          \/ /\ ~NoneIn(Waiting, Transports(s))
             /\ asked[s] # "stop" => playing[s] \/ s \in denied

(* The inductive invariant.                                                *)
IInv == PlayTypeOK /\ ListInv /\ AskedInv /\ LevelInv /\ StatusInv

-----------------------------------------------------------------------------
(* What appending to a queue and taking its head do to NoneIn and LastIn.  *)
LEMMA AppendNone ==
  ASSUME NEW S, NEW w \in Seq(S), NEW v, NEW mine, v \notin mine, NoneIn(w, mine)
  PROVE  NoneIn(Append(w, v), mine)
BY DEF NoneIn

(* A command about something else does not become the last.                *)
LEMMA AppendLast ==
  ASSUME NEW S, NEW w \in Seq(S), NEW v, NEW mine, NEW good, v \notin mine,
         LastIn(w, mine, good)
  PROVE  LastIn(Append(w, v), mine, good)
<1>1. PICK k \in 1..Len(w) :
        w[k] \in good /\ \A j \in 1..Len(w) : j > k => w[j] \notin mine
  BY DEF LastIn
<1>2. /\ k \in 1..Len(Append(w, v)) /\ Append(w, v)[k] = w[k]
      /\ \A j \in 1..Len(Append(w, v)) :
           \/ j \in 1..Len(w) /\ Append(w, v)[j] = w[j]
           \/ Append(w, v)[j] = v
  OBVIOUS
<1> QED BY <1>1, <1>2 DEF LastIn

(* A command that is appended is the last.                                 *)
LEMMA AppendGood ==
  ASSUME NEW S, NEW w \in Seq(S), NEW v, NEW mine, NEW good, v \in good
  PROVE  LastIn(Append(w, v), mine, good)
<1>1. /\ Len(w) + 1 \in 1..Len(Append(w, v))
      /\ Append(w, v)[Len(w) + 1] = v
      /\ \A j \in 1..Len(Append(w, v)) : ~(j > Len(w) + 1)
  OBVIOUS
<1> QED BY <1>1 DEF LastIn

(* What waits goes on waiting when a command is appended.                  *)
LEMMA AppendSome ==
  ASSUME NEW S, NEW w \in Seq(S), NEW v, NEW mine, ~NoneIn(w, mine) \/ v \in mine
  PROVE  ~NoneIn(Append(w, v), mine)
<1>1. /\ Len(w) + 1 \in 1..Len(Append(w, v))
      /\ Append(w, v)[Len(w) + 1] = v
      /\ \A j \in 1..Len(w) : j \in 1..Len(Append(w, v)) /\ Append(w, v)[j] = w[j]
  OBVIOUS
<1> QED BY <1>1 DEF NoneIn

(* The head of a queue and what follows it, by their places.               *)
LEMMA HeadFirst ==
  ASSUME NEW S, NEW w \in Seq(S), w # <<>>
  PROVE  /\ 1 \in 1..Len(w) /\ w[1] = Head(w)
         /\ Tail(w) \in Seq(S)
         /\ \A k \in 1..Len(Tail(w)) : k + 1 \in 1..Len(w) /\ Tail(w)[k] = w[k + 1]
         /\ \A j \in 1..Len(w) : j # 1 => j - 1 \in 1..Len(Tail(w)) /\ Tail(w)[j - 1] = w[j]
OBVIOUS

(* Taking the head of a queue with nothing of mine.                        *)
LEMMA TailNone ==
  ASSUME NEW S, NEW w \in Seq(S), NEW mine, w # <<>>, NoneIn(w, mine)
  PROVE  NoneIn(Tail(w), mine) /\ Head(w) \notin mine
BY HeadFirst DEF NoneIn

(* If something of mine waits, taking the head leaves it or takes it.      *)
LEMMA TailSome ==
  ASSUME NEW S, NEW w \in Seq(S), NEW mine, w # <<>>, ~NoneIn(w, mine)
  PROVE  ~NoneIn(Tail(w), mine) \/ Head(w) \in mine
BY HeadFirst DEF NoneIn

(* If the last of mine is a good one, it is still there or was the head.   *)
LEMMA TailLast ==
  ASSUME NEW S, NEW w \in Seq(S), NEW mine, NEW good, w # <<>>,
         LastIn(w, mine, good)
  PROVE  \/ LastIn(Tail(w), mine, good)
         \/ Head(w) \in good /\ NoneIn(Tail(w), mine)
<1>1. PICK k \in 1..Len(w) :
        w[k] \in good /\ \A j \in 1..Len(w) : j > k => w[j] \notin mine
  BY DEF LastIn
<1>2. CASE k = 1
  <2>1. ASSUME NEW i \in 1..Len(Tail(w)) PROVE Tail(w)[i] \notin mine
    <3>1. i + 1 \in 1..Len(w) /\ i + 1 > 1 /\ Tail(w)[i] = w[i + 1]
      BY HeadFirst
    <3> QED BY <1>1, <1>2, <3>1
  <2>2. Head(w) = w[1]
    BY HeadFirst
  <2> QED BY <1>1, <1>2, <2>1, <2>2 DEF NoneIn
<1>3. CASE k # 1
  <2>1. k - 1 \in 1..Len(Tail(w)) /\ Tail(w)[k - 1] = w[k]
    BY <1>3, HeadFirst
  <2>2. ASSUME NEW i \in 1..Len(Tail(w)), i > k - 1 PROVE Tail(w)[i] \notin mine
    <3>1. i + 1 \in 1..Len(w) /\ i + 1 > k /\ Tail(w)[i] = w[i + 1]
      BY <2>2, HeadFirst
    <3> QED BY <1>1, <3>1
  <2> QED BY <1>1, <2>1, <2>2 DEF LastIn
<1> QED BY <1>2, <1>3

(* A queue that has a last command of mine has one.                        *)
LEMMA LastNotNone ==
  ASSUME NEW w, NEW mine, NEW good, good \subseteq mine, LastIn(w, mine, good)
  PROVE  ~NoneIn(w, mine)
BY DEF LastIn, NoneIn

-----------------------------------------------------------------------------
(* The commands.                                                           *)
LEMMA RequestTypes ==
  ASSUME NEW v \in Requests
  PROVE  /\ v.stm \in Streams
         /\ v.type \in {"play", "stop", "set_volume"}
         /\ v.type = "play" => v.loop \in BOOLEAN
         /\ v.type = "set_volume" => v.volumes \in [Channels -> Volumes]
BY DEF Requests

(* Which of the sets above a command belongs to.                           *)
LEMMA RequestKinds ==
  ASSUME NEW s, NEW v \in Requests
  PROVE  /\ v \in Transports(s) <=> v.stm = s /\ v.type \in {"play", "stop"}
         /\ v \in Faders(s) <=> v.stm = s /\ v.type = "set_volume"
         /\ \A a : v \in Asking(s, a) <=>
              /\ v \in Transports(s)
              /\ IF v.type = "stop" THEN a = "stop"
                 ELSE a = IF v.loop THEN "loop" ELSE "once"
         /\ \A x : v \in Setting(s, x) <=>
              v \in Faders(s) /\ v.volumes = [ch \in Channels |-> Narrow(x)]
BY DEF Transports, Faders, Asking, Setting

(* What is asked of a stream is about that stream.                         *)
LEMMA GoodIsMine ==
  ASSUME NEW s
  PROVE  /\ \A a : Asking(s, a) \subseteq Transports(s)
         /\ \A x : Setting(s, x) \subseteq Faders(s)
BY DEF Asking, Setting

-----------------------------------------------------------------------------
(* What the steps of the pipe do to the queue of waiting commands.         *)
LEMMA WaitingIs ==
  ASSUME PlayTypeOK
  PROVE  /\ Waiting = IF phase = "exec"
                      THEN SubSeq(chamber, iter, Len(chamber)) \o intake
                      ELSE intake
         /\ SubSeq(chamber, iter, Len(chamber)) \in Seq(Requests)
         /\ Waiting \in Seq(Requests)
<1>1. intake \in Seq(Requests) /\ chamber \in Seq(Requests) /\ iter \in 1..Len(chamber) + 1
  BY DEF PlayTypeOK
<1>2. SubSeq(chamber, iter, Len(chamber)) \in Seq(Requests)
  BY <1>1, SubSeqProperties
<1>3. <<>> \o intake = intake
  BY <1>1, ConcatEmptySeq
<1> QED BY <1>1, <1>2, <1>3, ConcatProperties DEF Waiting

(* snd_client_cmd_submit appends to the queue.                             *)
LEMMA SubmitWaits ==
  ASSUME PlayTypeOK, NEW v \in Requests, Submit(v)
  PROVE  Waiting' = Append(Waiting, v)
<1>1. intake \in Seq(Requests) /\ chamber \in Seq(Requests) /\ iter \in 1..Len(chamber) + 1
  BY DEF PlayTypeOK
<1>2. SubSeq(chamber, iter, Len(chamber)) \in Seq(Requests)
  BY WaitingIs
<1> DEFINE rest == IF phase = "exec" THEN SubSeq(chamber, iter, Len(chamber)) ELSE <<>>
<1>3. rest \in Seq(Requests)
  BY <1>2
<1>4. Waiting = rest \o intake /\ Waiting' = rest \o Append(intake, v)
  BY DEF Submit, Waiting
<1> HIDE DEF rest
<1>5. rest \o Append(intake, v) = Append(rest \o intake, v)
  BY <1>1, <1>3, SMTT(30)
<1> QED BY <1>4, <1>5

(* Taking the intake as the batch changes nothing of what waits.           *)
LEMMA TakeWaits ==
  ASSUME PlayTypeOK, TakeBatch
  PROVE  Waiting' = Waiting
<1>1. intake \in Seq(Requests)
  BY DEF PlayTypeOK
<1>2. Waiting = intake
  BY WaitingIs DEF TakeBatch
<1>3. Waiting' = SubSeq(intake, 1, Len(intake)) \o <<>>
  BY DEF TakeBatch, Waiting
<1>4. SubSeq(intake, 1, Len(intake)) = intake
  BY <1>1, SubSeqFull
<1> QED BY <1>1, <1>2, <1>3, <1>4, ConcatEmptySeq

(* The command about to be executed is the head of the queue.              *)
LEMMA CurrentWaits ==
  ASSUME PlayTypeOK, AtCommand("exec")
  PROVE  /\ Current \in Requests
         /\ Waiting # <<>>
         /\ Current = Head(Waiting)
<1>1. /\ intake \in Seq(Requests) /\ chamber \in Seq(Requests)
      /\ iter \in 1..Len(chamber) /\ phase = "exec"
  BY DEF PlayTypeOK, AtCommand
<1> DEFINE b == SubSeq(chamber, iter, Len(chamber))
<1>2. b \in Seq(Requests) /\ Len(b) = Len(chamber) - iter + 1
      /\ \A k \in 1..Len(b) : b[k] = chamber[iter + k - 1]
  BY <1>1, SubSeqProperties
<1>3. Waiting = b \o intake
  BY <1>1 DEF Waiting
<1>4. Current = chamber[iter] /\ Current \in Requests
  BY <1>1 DEF Current
<1> HIDE DEF b
<1>5. /\ Waiting \in Seq(Requests) /\ Len(Waiting) = Len(b) + Len(intake)
      /\ \A k \in 1..Len(b) + Len(intake) :
           Waiting[k] = IF k <= Len(b) THEN b[k] ELSE intake[k - Len(b)]
  BY <1>1, <1>2, <1>3, ConcatProperties
<1>6. 1 \in 1..Len(b) /\ 1 \in 1..Len(b) + Len(intake) /\ b[1] = chamber[iter]
  BY <1>1, <1>2
<1>7. Waiting # <<>> /\ Head(Waiting) = chamber[iter]
  BY <1>1, <1>5, <1>6
<1> QED BY <1>4, <1>7

(* Executing takes the head of the queue.                                  *)
LEMMA ExecuteWaits ==
  ASSUME PlayTypeOK, Execute
  PROVE  /\ Current \in Requests
         /\ Waiting # <<>>
         /\ Current = Head(Waiting)
         /\ Waiting' = Tail(Waiting)
<1>1. /\ intake \in Seq(Requests) /\ chamber \in Seq(Requests)
      /\ iter \in 1..Len(chamber) /\ phase = "exec"
  BY DEF PlayTypeOK, Execute, AtCommand
<1> DEFINE b == SubSeq(chamber, iter, Len(chamber))
           c == SubSeq(chamber, iter + 1, Len(chamber))
<1>2. b \in Seq(Requests) /\ Len(b) = Len(chamber) - iter + 1
      /\ \A k \in 1..Len(b) : b[k] = chamber[iter + k - 1]
  BY <1>1, SubSeqProperties
<1>3. c \in Seq(Requests) /\ Len(c) = Len(chamber) - iter
      /\ \A k \in 1..Len(c) : c[k] = chamber[iter + k]
  <2>1. iter + 1 \in 1..Len(chamber) + 1
    BY <1>1
  <2> QED BY <1>1, <2>1, SubSeqProperties
<1>4. Waiting = b \o intake /\ Waiting' = c \o intake
  BY <1>1 DEF Waiting, Execute
<1>5. Current = chamber[iter] /\ Current \in Requests
  BY <1>1 DEF Current
<1> HIDE DEF b, c
<1>6. /\ Waiting \in Seq(Requests) /\ Len(Waiting) = Len(b) + Len(intake)
      /\ \A k \in 1..Len(b) + Len(intake) :
           Waiting[k] = IF k <= Len(b) THEN b[k] ELSE intake[k - Len(b)]
  BY <1>1, <1>2, <1>4, ConcatProperties
<1>7. /\ Waiting' \in Seq(Requests) /\ Len(Waiting') = Len(c) + Len(intake)
      /\ \A k \in 1..Len(c) + Len(intake) :
           Waiting'[k] = IF k <= Len(c) THEN c[k] ELSE intake[k - Len(c)]
  BY <1>1, <1>3, <1>4, ConcatProperties
<1>8. Len(b) = Len(c) + 1 /\ Len(b) \in Nat /\ Len(c) \in Nat /\ Len(intake) \in Nat /\ Len(chamber) \in Nat
  BY <1>1, <1>2, <1>3
<1>9. Waiting # <<>> /\ Head(Waiting) = chamber[iter]
  BY <1>5, CurrentWaits DEF Execute
<1>10. /\ Tail(Waiting) \in Seq(Requests) /\ Len(Tail(Waiting)) = Len(c) + Len(intake)
       /\ \A k \in 1..Len(c) + Len(intake) : Tail(Waiting)[k] = Waiting[k + 1]
  BY <1>6, <1>8, <1>9
<1>11. ASSUME NEW k \in 1..Len(c) + Len(intake) PROVE Waiting[k + 1] = Waiting'[k]
  <2>1. k + 1 \in 1..Len(b) + Len(intake)
    BY <1>8
  <2>2. CASE k <= Len(c)
    <3>1. k + 1 \in 1..Len(b) /\ k \in 1..Len(c) /\ iter + (k + 1) - 1 = iter + k
      BY <1>8, <2>2, <1>1
    <3>2. b[k + 1] = chamber[iter + (k + 1) - 1] /\ c[k] = chamber[iter + k]
      BY <3>1, <1>2, <1>3
    <3>3. Waiting[k + 1] = b[k + 1]
      BY <2>1, <3>1, <1>6, <1>8
    <3>4. Waiting'[k] = c[k]
      BY <2>2, <1>7
    <3> QED BY <3>1, <3>2, <3>3, <3>4
  <2>3. CASE ~(k <= Len(c))
    <3>1. ~(k + 1 <= Len(b)) /\ (k + 1) - Len(b) = k - Len(c)
      BY <1>8, <2>3
    <3> QED BY <2>1, <2>3, <3>1, <1>6, <1>7
  <2> QED BY <2>2, <2>3
<1>12. Waiting' = Tail(Waiting)
  <2>1. \A k \in 1..Len(Tail(Waiting)) : Tail(Waiting)[k] = Waiting'[k]
    BY <1>10, <1>11
  <2> DEFINE x == Waiting'
             y == Tail(Waiting)
  <2>2. x \in Seq(Requests) /\ y \in Seq(Requests) /\ Len(x) = Len(y)
        /\ \A k \in 1..Len(x) : x[k] = y[k]
    BY <2>1, <1>7, <1>10
  <2> HIDE DEF x, y
  <2>3. x = y
    BY <2>2, SeqEqual
  <2> QED BY <2>3 DEF x, y
<1> QED BY <1>5, <1>9, <1>12

(* The rest of the period leaves the queue as it is.                       *)
LEMMA OthersWait ==
  ASSUME PlayTypeOK, StartMix \/ EndMix \/ Notify \/ Recycle \/ UNCHANGED pipeVars
  PROVE  Waiting' = Waiting
<1>1. intake \in Seq(Requests) /\ chamber \in Seq(Requests) /\ iter \in 1..Len(chamber) + 1
  BY DEF PlayTypeOK
<1>2. <<>> \o intake = intake
  BY <1>1, ConcatEmptySeq
<1>3. CASE StartMix
  <2>1. SubSeq(chamber, iter, Len(chamber)) = <<>>
    <3>1. iter = Len(chamber) + 1
      BY <1>1, <1>3 DEF StartMix, Visited
    <3> QED BY <1>1, <3>1, SubSeqEmpty
  <2>2. Waiting = <<>> \o intake /\ Waiting' = <<>> \o intake
    BY <1>3, <2>1 DEF Waiting, StartMix, Visited
  <2> QED BY <2>2
<1>4. CASE EndMix
  BY <1>4 DEF Waiting, EndMix
<1>5. CASE Notify
  BY <1>5 DEF Waiting, Notify, AtCommand
<1>6. CASE Recycle
  BY <1>6 DEF Waiting, Recycle, Visited
<1>7. CASE UNCHANGED pipeVars
  BY <1>7 DEF Waiting, pipeVars
<1> QED BY <1>3, <1>4, <1>5, <1>6, <1>7

-----------------------------------------------------------------------------
(* What list_remove leaves of a list without duplicates.                   *)
LEMMA RemovedList ==
  ASSUME NEW S, NEW q \in Seq(S), Once(q), NEW d \in 1..Len(q)
  PROVE  /\ RemoveFirst(q, q[d]) \in Seq(S)
         /\ Len(RemoveFirst(q, q[d])) = Len(q) - 1
         /\ \A j \in 1..Len(q) - 1 :
              RemoveFirst(q, q[d])[j] = IF j < d THEN q[j] ELSE q[j + 1]
<1> DEFINE e == q[d]
           a == SubSeq(q, 1, d - 1)
           b == SubSeq(q, d + 1, Len(q))
<1>1. {i \in 1..Len(q) : q[i] = e} = {d}
  BY DEF Once
<1>2. SelectInSeq(q, LAMBDA v : v = e) = d
  <2>1. Min({d}) = d
    BY DEF Min
  <2> QED BY <1>1, <2>1 DEF SelectInSeq, SelectInSubSeq
<1>3. RemoveFirst(q, e) = a \o b
  BY <1>2 DEF RemoveFirst, RemoveAt
<1>4. /\ a \in Seq(S) /\ Len(a) = d - 1
      /\ \A k \in 1..d - 1 : a[k] = q[k]
  <2>1. d - 1 \in 0..Len(q) /\ 1 \in 1..Len(q) + 1
    OBVIOUS
  <2> QED BY <2>1, SubSeqProperties
<1>5. /\ b \in Seq(S) /\ Len(b) = Len(q) - d
      /\ \A k \in 1..Len(q) - d : b[k] = q[d + k]
  <2>1. d + 1 \in 1..Len(q) + 1 /\ Len(q) \in d..Len(q)
    OBVIOUS
  <2> QED BY <2>1, SubSeqProperties
<1>6. RemoveFirst(q, q[d]) = a \o b
  BY <1>3
<1> HIDE DEF a, b
<1>7. /\ a \o b \in Seq(S) /\ Len(a \o b) = Len(a) + Len(b)
      /\ \A k \in 1..Len(a) + Len(b) :
           (a \o b)[k] = IF k <= Len(a) THEN a[k] ELSE b[k - Len(a)]
  BY <1>4, <1>5, ConcatProperties
<1>8. ASSUME NEW j \in 1..Len(q) - 1
      PROVE  (a \o b)[j] = IF j < d THEN q[j] ELSE q[j + 1]
  <2>1. j \in 1..Len(a) + Len(b)
    BY <1>4, <1>5
  <2>2. CASE j < d
    <3>1. j \in 1..d - 1 /\ j <= Len(a)
      BY <1>4, <2>2
    <3> QED BY <2>1, <2>2, <3>1, <1>4, <1>7
  <2>3. CASE ~(j < d)
    <3>1. j - (d - 1) \in 1..Len(q) - d /\ d + (j - (d - 1)) = j + 1 /\ ~(j <= Len(a))
      BY <1>4, <2>3
    <3>2. (a \o b)[j] = b[j - (d - 1)]
      BY <2>1, <3>1, <1>4, <1>7
    <3> QED BY <2>3, <3>1, <3>2, <1>5
  <2> QED BY <2>2, <2>3
<1>9. Len(a) + Len(b) = Len(q) - 1
  BY <1>4, <1>5
<1> QED BY <1>6, <1>7, <1>8, <1>9

(* The list without one of its streams has the others, each once.          *)
LEMMA RemovedMembers ==
  ASSUME NEW S, NEW q \in Seq(S), Once(q), NEW d \in 1..Len(q)
  PROVE  /\ Once(RemoveFirst(q, q[d]))
         /\ \A t : Contains(RemoveFirst(q, q[d]), t) <=> Contains(q, t) /\ t # q[d]
         /\ \A k \in 1..Len(RemoveFirst(q, q[d])) :
              \E j \in 1..Len(q) : j # d /\ RemoveFirst(q, q[d])[k] = q[j]
<1> DEFINE r == RemoveFirst(q, q[d])
<1>1. /\ r \in Seq(S) /\ Len(r) = Len(q) - 1
      /\ \A j \in 1..Len(q) - 1 : r[j] = IF j < d THEN q[j] ELSE q[j + 1]
  BY RemovedList
<1> HIDE DEF r
<1>2. \A j \in 1..Len(r) : j \in 1..Len(q) - 1
  BY <1>1
<1>3. Once(r)
  <2> SUFFICES ASSUME NEW j \in 1..Len(r), NEW k \in 1..Len(r), r[j] = r[k]
               PROVE j = k
    BY DEF Once
  <2>1. PICK jj \in 1..Len(q) : r[j] = q[jj] /\ jj = IF j < d THEN j ELSE j + 1
    BY <1>1, <1>2
  <2>2. PICK kk \in 1..Len(q) : r[k] = q[kk] /\ kk = IF k < d THEN k ELSE k + 1
    BY <1>1, <1>2
  <2>3. jj = kk
    BY <2>1, <2>2 DEF Once
  <2> QED BY <2>1, <2>2, <2>3
<1>4. ASSUME NEW k \in 1..Len(r) PROVE \E j \in 1..Len(q) : j # d /\ r[k] = q[j]
  <2>1. k \in 1..Len(q) - 1
    BY <1>2
  <2>2. CASE k < d
    BY <2>1, <2>2, <1>1
  <2>3. CASE ~(k < d)
    <3>1. k + 1 \in 1..Len(q) /\ k + 1 # d /\ r[k] = q[k + 1]
      BY <2>1, <2>3, <1>1
    <3> QED BY <3>1
  <2> QED BY <2>2, <2>3
<1>5. ASSUME NEW t PROVE Contains(r, t) <=> Contains(q, t) /\ t # q[d]
  <2>1. ASSUME Contains(r, t) PROVE Contains(q, t) /\ t # q[d]
    BY <2>1, <1>4 DEF Contains, Once
  <2>2. ASSUME Contains(q, t), t # q[d] PROVE Contains(r, t)
    <3>1. PICK j \in 1..Len(q) : q[j] = t /\ j # d
      BY <2>2 DEF Contains
    <3>2. CASE j < d
      <4>1. j \in 1..Len(r) /\ r[j] = q[j]
        BY <1>1, <3>1, <3>2
      <4> QED BY <3>1, <4>1 DEF Contains
    <3>3. CASE ~(j < d)
      <4>1. j - 1 \in 1..Len(r) /\ r[j - 1] = q[j]
        BY <1>1, <3>1, <3>3
      <4> QED BY <3>1, <4>1 DEF Contains
    <3> QED BY <3>2, <3>3
  <2> QED BY <2>1, <2>2
<1> QED BY <1>3, <1>4, <1>5 DEF r

(* Removing the first stream left to visit leaves the others as the end.   *)
LEMMA RemovedEnd ==
  ASSUME NEW S, NEW q \in Seq(S), NEW r \in Seq(S), r # <<>>, Once(q), EndOf(r, q)
  PROVE  /\ Len(q) - Len(r) + 1 \in 1..Len(q)
         /\ q[Len(q) - Len(r) + 1] = Head(r)
         /\ EndOf(Tail(r), q)
         /\ EndOf(Tail(r), RemoveFirst(q, Head(r)))
<1> DEFINE d == Len(q) - Len(r) + 1
<1>1. /\ d \in 1..Len(q) /\ q[d] = Head(r)
      /\ Len(r) <= Len(q) /\ \A k \in 1..Len(r) : r[k] = q[Len(q) - Len(r) + k]
  <2>1. 1 \in 1..Len(r) /\ Head(r) = r[1]
    BY HeadFirst
  <2> QED BY <2>1 DEF EndOf
<1>2. /\ Tail(r) \in Seq(S) /\ Len(Tail(r)) = Len(r) - 1
      /\ \A k \in 1..Len(r) - 1 : Tail(r)[k] = r[k + 1] /\ k + 1 \in 1..Len(r)
  OBVIOUS
<1>3. EndOf(Tail(r), q)
  <2>1. ASSUME NEW k \in 1..Len(r) - 1 PROVE Tail(r)[k] = q[Len(q) - (Len(r) - 1) + k]
    <3>1. Len(q) - Len(r) + (k + 1) = Len(q) - (Len(r) - 1) + k
      OBVIOUS
    <3>2. Tail(r)[k] = r[k + 1] /\ r[k + 1] = q[Len(q) - Len(r) + (k + 1)]
      BY <1>1, <1>2
    <3> QED BY <3>1, <3>2
  <2>2. Len(r) - 1 <= Len(q)
    BY <1>1
  <2> QED BY <1>2, <2>1, <2>2 DEF EndOf
<1> DEFINE u == RemoveFirst(q, q[d])
<1>4. /\ u \in Seq(S) /\ Len(u) = Len(q) - 1
      /\ \A j \in 1..Len(q) - 1 : u[j] = IF j < d THEN q[j] ELSE q[j + 1]
  <2> HIDE DEF d
  <2> QED BY <1>1, RemovedList
<1>5. EndOf(Tail(r), u)
  <2> HIDE DEF u
  <2>1. ASSUME NEW k \in 1..Len(r) - 1
        PROVE Tail(r)[k] = u[(Len(q) - 1) - (Len(r) - 1) + k]
    <3> DEFINE j == (Len(q) - 1) - (Len(r) - 1) + k
    <3>1. j \in 1..Len(q) - 1 /\ ~(j < d) /\ j + 1 = Len(q) - Len(r) + (k + 1)
      BY <1>1
    <3>2. Tail(r)[k] = r[k + 1] /\ r[k + 1] = q[Len(q) - Len(r) + (k + 1)]
      BY <1>1, <1>2
    <3> HIDE DEF j, d
    <3>3. u[j] = q[j + 1]
      BY <1>4, <3>1
    <3>4. u[j] = Tail(r)[k]
      BY <3>1, <3>2, <3>3
    <3> QED BY <3>4 DEF j
  <2>2. Len(r) - 1 <= Len(q) - 1
    BY <1>1
  <2> QED BY <1>2, <1>4, <2>1, <2>2 DEF EndOf
<1> QED BY <1>1, <1>3, <1>5

(* A list with one stream more has it and the others, each once.           *)
LEMMA AppendedMembers ==
  ASSUME NEW S, NEW q \in Seq(S), Once(q), NEW s \in S, ~Contains(q, s)
  PROVE  /\ Append(q, s) \in Seq(S)
         /\ Once(Append(q, s))
         /\ \A t : Contains(Append(q, s), t) <=> Contains(q, t) \/ t = s
         /\ \A k \in 1..Len(Append(q, s)) :
              \/ k \in 1..Len(q) /\ Append(q, s)[k] = q[k]
              \/ Append(q, s)[k] = s
<1> DEFINE r == Append(q, s)
<1>1. /\ r \in Seq(S) /\ Len(r) = Len(q) + 1
      /\ \A k \in 1..Len(q) : r[k] = q[k]
      /\ r[Len(q) + 1] = s
  OBVIOUS
<1> HIDE DEF r
<1>2. \A k \in 1..Len(r) : (k \in 1..Len(q) /\ r[k] = q[k]) \/ (k = Len(q) + 1 /\ r[k] = s)
  BY <1>1
<1>3. \A k \in 1..Len(q) : q[k] # s
  BY DEF Contains
<1>4. Once(r)
  BY <1>2, <1>3 DEF Once
<1>5. ASSUME NEW t PROVE Contains(r, t) <=> Contains(q, t) \/ t = s
  <2>1. \A k \in 1..Len(q) : k \in 1..Len(r)
    BY <1>1
  <2>2. Len(q) + 1 \in 1..Len(r)
    BY <1>1
  <2> QED BY <1>1, <1>2, <2>1, <2>2 DEF Contains
<1> QED BY <1>1, <1>2, <1>4, <1>5 DEF r

(* The module's names for these facts.                                     *)
LEMMA ListNames ==
  ASSUME NEW S, NEW q \in Seq(S), NEW r \in Seq(S), Once(q), EndOf(r, q)
  PROVE  IsInjective(q) /\ IsSuffix(r, q)
<1>1. IsInjective(q)
  <2>1. DOMAIN q = 1..Len(q)
    OBVIOUS
  <2> QED BY <2>1 DEF Once, IsInjective
<1> DEFINE x == Reverse(r)
           y == Reverse(q)
<1>2. /\ x \in Seq(S) /\ Len(x) = Len(r)
      /\ \A i \in 1..Len(r) : x[i] = r[(Len(r) - i) + 1]
  <2>1. x = [i \in 1..Len(r) |-> r[(Len(r) - i) + 1]]
    BY DEF Reverse
  <2>2. ASSUME NEW i \in 1..Len(r) PROVE r[(Len(r) - i) + 1] \in S
    <3>1. (Len(r) - i) + 1 \in 1..Len(r)
      OBVIOUS
    <3> QED BY <3>1, ElementOfSeq
  <2> HIDE DEF x
  <2>3. x \in [1..Len(r) -> S]
    BY <2>1, <2>2
  <2>4. Len(r) \in Nat
    OBVIOUS
  <2> QED BY <2>1, <2>3, <2>4, IsASeq, LenProperties
<1>3. /\ y \in Seq(S) /\ Len(y) = Len(q)
      /\ \A i \in 1..Len(q) : y[i] = q[(Len(q) - i) + 1]
  <2>1. y = [i \in 1..Len(q) |-> q[(Len(q) - i) + 1]]
    BY DEF Reverse
  <2>2. ASSUME NEW i \in 1..Len(q) PROVE q[(Len(q) - i) + 1] \in S
    <3>1. (Len(q) - i) + 1 \in 1..Len(q)
      OBVIOUS
    <3> QED BY <3>1, ElementOfSeq
  <2> HIDE DEF y
  <2>3. y \in [1..Len(q) -> S]
    BY <2>1, <2>2
  <2>4. Len(q) \in Nat
    OBVIOUS
  <2> QED BY <2>1, <2>3, <2>4, IsASeq, LenProperties
<1> HIDE DEF x, y
<1>4. Len(r) <= Len(q) /\ \A k \in 1..Len(r) : r[k] = q[Len(q) - Len(r) + k]
  BY DEF EndOf
<1>5. SubSeq(x, 1, Len(x)) = x
  BY <1>2, SubSeqFull
<1>6. SubSeq(y, 1, Len(x)) = x
  <2> DEFINE z == SubSeq(y, 1, Len(x))
  <2>1. 1 \in 1..Len(y) + 1 /\ Len(x) \in 0..Len(y)
    BY <1>2, <1>3, <1>4
  <2>2. /\ z \in Seq(S) /\ Len(z) = Len(x)
        /\ \A k \in 1..Len(x) : z[k] = y[k]
    BY <1>2, <1>3, <2>1, SubSeqProperties
  <2>3. ASSUME NEW k \in 1..Len(x) PROVE y[k] = x[k]
    <3>1. /\ k \in 1..Len(r) /\ k \in 1..Len(q) /\ (Len(r) - k) + 1 \in 1..Len(r)
          /\ Len(q) - Len(r) + ((Len(r) - k) + 1) = (Len(q) - k) + 1
      BY <1>2, <1>4
    <3> QED BY <3>1, <1>2, <1>3, <1>4
  <2> HIDE DEF z
  <2>4. z = x
    BY <2>2, <2>3, <1>2, SeqEqual
  <2> QED BY <2>4 DEF z
<1>7. IsPrefix(x, y)
  BY <1>2, <1>3, <1>4, <1>5, <1>6 DEF IsPrefix
<1> QED BY <1>1, <1>7 DEF IsSuffix, x, y

-----------------------------------------------------------------------------
(* What rendering a period of s does to its position.                      *)
LEMMA RenderedEnds ==
  ASSUME PlayTypeOK, NEW s \in Streams
  PROVE  /\ Rendered(s).pos \in Nat
         /\ Rendered(s).pos <= NFrames[s]
<1>1. /\ NFrames[s] \in Nat \ {0} /\ Period \in Nat /\ Period # 0
      /\ Period \in 0..Period
      /\ pos[s] \in Nat /\ pos[s] <= NFrames[s] /\ pos[s] \in 0..NFrames[s]
      /\ looping[s] \in BOOLEAN
  BY MixerAssumption DEF PlayTypeOK
<1>2. Rendered(s) = IF looping[s] THEN Round(NFrames[s], Period, pos[s])
                    ELSE Straight(NFrames[s], Period, pos[s])
  <2>1. Rendered(s) = Closed(NFrames[s], looping[s])[Period][pos[s]]
    BY <1>1, RenderIsClosed DEF Rendered
  <2> QED BY <1>1, <2>1 DEF Closed
<1>3. CASE looping[s]
  <2>1. pos[s] + Period - 1 \in Nat
    BY <1>1
  <2>2. (pos[s] + Period - 1) % NFrames[s] \in 0..NFrames[s] - 1
    BY <1>1, <2>1, RemainderType
  <2>3. Rendered(s).pos = ((pos[s] + Period - 1) % NFrames[s]) + 1
    BY <1>1, <1>2, <1>3 DEF Round
  <2> QED BY <1>1, <2>2, <2>3
<1>4. CASE ~looping[s]
  <2>1. Rendered(s).pos = IF pos[s] + Period > NFrames[s] THEN NFrames[s] ELSE pos[s] + Period
    BY <1>2, <1>4 DEF Straight
  <2> QED BY <1>1, <2>1
<1> QED BY <1>3, <1>4, <1>1

(* The frames a stream that has some left gives.                           *)
LEMMA RenderedFrames ==
  ASSUME PlayTypeOK, NEW s \in Streams, pos[s] < NFrames[s]
  PROVE  LET n == IF looping[s] THEN Period
                  ELSE IF NFrames[s] - pos[s] < Period THEN NFrames[s] - pos[s]
                  ELSE Period
         IN Rendered(s).frames = [k \in 1..n |-> (pos[s] + k - 1) % NFrames[s]]
<1> DEFINE n == IF NFrames[s] - pos[s] < Period THEN NFrames[s] - pos[s] ELSE Period
<1>1. /\ NFrames[s] \in Nat \ {0} /\ Period \in Nat /\ Period # 0
      /\ Period \in 0..Period
      /\ pos[s] \in Nat /\ pos[s] <= NFrames[s] /\ pos[s] \in 0..NFrames[s]
      /\ looping[s] \in BOOLEAN
  BY MixerAssumption DEF PlayTypeOK
<1>2. Rendered(s) = IF looping[s] THEN Round(NFrames[s], Period, pos[s])
                    ELSE Straight(NFrames[s], Period, pos[s])
  <2>1. Rendered(s) = Closed(NFrames[s], looping[s])[Period][pos[s]]
    BY <1>1, RenderIsClosed DEF Rendered
  <2> QED BY <1>1, <2>1 DEF Closed
<1>3. CASE looping[s]
  BY <1>2, <1>3 DEF Round
<1>4. CASE ~looping[s]
  <2>1. n \in Nat /\ n + pos[s] <= NFrames[s]
        /\ n = (IF pos[s] + Period > NFrames[s] THEN NFrames[s] ELSE pos[s] + Period) - pos[s]
    BY <1>1
  <2> HIDE DEF n
  <2>2. Rendered(s).frames = [k \in 1..n |-> pos[s] + k - 1]
    BY <1>2, <1>4, <2>1 DEF Straight
  <2>3. ASSUME NEW k \in 1..n PROVE (pos[s] + k - 1) % NFrames[s] = pos[s] + k - 1
    <3>1. pos[s] + k - 1 \in 0..NFrames[s] - 1
      BY <1>1, <2>1
    <3> QED BY <1>1, <3>1, RemainderBelow
  <2>4. Rendered(s).frames = [k \in 1..n |-> (pos[s] + k - 1) % NFrames[s]]
    BY <2>2, <2>3
  <2> QED BY <1>4, <2>4 DEF n
<1> QED BY <1>3, <1>4, <1>1

-----------------------------------------------------------------------------
(* The lemmas that follow say what each kind of step changes.              *)
LEMMA CommandChanges ==
  ASSUME PlayTypeOK, NEW v \in Requests, Command(v)
  PROVE  /\ Waiting' = Append(Waiting, v)
         /\ intake' \in Seq(Requests)
         /\ checking = NoStream
         /\ UNCHANGED <<chamber, iter, phase, streams, left, pos, looping, volumes, checking>>
<1>1. Waiting' = Append(Waiting, v)
  BY SubmitWaits DEF Command
<1>2. intake' \in Seq(Requests)
  BY DEF Command, Submit, PlayTypeOK
<1> QED BY <1>1, <1>2 DEF Command, Submit, mixerVars

(* The command ds_buffer_play submits.                                     *)
LEMMA PlayRequest ==
  ASSUME NEW s \in Streams, NEW loop \in BOOLEAN
  PROVE  LET v == [type |-> "play", stm |-> s, loop |-> loop]
         IN v \in Requests /\ v.stm = s /\ v.type = "play" /\ v.loop = loop
BY DEF Requests

(* The command ds_buffer_stop submits.                                     *)
LEMMA StopRequest ==
  ASSUME NEW s \in Streams
  PROVE  LET v == [type |-> "stop", stm |-> s]
         IN v \in Requests /\ v.stm = s /\ v.type = "stop"
BY DEF Requests

(* The command ds_buffer_set_volume submits.                               *)
LEMMA VolumeRequest ==
  ASSUME NEW s \in Streams, NEW x \in Levels
  PROVE  LET v == [type |-> "set_volume", stm |-> s,
                   volumes |-> [ch \in Channels |-> Narrow(x)]]
         IN /\ v \in Requests /\ v.stm = s /\ v.type = "set_volume"
            /\ v.volumes = [ch \in Channels |-> Narrow(x)]
<1>1. [ch \in Channels |-> Narrow(x)] \in [Channels -> Volumes]
  BY PlaybackAssumption
<1> QED BY <1>1 DEF Requests

(* Steps of the audio thread that only move it along.                      *)
Moves ==
  \/ AudioIntake \/ AudioEndMix \/ AudioNotify \/ AudioRecycle
  \/ UNCHANGED vars

(* They leave the mixer and the application alone.                         *)
LEMMA MovesChange ==
  ASSUME PlayTypeOK, phase # "mix" => left = <<>>, Moves
  PROVE  /\ Waiting' = Waiting
         /\ intake' \in Seq(Requests) /\ chamber' \in Seq(Requests)
         /\ iter' \in 1..Len(chamber') + 1 /\ phase' \in Phases
         /\ phase' # "mix" => left' = <<>>
         /\ UNCHANGED <<streams, left, pos, looping, volumes, playing, looped,
                        checking, asked, denied, level>>
<1>1. intake \in Seq(Requests) /\ chamber \in Seq(Requests) /\ iter \in 1..Len(chamber) + 1
      /\ phase \in Phases
  BY DEF PlayTypeOK
<1>2. CASE AudioIntake
  <2>1. TakeBatch /\ UNCHANGED <<mixerVars, flagVars>>
    BY <1>2 DEF AudioIntake
  <2>2. Waiting' = Waiting
    BY <2>1, TakeWaits
  <2>3. /\ intake' \in Seq(Requests) /\ chamber' \in Seq(Requests)
        /\ iter' \in 1..Len(chamber') + 1 /\ phase' \in Phases
    BY <1>1, <2>1 DEF TakeBatch, Phases
  <2>4. left = <<>>
    BY <2>1 DEF TakeBatch
  <2> QED BY <2>1, <2>2, <2>3, <2>4 DEF mixerVars, flagVars
<1>3. CASE AudioEndMix
  <2>1. EndMix /\ left = <<>> /\ UNCHANGED <<mixerVars, flagVars>>
    BY <1>3 DEF AudioEndMix
  <2>2. Waiting' = Waiting
    BY <2>1, OthersWait
  <2>3. /\ intake' \in Seq(Requests) /\ chamber' \in Seq(Requests)
        /\ iter' \in 1..Len(chamber') + 1 /\ phase' \in Phases
    BY <1>1, <2>1 DEF EndMix, Phases
  <2> QED BY <2>1, <2>2, <2>3 DEF mixerVars, flagVars
<1>4. CASE AudioNotify
  <2>1. Notify /\ UNCHANGED <<mixerVars, flagVars>>
    BY <1>4 DEF AudioNotify
  <2>2. Waiting' = Waiting
    BY <2>1, OthersWait
  <2>3. /\ intake' \in Seq(Requests) /\ chamber' \in Seq(Requests)
        /\ iter' \in 1..Len(chamber') + 1 /\ phase' \in Phases
    BY <1>1, <2>1 DEF Notify, AtCommand, Phases
  <2>4. left = <<>>
    BY <2>1 DEF Notify, AtCommand
  <2> QED BY <2>1, <2>2, <2>3, <2>4 DEF mixerVars, flagVars
<1>5. CASE AudioRecycle
  <2>1. Recycle /\ UNCHANGED <<mixerVars, flagVars>>
    BY <1>5 DEF AudioRecycle
  <2>2. Waiting' = Waiting
    BY <2>1, OthersWait
  <2>3. /\ intake' \in Seq(Requests) /\ chamber' \in Seq(Requests)
        /\ iter' \in 1..Len(chamber') + 1 /\ phase' \in Phases
    BY <1>1, <2>1 DEF Recycle, Phases
  <2>4. left = <<>>
    BY <2>1 DEF Recycle, Visited
  <2> QED BY <2>1, <2>2, <2>3, <2>4 DEF mixerVars, flagVars
<1>6. CASE UNCHANGED vars
  <2>1. UNCHANGED pipeVars /\ UNCHANGED mixerVars /\ UNCHANGED flagVars
    BY <1>6 DEF vars
  <2>2. Waiting' = Waiting
    BY <2>1, OthersWait
  <2> QED BY <1>1, <2>1, <2>2 DEF pipeVars, mixerVars, flagVars
<1> QED BY <1>2, <1>3, <1>4, <1>5, <1>6 DEF Moves

(* One command executed.                                                   *)
LEMMA ExecuteChanges ==
  ASSUME PlayTypeOK, Execute
  PROVE  /\ Current \in Requests
         /\ Waiting # <<>> /\ Current = Head(Waiting) /\ Waiting' = Tail(Waiting)
         /\ phase = "exec" /\ phase' = "exec"
         /\ iter' \in 1..Len(chamber') + 1
         /\ UNCHANGED <<intake, chamber>>
<1>1. iter' \in 1..Len(chamber') + 1
  <2>1. chamber \in Seq(Requests)
    BY DEF PlayTypeOK
  <2> QED BY <2>1 DEF Execute, AtCommand
<1> QED BY <1>1, ExecuteWaits DEF Execute, AtCommand

(* The streams after a play and after a stop.                              *)
LEMMA PlayChanges ==
  ASSUME PlayTypeOK, Once(streams), NEW s \in Streams, NEW loop, PlayStream(s, loop)
  PROVE  /\ streams' \in Seq(Streams)
         /\ Once(streams')
         /\ \A t : InMix(t)' <=> InMix(t) \/ t = s
         /\ \A k \in 1..Len(streams') :
              (\E j \in 1..Len(streams) : streams'[k] = streams[j]) \/ streams'[k] = s
<1>1. streams \in Seq(Streams)
  BY DEF PlayTypeOK
<1>2. CASE InMix(s)
  <2>1. streams' = streams
    BY <1>2 DEF PlayStream
  <2> QED BY <1>1, <1>2, <2>1 DEF InMix
<1>3. CASE ~InMix(s)
  <2>1. streams' = Append(streams, s) /\ ~Contains(streams, s)
    BY <1>3 DEF PlayStream, InMix
  <2>2. /\ Append(streams, s) \in Seq(Streams)
        /\ Once(Append(streams, s))
        /\ \A t : Contains(Append(streams, s), t) <=> Contains(streams, t) \/ t = s
        /\ \A k \in 1..Len(Append(streams, s)) :
             \/ k \in 1..Len(streams) /\ Append(streams, s)[k] = streams[k]
             \/ Append(streams, s)[k] = s
    BY <1>1, <2>1, AppendedMembers
  <2>3. \A t : InMix(t)' <=> Contains(Append(streams, s), t)
    BY <2>1 DEF InMix
  <2> QED BY <2>1, <2>2, <2>3, Zenon DEF InMix
<1> QED BY <1>2, <1>3

(* The list after a stop: the same without s.                              *)
LEMMA StopChanges ==
  ASSUME PlayTypeOK, Once(streams), NEW s \in Streams, StopStream(s)
  PROVE  /\ streams' \in Seq(Streams)
         /\ Once(streams')
         /\ \A t : InMix(t)' <=> InMix(t) /\ t # s
         /\ \A k \in 1..Len(streams') :
              \E j \in 1..Len(streams) : streams'[k] = streams[j]
<1>1. streams \in Seq(Streams)
  BY DEF PlayTypeOK
<1>2. CASE ~InMix(s)
  <2>1. streams' = streams
    BY <1>2 DEF StopStream
  <2> QED BY <1>1, <1>2, <2>1 DEF InMix
<1>3. CASE InMix(s)
  <2>1. PICK d \in 1..Len(streams) : streams[d] = s
    BY <1>3 DEF InMix, Contains
  <2>2. streams' = RemoveFirst(streams, streams[d])
    BY <1>3, <2>1 DEF StopStream
  <2>3. RemoveFirst(streams, streams[d]) \in Seq(Streams)
    BY <1>1, RemovedList
  <2>4. /\ Once(RemoveFirst(streams, streams[d]))
        /\ \A t : Contains(RemoveFirst(streams, streams[d]), t) <=> Contains(streams, t) /\ t # streams[d]
        /\ \A k \in 1..Len(RemoveFirst(streams, streams[d])) :
             \E j \in 1..Len(streams) : j # d /\ RemoveFirst(streams, streams[d])[k] = streams[j]
    BY <1>1, RemovedMembers
  <2>5. \A t : InMix(t)' <=> Contains(RemoveFirst(streams, streams[d]), t)
    BY <2>2 DEF InMix
  <2> QED BY <2>1, <2>2, <2>3, <2>4, <2>5 DEF InMix
<1> QED BY <1>2, <1>3

(* And after one stream has been mixed.                                    *)
LEMMA MixChanges ==
  ASSUME PlayTypeOK, ListInv, AudioMixStream
  PROVE  LET s == Head(left)
         IN /\ s \in Streams /\ InMix(s)
            /\ pos'[s] \in Nat /\ pos'[s] <= NFrames[s]
            /\ pos' \in [Streams -> Nat]
            /\ \A t \in Streams : t # s => pos'[t] = pos[t]
            /\ streams' \in Seq(Streams) /\ left' \in Seq(Streams)
            /\ Once(streams') /\ EndOf(left', streams')
            /\ \A t : InMix(t)' <=> InMix(t) /\ (t = s => pos'[s] < NFrames[s])
            /\ \A k \in 1..Len(streams') :
                 \E j \in 1..Len(streams) :
                   streams'[k] = streams[j] /\ (streams[j] = s => pos'[s] < NFrames[s])
<1> DEFINE s == Head(left)
           d == Len(streams) - Len(left) + 1
           end == Rendered(s).pos
<1>1. /\ streams \in Seq(Streams) /\ left \in Seq(Streams) /\ left # <<>>
      /\ Once(streams) /\ EndOf(left, streams)
      /\ pos \in [Streams -> Nat]
  BY DEF PlayTypeOK, ListInv, AudioMixStream, MixStream
<1>2. /\ d \in 1..Len(streams)
      /\ streams[d] = s
      /\ EndOf(Tail(left), streams)
      /\ EndOf(Tail(left), RemoveFirst(streams, s))
  BY <1>1, RemovedEnd
<1>3. s \in Streams /\ InMix(s) /\ Tail(left) \in Seq(Streams)
  BY <1>1, <1>2 DEF InMix, Contains
<1>4. end \in Nat /\ end <= NFrames[s]
  BY <1>3, RenderedEnds
<1>5. /\ pos' = [pos EXCEPT ![s] = end]
      /\ streams' = IF end < NFrames[s] THEN streams ELSE RemoveFirst(streams, s)
      /\ left' = Tail(left)
  BY DEF AudioMixStream, MixStream
<1> HIDE DEF s, d, end
<1>6. pos'[s] = end /\ pos' \in [Streams -> Nat] /\ \A t \in Streams : t # s => pos'[t] = pos[t]
  BY <1>1, <1>3, <1>4, <1>5
<1>7. CASE end < NFrames[s]
  <2>1. streams' = streams
    BY <1>5, <1>7
  <2>2. /\ streams' \in Seq(Streams) /\ Once(streams') /\ EndOf(left', streams')
        /\ left' \in Seq(Streams)
    BY <1>1, <1>2, <1>3, <1>5, <2>1
  <2>3. \A t : InMix(t)' <=> InMix(t)
    BY <2>1 DEF InMix
  <2>4. \A k \in 1..Len(streams') :
          \E j \in 1..Len(streams) :
            streams'[k] = streams[j] /\ (streams[j] = s => pos'[s] < NFrames[s])
    BY <1>6, <1>7, <2>1
  <2> QED BY <1>3, <1>4, <1>6, <1>7, <2>2, <2>3, <2>4 DEF s
<1>8. CASE ~(end < NFrames[s])
  <2>1. streams' = RemoveFirst(streams, streams[d])
    BY <1>2, <1>5, <1>8
  <2>2. RemoveFirst(streams, streams[d]) \in Seq(Streams)
    BY <1>1, <1>2, RemovedList
  <2>3. /\ Once(RemoveFirst(streams, streams[d]))
        /\ \A t : Contains(RemoveFirst(streams, streams[d]), t) <=> Contains(streams, t) /\ t # streams[d]
        /\ \A k \in 1..Len(RemoveFirst(streams, streams[d])) :
             \E j \in 1..Len(streams) : j # d /\ RemoveFirst(streams, streams[d])[k] = streams[j]
    <3>1. streams \in Seq(Streams) /\ Once(streams) /\ d \in 1..Len(streams)
      BY <1>1, <1>2
    <3> QED BY <3>1, RemovedMembers
  <2>4. \A t : InMix(t)' <=> Contains(RemoveFirst(streams, streams[d]), t)
    BY <2>1 DEF InMix
  <2>5. \A t : InMix(t)' <=> InMix(t) /\ t # s
    BY <1>2, <2>3, <2>4 DEF InMix
  <2>6. \A k \in 1..Len(streams') :
          \E j \in 1..Len(streams) : streams'[k] = streams[j] /\ streams[j] # s
    BY <1>1, <1>2, <2>1, <2>3 DEF Once
  <2>7. streams' \in Seq(Streams) /\ Once(streams') /\ EndOf(left', streams') /\ left' \in Seq(Streams)
    BY <1>2, <1>3, <1>5, <2>1, <2>2, <2>3
  <2> QED BY <1>3, <1>4, <1>6, <1>8, <2>5, <2>6, <2>7 DEF s
<1> QED BY <1>7, <1>8

-----------------------------------------------------------------------------
(* Nothing waits and nothing is mixed at the start.                        *)
LEMMA InitIInv == Init => IInv
<1> SUFFICES ASSUME Init PROVE IInv
  OBVIOUS
<1> USE DEF Init, PipeInit, MixerInit
<1>1. PlayTypeOK
  <2>1. intake \in Seq(Requests) /\ chamber \in Seq(Requests) /\ Len(chamber) = 0
        /\ streams \in Seq(Streams) /\ left \in Seq(Streams)
    OBVIOUS
  <2>2. iter \in 1..Len(chamber) + 1 /\ phase \in Phases
    BY <2>1 DEF Phases
  <2>3. pos \in [Streams -> Nat] /\ \A s \in Streams : pos[s] <= NFrames[s]
    BY MixerAssumption
  <2>4. volumes \in [Streams -> [Channels -> Volumes]]
    BY MixerAssumption
  <2>5. level \in [Streams -> Levels \cup {Unity}]
    OBVIOUS
  <2>6. /\ looping \in [Streams -> BOOLEAN]
        /\ playing \in [Streams -> BOOLEAN]
        /\ looped \in [Streams -> BOOLEAN]
        /\ checking \in Streams \cup {NoStream}
        /\ asked \in [Streams -> {"stop", "once", "loop"}]
        /\ denied \subseteq Streams
    OBVIOUS
  <2> QED BY <2>1, <2>2, <2>3, <2>4, <2>5, <2>6 DEF PlayTypeOK
<1>2. ListInv
  BY DEF ListInv, Once, EndOf
<1>3. Waiting = <<>>
  BY <1>1, WaitingIs
<1>4. \A mine : NoneIn(Waiting, mine)
  BY <1>3 DEF NoneIn
<1>5. \A s \in Streams : ~InMix(s)
  BY DEF InMix, Contains
<1>6. AskedInv
  BY <1>4, <1>5 DEF AskedInv, Granted
<1>7. LevelInv
  BY <1>4 DEF LevelInv, Tuned
<1>8. StatusInv
  BY <1>4, <1>5 DEF StatusInv, Told
<1> QED BY <1>1, <1>2, <1>6, <1>7, <1>8 DEF IInv

-----------------------------------------------------------------------------
(* ds_buffer_play: the command is the last about s, and asks for what      *)
(* asked[s] becomes.                                                       *)
LEMMA PlayKeeps ==
  ASSUME IInv, NEW s \in Streams, NEW loop \in BOOLEAN, Play(s, loop)
  PROVE  IInv'
<1> DEFINE v == [type |-> "play", stm |-> s, loop |-> loop]
<1>1. PlayTypeOK /\ ListInv /\ AskedInv /\ LevelInv /\ StatusInv
  BY DEF IInv
<1>2. v \in Requests /\ v.stm = s /\ v.type = "play" /\ v.loop = loop
  BY PlayRequest
<1>3. Command(v)
  BY DEF Play
<1> HIDE DEF v
<1>4. /\ Waiting' = Append(Waiting, v)
      /\ intake' \in Seq(Requests)
      /\ checking = NoStream
      /\ UNCHANGED <<chamber, iter, phase, streams, left, pos, looping, volumes, checking>>
  BY <1>1, <1>2, <1>3, CommandChanges
<1>5. /\ playing' = [playing EXCEPT ![s] = TRUE]
      /\ looped' = [looped EXCEPT ![s] = loop]
      /\ asked' = [asked EXCEPT ![s] = IF loop THEN "loop" ELSE "once"]
      /\ denied' = denied \ {s}
      /\ level' = level
  BY DEF Play
<1>6. Waiting \in Seq(Requests)
  BY <1>1, WaitingIs
<1>7. /\ playing'[s] = TRUE
      /\ asked'[s] = IF loop THEN "loop" ELSE "once"
      /\ \A t \in Streams : t # s => playing'[t] = playing[t] /\ asked'[t] = asked[t]
      /\ playing' \in [Streams -> BOOLEAN] /\ looped' \in [Streams -> BOOLEAN]
      /\ asked' \in [Streams -> {"stop", "once", "loop"}]
  BY <1>1, <1>5 DEF PlayTypeOK
<1>8. PlayTypeOK'
  BY <1>1, <1>4, <1>5, <1>7 DEF PlayTypeOK
<1>9. ListInv'
  BY <1>1, <1>4 DEF ListInv
<1>10. /\ v \in Asking(s, asked'[s]) /\ v \in Transports(s)
       /\ \A t : t # s => v \notin Transports(t)
       /\ \A t : v \notin Faders(t)
  <2>1. v \in Transports(s) /\ \A t : t # s => v \notin Transports(t)
    BY <1>2, RequestKinds
  <2>2. \A t : v \notin Faders(t)
    BY <1>2, RequestKinds
  <2>3. v \in Asking(s, asked'[s])
    BY <1>2, <1>7, <2>1 DEF Asking
  <2> QED BY <2>1, <2>2, <2>3
<1>11. \A t : InMix(t)' <=> InMix(t)
  BY <1>4 DEF InMix
<1>12. AskedInv'
  <2> SUFFICES ASSUME NEW t \in Streams
               PROVE \/ LastIn(Waiting', Transports(t), Asking(t, asked'[t]))
                     \/ NoneIn(Waiting', Transports(t)) /\ Granted(t)'
    BY DEF AskedInv
  <2>1. CASE t = s
    BY <2>1, <1>4, <1>6, <1>10, AppendGood
  <2>2. CASE t # s
    <3>1. Granted(t)' <=> Granted(t)
      BY <2>2, <1>4, <1>7, <1>11 DEF Granted
    <3>2. \/ LastIn(Waiting, Transports(t), Asking(t, asked[t]))
          \/ NoneIn(Waiting, Transports(t)) /\ Granted(t)
      BY <1>1 DEF AskedInv
    <3>3. asked'[t] = asked[t] /\ v \notin Transports(t)
      BY <2>2, <1>7, <1>10
    <3> QED BY <3>1, <3>2, <3>3, <1>4, <1>6, AppendNone, AppendLast
  <2> QED BY <2>1, <2>2
<1>13. LevelInv'
  <2> SUFFICES ASSUME NEW t \in Streams
               PROVE \/ level'[t] \in Levels /\ LastIn(Waiting', Faders(t), Setting(t, level'[t]))
                     \/ NoneIn(Waiting', Faders(t)) /\ Tuned(t)'
    BY DEF LevelInv
  <2>1. Tuned(t)' <=> Tuned(t)
    BY <1>4, <1>5 DEF Tuned
  <2>2. \/ level[t] \in Levels /\ LastIn(Waiting, Faders(t), Setting(t, level[t]))
        \/ NoneIn(Waiting, Faders(t)) /\ Tuned(t)
    BY <1>1 DEF LevelInv
  <2> QED BY <2>1, <2>2, <1>4, <1>5, <1>6, <1>10, AppendNone, AppendLast
<1>14. StatusInv'
  <2>1. checking' = NoStream
    BY <1>4
  <2>2. ASSUME NEW t \in Streams
        PROVE  /\ asked'[t] = "stop" => ~playing'[t]
               /\ \/ NoneIn(Waiting', Transports(t)) /\ Told(t)'
                  \/ /\ ~NoneIn(Waiting', Transports(t))
                     /\ asked'[t] # "stop" => playing'[t] \/ t \in denied'
    <3>1. CASE t = s
      <4>1. ~NoneIn(Waiting', Transports(t))
        BY <3>1, <1>4, <1>6, <1>10, AppendSome
      <4>2. asked'[t] # "stop" /\ playing'[t]
        BY <3>1, <1>7
      <4> QED BY <4>1, <4>2
    <3>2. CASE t # s
      <4>1. asked'[t] = asked[t] /\ playing'[t] = playing[t] /\ (t \in denied' <=> t \in denied)
        BY <3>2, <1>5, <1>7
      <4>2. Told(t)' <=> Told(t)
        BY <4>1, <1>4, <1>11 DEF Told
      <4>3. /\ asked[t] = "stop" => ~playing[t]
            /\ \/ NoneIn(Waiting, Transports(t)) /\ Told(t)
               \/ /\ ~NoneIn(Waiting, Transports(t))
                  /\ asked[t] # "stop" => playing[t] \/ t \in denied
        BY <1>1 DEF StatusInv
      <4>4. v \notin Transports(t)
        BY <3>2, <1>10
      <4> QED BY <4>1, <4>2, <4>3, <4>4, <1>4, <1>6, AppendNone, AppendSome
    <3> QED BY <3>1, <3>2
  <2> QED BY <2>1, <2>2 DEF StatusInv
<1> QED BY <1>8, <1>9, <1>12, <1>13, <1>14 DEF IInv

(* ds_buffer_stop, in the same way.                                        *)
LEMMA StopKeeps ==
  ASSUME IInv, NEW s \in Streams, Stop(s)
  PROVE  IInv'
<1> DEFINE v == [type |-> "stop", stm |-> s]
<1>1. PlayTypeOK /\ ListInv /\ AskedInv /\ LevelInv /\ StatusInv
  BY DEF IInv
<1>2. v \in Requests /\ v.stm = s /\ v.type = "stop"
  BY StopRequest
<1>3. Command(v)
  BY DEF Stop
<1> HIDE DEF v
<1>4. /\ Waiting' = Append(Waiting, v)
      /\ intake' \in Seq(Requests)
      /\ checking = NoStream
      /\ UNCHANGED <<chamber, iter, phase, streams, left, pos, looping, volumes, checking>>
  BY <1>1, <1>2, <1>3, CommandChanges
<1>5. /\ playing' = [playing EXCEPT ![s] = FALSE]
      /\ looped' = [looped EXCEPT ![s] = FALSE]
      /\ asked' = [asked EXCEPT ![s] = "stop"]
      /\ denied' = denied \ {s}
      /\ level' = level
  BY DEF Stop
<1>6. Waiting \in Seq(Requests)
  BY <1>1, WaitingIs
<1>7. /\ playing'[s] = FALSE
      /\ asked'[s] = "stop"
      /\ \A t \in Streams : t # s => playing'[t] = playing[t] /\ asked'[t] = asked[t]
      /\ playing' \in [Streams -> BOOLEAN] /\ looped' \in [Streams -> BOOLEAN]
      /\ asked' \in [Streams -> {"stop", "once", "loop"}]
  BY <1>1, <1>5 DEF PlayTypeOK
<1>8. PlayTypeOK'
  BY <1>1, <1>4, <1>5, <1>7 DEF PlayTypeOK
<1>9. ListInv'
  BY <1>1, <1>4 DEF ListInv
<1>10. /\ v \in Asking(s, asked'[s]) /\ v \in Transports(s)
       /\ \A t : t # s => v \notin Transports(t)
       /\ \A t : v \notin Faders(t)
  <2>1. v \in Transports(s) /\ \A t : t # s => v \notin Transports(t)
    BY <1>2, RequestKinds
  <2>2. \A t : v \notin Faders(t)
    BY <1>2, RequestKinds
  <2>3. v \in Asking(s, asked'[s])
    BY <1>2, <1>7, <2>1 DEF Asking
  <2> QED BY <2>1, <2>2, <2>3
<1>11. \A t : InMix(t)' <=> InMix(t)
  BY <1>4 DEF InMix
<1>12. AskedInv'
  <2> SUFFICES ASSUME NEW t \in Streams
               PROVE \/ LastIn(Waiting', Transports(t), Asking(t, asked'[t]))
                     \/ NoneIn(Waiting', Transports(t)) /\ Granted(t)'
    BY DEF AskedInv
  <2>1. CASE t = s
    BY <2>1, <1>4, <1>6, <1>10, AppendGood
  <2>2. CASE t # s
    <3>1. Granted(t)' <=> Granted(t)
      BY <2>2, <1>4, <1>7, <1>11 DEF Granted
    <3>2. \/ LastIn(Waiting, Transports(t), Asking(t, asked[t]))
          \/ NoneIn(Waiting, Transports(t)) /\ Granted(t)
      BY <1>1 DEF AskedInv
    <3>3. asked'[t] = asked[t] /\ v \notin Transports(t)
      BY <2>2, <1>7, <1>10
    <3> QED BY <3>1, <3>2, <3>3, <1>4, <1>6, AppendNone, AppendLast
  <2> QED BY <2>1, <2>2
<1>13. LevelInv'
  <2> SUFFICES ASSUME NEW t \in Streams
               PROVE \/ level'[t] \in Levels /\ LastIn(Waiting', Faders(t), Setting(t, level'[t]))
                     \/ NoneIn(Waiting', Faders(t)) /\ Tuned(t)'
    BY DEF LevelInv
  <2>1. Tuned(t)' <=> Tuned(t)
    BY <1>4, <1>5 DEF Tuned
  <2>2. \/ level[t] \in Levels /\ LastIn(Waiting, Faders(t), Setting(t, level[t]))
        \/ NoneIn(Waiting, Faders(t)) /\ Tuned(t)
    BY <1>1 DEF LevelInv
  <2> QED BY <2>1, <2>2, <1>4, <1>5, <1>6, <1>10, AppendNone, AppendLast
<1>14. StatusInv'
  <2>1. checking' = NoStream
    BY <1>4
  <2>2. ASSUME NEW t \in Streams
        PROVE  /\ asked'[t] = "stop" => ~playing'[t]
               /\ \/ NoneIn(Waiting', Transports(t)) /\ Told(t)'
                  \/ /\ ~NoneIn(Waiting', Transports(t))
                     /\ asked'[t] # "stop" => playing'[t] \/ t \in denied'
    <3>1. CASE t = s
      <4>1. ~NoneIn(Waiting', Transports(t))
        BY <3>1, <1>4, <1>6, <1>10, AppendSome
      <4>2. asked'[t] = "stop" /\ ~playing'[t]
        BY <3>1, <1>7
      <4> QED BY <4>1, <4>2
    <3>2. CASE t # s
      <4>1. asked'[t] = asked[t] /\ playing'[t] = playing[t] /\ (t \in denied' <=> t \in denied)
        BY <3>2, <1>5, <1>7
      <4>2. Told(t)' <=> Told(t)
        BY <4>1, <1>4, <1>11 DEF Told
      <4>3. /\ asked[t] = "stop" => ~playing[t]
            /\ \/ NoneIn(Waiting, Transports(t)) /\ Told(t)
               \/ /\ ~NoneIn(Waiting, Transports(t))
                  /\ asked[t] # "stop" => playing[t] \/ t \in denied
        BY <1>1 DEF StatusInv
      <4>4. v \notin Transports(t)
        BY <3>2, <1>10
      <4> QED BY <4>1, <4>2, <4>3, <4>4, <1>4, <1>6, AppendNone, AppendSome
    <3> QED BY <3>1, <3>2
  <2> QED BY <2>1, <2>2 DEF StatusInv
<1> QED BY <1>8, <1>9, <1>12, <1>13, <1>14 DEF IInv

(* ds_buffer_set_volume: the last volume command about s sets level[s] as  *)
(* a uint8_t.                                                              *)
LEMMA SetVolumeKeeps ==
  ASSUME IInv, NEW s \in Streams, NEW x \in Levels, SetVolume(s, x)
  PROVE  IInv'
<1> DEFINE v == [type |-> "set_volume", stm |-> s,
                 volumes |-> [ch \in Channels |-> Narrow(x)]]
<1>1. PlayTypeOK /\ ListInv /\ AskedInv /\ LevelInv /\ StatusInv
  BY DEF IInv
<1>2. /\ v \in Requests /\ v.stm = s /\ v.type = "set_volume"
      /\ v.volumes = [ch \in Channels |-> Narrow(x)]
  BY VolumeRequest
<1>3. Command(v)
  BY DEF SetVolume
<1> HIDE DEF v
<1>4. /\ Waiting' = Append(Waiting, v)
      /\ intake' \in Seq(Requests)
      /\ checking = NoStream
      /\ UNCHANGED <<chamber, iter, phase, streams, left, pos, looping, volumes, checking>>
  BY <1>1, <1>2, <1>3, CommandChanges
<1>5. /\ level' = [level EXCEPT ![s] = x]
      /\ UNCHANGED <<playing, looped, asked, denied>>
  BY DEF SetVolume
<1>6. Waiting \in Seq(Requests)
  BY <1>1, WaitingIs
<1>7. /\ level'[s] = x
      /\ \A t \in Streams : t # s => level'[t] = level[t]
      /\ level' \in [Streams -> Levels \cup {Unity}]
  BY <1>1, <1>5 DEF PlayTypeOK
<1>8. PlayTypeOK'
  BY <1>1, <1>4, <1>5, <1>7 DEF PlayTypeOK
<1>9. ListInv'
  BY <1>1, <1>4 DEF ListInv
<1>10. /\ v \in Setting(s, level'[s])
       /\ \A t : t # s => v \notin Faders(t)
       /\ \A t : v \notin Transports(t)
  <2>1. /\ \A t : v \in Faders(t) <=> v.stm = t /\ v.type = "set_volume"
        /\ \A t : v \in Transports(t) <=> v.stm = t /\ v.type \in {"play", "stop"}
    BY <1>2, RequestKinds
  <2>2. v \in Setting(s, x) <=>
          v \in Faders(s) /\ v.volumes = [ch \in Channels |-> Narrow(x)]
    BY <1>2, RequestKinds
  <2> QED BY <1>2, <1>7, <2>1, <2>2
<1>11. \A t : InMix(t)' <=> InMix(t)
  BY <1>4 DEF InMix
<1>12. AskedInv'
  <2> SUFFICES ASSUME NEW t \in Streams
               PROVE \/ LastIn(Waiting', Transports(t), Asking(t, asked'[t]))
                     \/ NoneIn(Waiting', Transports(t)) /\ Granted(t)'
    BY DEF AskedInv
  <2>1. Granted(t)' <=> Granted(t)
    BY <1>4, <1>5, <1>11 DEF Granted
  <2>2. \/ LastIn(Waiting, Transports(t), Asking(t, asked[t]))
        \/ NoneIn(Waiting, Transports(t)) /\ Granted(t)
    BY <1>1 DEF AskedInv
  <2> QED BY <2>1, <2>2, <1>4, <1>5, <1>6, <1>10, AppendNone, AppendLast
<1>13. LevelInv'
  <2> SUFFICES ASSUME NEW t \in Streams
               PROVE \/ level'[t] \in Levels /\ LastIn(Waiting', Faders(t), Setting(t, level'[t]))
                     \/ NoneIn(Waiting', Faders(t)) /\ Tuned(t)'
    BY DEF LevelInv
  <2>1. CASE t = s
    BY <2>1, <1>4, <1>6, <1>7, <1>10, AppendGood
  <2>2. CASE t # s
    <3>1. Tuned(t)' <=> Tuned(t)
      BY <2>2, <1>4, <1>7 DEF Tuned
    <3>2. \/ level[t] \in Levels /\ LastIn(Waiting, Faders(t), Setting(t, level[t]))
          \/ NoneIn(Waiting, Faders(t)) /\ Tuned(t)
      BY <1>1 DEF LevelInv
    <3>3. level'[t] = level[t] /\ v \notin Faders(t)
      BY <2>2, <1>7, <1>10
    <3> QED BY <3>1, <3>2, <3>3, <1>4, <1>6, AppendNone, AppendLast
  <2> QED BY <2>1, <2>2
<1>14. StatusInv'
  <2>1. checking' = NoStream
    BY <1>4
  <2>2. ASSUME NEW t \in Streams
        PROVE  /\ asked'[t] = "stop" => ~playing'[t]
               /\ \/ NoneIn(Waiting', Transports(t)) /\ Told(t)'
                  \/ /\ ~NoneIn(Waiting', Transports(t))
                     /\ asked'[t] # "stop" => playing'[t] \/ t \in denied'
    <3>1. Told(t)' <=> Told(t)
      BY <1>4, <1>5, <1>11 DEF Told
    <3>2. /\ asked[t] = "stop" => ~playing[t]
          /\ \/ NoneIn(Waiting, Transports(t)) /\ Told(t)
             \/ /\ ~NoneIn(Waiting, Transports(t))
                /\ asked[t] # "stop" => playing[t] \/ t \in denied
      BY <1>1 DEF StatusInv
    <3> QED BY <3>1, <3>2, <1>4, <1>5, <1>6, <1>10, AppendNone, AppendSome
  <2> QED BY <2>1, <2>2 DEF StatusInv
<1> QED BY <1>8, <1>9, <1>12, <1>13, <1>14 DEF IInv

(* The first half of GetStatus changes only `checking`.                    *)
LEMMA GetStatusKeeps ==
  ASSUME IInv, NEW s \in Streams, GetStatus(s)
  PROVE  IInv'
<1>1. PlayTypeOK /\ ListInv /\ AskedInv /\ LevelInv /\ StatusInv
  BY DEF IInv
<1>2. /\ playing[s] /\ checking' = s
      /\ UNCHANGED <<pipeVars, intake, chamber, iter, phase, streams, left, pos,
                     looping, volumes, playing, looped, asked, denied, level>>
  BY DEF GetStatus, pipeVars, mixerVars
<1>3. Waiting' = Waiting
  BY <1>1, <1>2, OthersWait
<1>4. \A t : InMix(t)' <=> InMix(t)
  BY <1>2 DEF InMix
<1>5. PlayTypeOK'
  BY <1>1, <1>2 DEF PlayTypeOK
<1>6. ListInv'
  BY <1>1, <1>2 DEF ListInv
<1>7. AskedInv'
  BY <1>1, <1>2, <1>3, <1>4 DEF AskedInv, Granted
<1>8. LevelInv'
  BY <1>1, <1>2, <1>3 DEF LevelInv, Tuned
<1>9. StatusInv'
  BY <1>1, <1>2, <1>3, <1>4 DEF StatusInv, Told
<1> QED BY <1>5, <1>6, <1>7, <1>8, <1>9 DEF IInv

(* A play among the commands under way is found by UnderWay.               *)
LEMMA PlayUnderWay ==
  ASSUME IInv, NEW s \in Streams, ~NoneIn(Waiting, Transports(s)), asked[s] # "stop"
  PROVE  \E v \in UnderWay(s) : v.type = "play"
<1>1. PlayTypeOK /\ AskedInv
  BY DEF IInv
<1>2. Waiting \in Seq(Requests)
  BY <1>1, WaitingIs
<1>3. LastIn(Waiting, Transports(s), Asking(s, asked[s]))
  BY <1>1 DEF AskedInv
<1>4. PICK k \in 1..Len(Waiting) : Waiting[k] \in Asking(s, asked[s])
  BY <1>3 DEF LastIn
<1>5. Waiting[k] \in Requests
  BY <1>2
<1>6. Waiting[k].stm = s /\ Waiting[k].type = "play"
  <2>1. /\ Waiting[k] \in Transports(s)
        /\ Waiting[k].type = "stop" => asked[s] = "stop"
    BY <1>4 DEF Asking
  <2> QED BY <2>1 DEF Transports
<1>7. DOMAIN Waiting = 1..Len(Waiting)
  BY <1>2
<1> QED BY <1>4, <1>6, <1>7 DEF UnderWay, ToSet

(* The second half of GetStatus: if it clears playing[s], either the       *)
(* stream has ended or a play is under way and s is denied.                *)
LEMMA GetStatusPositionKeeps ==
  ASSUME IInv, GetStatusPosition
  PROVE  IInv'
<1>1. PlayTypeOK /\ ListInv /\ AskedInv /\ LevelInv /\ StatusInv
  BY DEF IInv
<1>2. PICK s \in Streams : s = checking /\ playing[s] /\ asked[s] # "stop"
  BY <1>1 DEF GetStatusPosition, PlayTypeOK, StatusInv
<1>3. /\ checking' = NoStream
      /\ playing' = [playing EXCEPT ![s] = pos[s] < NFrames[s]]
      /\ denied' = IF ~playing'[s] /\ \E v \in UnderWay(s) : v.type = "play"
                   THEN denied \cup {s} ELSE denied
      /\ UNCHANGED <<pipeVars, intake, chamber, iter, phase, streams, left, pos,
                     looping, volumes, looped, asked, level>>
  BY <1>2 DEF GetStatusPosition, pipeVars, mixerVars
<1>4. Waiting' = Waiting
  BY <1>1, <1>3, OthersWait
<1>5. \A t : InMix(t)' <=> InMix(t)
  BY <1>3 DEF InMix
<1>6. /\ playing'[s] <=> pos[s] < NFrames[s]
      /\ \A t \in Streams : t # s => playing'[t] = playing[t]
      /\ playing' \in [Streams -> BOOLEAN]
      /\ denied' \subseteq Streams
  <2> DEFINE more == pos[s] < NFrames[s]
  <2>1. more \in BOOLEAN
    <3>1. pos[s] \in Int /\ NFrames[s] \in Int
      BY <1>1, MixerAssumption DEF PlayTypeOK
    <3> QED BY <3>1, SMT
  <2>2. playing' = [playing EXCEPT ![s] = more]
    BY <1>3
  <2>3. more <=> pos[s] < NFrames[s]
    OBVIOUS
  <2> HIDE DEF more
  <2>4. playing'[s] = more /\ \A t \in Streams : t # s => playing'[t] = playing[t]
    BY <1>1, <2>1, <2>2 DEF PlayTypeOK
  <2>5. playing' \in [Streams -> BOOLEAN]
    BY <1>1, <2>1, <2>2 DEF PlayTypeOK
  <2>6. denied' \subseteq Streams
    BY <1>1, <1>2, <1>3 DEF PlayTypeOK
  <2> QED BY <2>3, <2>4, <2>5, <2>6
<1>7. PlayTypeOK'
  BY <1>1, <1>3, <1>6 DEF PlayTypeOK
<1>8. ListInv'
  BY <1>1, <1>3 DEF ListInv
<1>9. AskedInv'
  BY <1>1, <1>3, <1>4, <1>5 DEF AskedInv, Granted
<1>10. LevelInv'
  BY <1>1, <1>3, <1>4 DEF LevelInv, Tuned
<1>11. StatusInv'
  <2>1. ASSUME NEW t \in Streams
        PROVE  /\ asked'[t] = "stop" => ~playing'[t]
               /\ \/ NoneIn(Waiting', Transports(t)) /\ Told(t)'
                  \/ /\ ~NoneIn(Waiting', Transports(t))
                     /\ asked'[t] # "stop" => playing'[t] \/ t \in denied'
    <3>1. /\ asked[t] = "stop" => ~playing[t]
          /\ \/ NoneIn(Waiting, Transports(t)) /\ Told(t)
             \/ /\ ~NoneIn(Waiting, Transports(t))
                /\ asked[t] # "stop" => playing[t] \/ t \in denied
      BY <1>1 DEF StatusInv
    <3>2. CASE t # s
      <4>1. playing'[t] = playing[t] /\ (t \in denied' <=> t \in denied) /\ asked'[t] = asked[t]
        BY <3>2, <1>3, <1>6
      <4>2. Told(t)' <=> Told(t)
        BY <4>1, <1>3, <1>5 DEF Told
      <4> QED BY <3>1, <4>1, <4>2, <1>4
    <3>3. CASE t = s /\ ~NoneIn(Waiting, Transports(t))
      <4>1. \E v \in UnderWay(s) : v.type = "play"
        BY <3>3, <1>2, PlayUnderWay
      <4>2. playing'[s] \/ s \in denied'
        BY <4>1, <1>3
      <4> QED BY <3>3, <4>2, <1>2, <1>3, <1>4
    <3>4. CASE t = s /\ NoneIn(Waiting, Transports(t))
      <4>1. Told(s)
        BY <3>1, <3>4
      <4>2. InMix(s) => pos[s] < NFrames[s]
        BY <1>1 DEF ListInv, InMix, Contains
      <4>3. pos[s] < NFrames[s] => pos[s] # NFrames[s]
        BY <1>1, <1>2, MixerAssumption DEF PlayTypeOK
      <4>4. Told(s)'
        BY <4>1, <4>2, <4>3, <1>2, <1>3, <1>5, <1>6 DEF Told
      <4> QED BY <3>4, <4>4, <1>2, <1>3, <1>4
    <3> QED BY <3>2, <3>3, <3>4
  <2> QED BY <2>1, <1>3 DEF StatusInv
<1> QED BY <1>7, <1>8, <1>9, <1>10, <1>11 DEF IInv

(* Steps that only move the audio thread along, and the start of a mix.    *)
LEMMA MovesKeep ==
  ASSUME IInv, Moves
  PROVE  IInv'
<1>1. PlayTypeOK /\ ListInv /\ AskedInv /\ LevelInv /\ StatusInv
  BY DEF IInv
<1>2. phase # "mix" => left = <<>>
  BY <1>1 DEF ListInv
<1>3. /\ Waiting' = Waiting
      /\ intake' \in Seq(Requests) /\ chamber' \in Seq(Requests)
      /\ iter' \in 1..Len(chamber') + 1 /\ phase' \in Phases
      /\ phase' # "mix" => left' = <<>>
      /\ UNCHANGED <<streams, left, pos, looping, volumes, playing, looped,
                     checking, asked, denied, level>>
  BY <1>1, <1>2, MovesChange
<1>4. \A t : InMix(t)' <=> InMix(t)
  BY <1>3 DEF InMix
<1>5. PlayTypeOK'
  BY <1>1, <1>3 DEF PlayTypeOK
<1>6. ListInv'
  BY <1>1, <1>3 DEF ListInv
<1>7. AskedInv'
  BY <1>1, <1>3, <1>4 DEF AskedInv, Granted
<1>8. LevelInv'
  BY <1>1, <1>3 DEF LevelInv, Tuned
<1>9. StatusInv'
  BY <1>1, <1>3, <1>4 DEF StatusInv, Told
<1> QED BY <1>5, <1>6, <1>7, <1>8, <1>9 DEF IInv

(* The iterator starts with the whole list to visit.                       *)
LEMMA StartMixKeeps ==
  ASSUME IInv, AudioStartMix
  PROVE  IInv'
<1>1. PlayTypeOK /\ ListInv /\ AskedInv /\ LevelInv /\ StatusInv
  BY DEF IInv
<1>2. /\ StartMix /\ phase' = "mix" /\ left' = streams
      /\ UNCHANGED <<intake, chamber, iter, streams, pos, looping, volumes,
                     playing, looped, checking, asked, denied, level>>
  BY DEF AudioStartMix, StartMix, BeginMix, flagVars
<1>3. Waiting' = Waiting
  BY <1>1, <1>2, OthersWait
<1>4. \A t : InMix(t)' <=> InMix(t)
  BY <1>2 DEF InMix
<1>5. PlayTypeOK'
  BY <1>1, <1>2 DEF PlayTypeOK, Phases
<1>6. ListInv'
  <2>1. EndOf(streams, streams)
    <3>1. Len(streams) \in Nat
      BY <1>1 DEF PlayTypeOK
    <3>2. \A k \in 1..Len(streams) : Len(streams) - Len(streams) + k = k
      BY <3>1
    <3> QED BY <3>1, <3>2 DEF EndOf
  <2> QED BY <2>1, <1>1, <1>2 DEF ListInv
<1>7. AskedInv'
  BY <1>1, <1>2, <1>3, <1>4 DEF AskedInv, Granted
<1>8. LevelInv'
  BY <1>1, <1>2, <1>3 DEF LevelInv, Tuned
<1>9. StatusInv'
  BY <1>1, <1>2, <1>3, <1>4 DEF StatusInv, Told
<1> QED BY <1>5, <1>6, <1>7, <1>8, <1>9 DEF IInv

-----------------------------------------------------------------------------
(* The loop flag stored for a play command that is yet to be executed: what*)
(* is claimed of its stream is that command's, or a later one's.           *)
LEMMA SetLoopingKeeps ==
  ASSUME IInv, AudioSetLooping
  PROVE  IInv'
<1>1. PlayTypeOK /\ ListInv /\ AskedInv /\ LevelInv /\ StatusInv
  BY DEF IInv
<1>2. /\ AtCommand("exec") /\ Current.type = "play"
      /\ looping' = [looping EXCEPT ![Current.stm] = Current.loop]
      /\ UNCHANGED <<intake, chamber, iter, phase, streams, left, pos, volumes,
                     playing, looped, checking, asked, denied, level>>
  BY DEF AudioSetLooping, SetLooping, pipeVars, flagVars
<1>3. Current \in Requests /\ Waiting # <<>> /\ Current = Head(Waiting)
  BY <1>1, <1>2, CurrentWaits
<1>4. PICK v \in Requests : v = Current /\ v.type = "play" /\ v = Head(Waiting)
  BY <1>2, <1>3
<1>5. PICK s \in Streams : s = v.stm
  BY RequestTypes
<1>6. PICK loop \in BOOLEAN : loop = v.loop
  BY <1>4, RequestTypes
<1>7. /\ \A t \in Streams : t # s => looping'[t] = looping[t]
      /\ looping' \in [Streams -> BOOLEAN]
  <2>1. looping' = [looping EXCEPT ![s] = loop] /\ looping \in [Streams -> BOOLEAN]
    BY <1>1, <1>2, <1>4, <1>5, <1>6 DEF PlayTypeOK
  <2> QED BY <2>1
<1>8. Waiting' = Waiting /\ \A t : InMix(t)' <=> InMix(t)
  BY <1>2 DEF Waiting, InMix
<1>9. ~NoneIn(Waiting, Transports(s))
  <2>1. v \in Transports(s)
    BY <1>4, <1>5, RequestKinds
  <2> QED BY <1>1, <1>3, <1>4, <2>1, WaitingIs, HeadFirst DEF NoneIn
<1>10. PlayTypeOK'
  BY <1>1, <1>2, <1>7 DEF PlayTypeOK
<1>11. ListInv'
  BY <1>1, <1>2 DEF ListInv
<1>12. AskedInv'
  <2> SUFFICES ASSUME NEW t \in Streams
               PROVE \/ LastIn(Waiting', Transports(t), Asking(t, asked'[t]))
                     \/ NoneIn(Waiting', Transports(t)) /\ Granted(t)'
    BY DEF AskedInv
  <2>1. \/ LastIn(Waiting, Transports(t), Asking(t, asked[t]))
        \/ NoneIn(Waiting, Transports(t)) /\ Granted(t)
    BY <1>1 DEF AskedInv
  <2>2. CASE t = s
    BY <1>2, <1>8, <1>9, <2>1, <2>2
  <2>3. CASE t # s
    <3>1. Granted(t)' <=> Granted(t)
      BY <1>2, <1>7, <1>8, <2>3 DEF Granted
    <3> QED BY <1>2, <1>8, <2>1, <3>1
  <2> QED BY <2>2, <2>3
<1>13. LevelInv'
  BY <1>1, <1>2, <1>8 DEF LevelInv, Tuned
<1>14. StatusInv'
  BY <1>1, <1>2, <1>8 DEF StatusInv, Told
<1> QED BY <1>10, <1>11, <1>12, <1>13, <1>14 DEF IInv

(* A play command executed: what is claimed of its stream was claimed of   *)
(* it as the last waiting command, or still is of a later one.             *)
LEMMA ExecutePlayKeeps ==
  ASSUME IInv, Execute, UNCHANGED flagVars,
         Current.type = "play", PlayStream(Current.stm, Current.loop)
  PROVE  IInv'
<1>1. PlayTypeOK /\ ListInv /\ AskedInv /\ LevelInv /\ StatusInv
  BY DEF IInv
<1>2. /\ Current \in Requests
      /\ Waiting # <<>> /\ Current = Head(Waiting) /\ Waiting' = Tail(Waiting)
      /\ phase = "exec" /\ phase' = "exec"
      /\ iter' \in 1..Len(chamber') + 1
      /\ UNCHANGED <<intake, chamber>>
  BY <1>1, ExecuteChanges
<1>3. PICK v \in Requests : v = Current
  BY <1>2
<1>4. PICK s \in Streams : s = v.stm
  BY RequestTypes
<1>5. PICK loop \in BOOLEAN : loop = v.loop
  BY <1>3, RequestTypes
<1>6. v.type = "play" /\ v = Head(Waiting) /\ PlayStream(s, loop)
  BY <1>2, <1>3, <1>4, <1>5
<1>7. UNCHANGED <<playing, looped, checking, asked, denied, level>>
  BY DEF flagVars
<1>8. /\ looping[s] = loop /\ looping' = looping
      /\ pos' = [pos EXCEPT ![s] = 0]
      /\ left' = left /\ volumes' = volumes
  BY <1>6 DEF PlayStream
<1>9. /\ looping'[s] = loop /\ pos'[s] = 0 /\ 0 < NFrames[s] /\ 0 <= NFrames[s]
      /\ \A t \in Streams : t # s => looping'[t] = looping[t] /\ pos'[t] = pos[t]
      /\ looping' \in [Streams -> BOOLEAN] /\ pos' \in [Streams -> Nat]
  <2>1. NFrames[s] \in Nat \ {0}
    BY MixerAssumption
  <2>2. pos \in [Streams -> Nat] /\ looping \in [Streams -> BOOLEAN]
    BY <1>1 DEF PlayTypeOK
  <2>3. looping'[s] = loop /\ \A t \in Streams : t # s => looping'[t] = looping[t]
    BY <1>8, <2>2
  <2>4. pos'[s] = 0 /\ \A t \in Streams : t # s => pos'[t] = pos[t]
    BY <1>8, <2>2
  <2>5. looping' \in [Streams -> BOOLEAN]
    BY <1>8, <2>2
  <2>6. pos' \in [Streams -> Nat]
    BY <1>8, <2>2
  <2> QED BY <2>1, <2>3, <2>4, <2>5, <2>6
<1>10. /\ streams' \in Seq(Streams)
       /\ Once(streams')
       /\ \A t : InMix(t)' <=> InMix(t) \/ t = s
       /\ \A k \in 1..Len(streams') :
            (\E j \in 1..Len(streams) : streams'[k] = streams[j]) \/ streams'[k] = s
  BY <1>1, <1>6, PlayChanges DEF ListInv
<1>11. Waiting \in Seq(Requests)
  BY <1>1, WaitingIs
<1>12. /\ v \in Transports(s)
       /\ \A t : t # s => v \notin Transports(t)
       /\ \A t : v \notin Faders(t)
  <2>1. v \in Transports(s) /\ \A t : t # s => v \notin Transports(t)
    BY <1>4, <1>6, RequestKinds
  <2>2. \A t : v \notin Faders(t)
    BY <1>4, <1>6, RequestKinds
  <2> QED BY <2>1, <2>2
<1>13. v \in Asking(s, asked[s]) => asked[s] = IF loop THEN "loop" ELSE "once"
  BY <1>5, <1>6, RequestKinds
<1>14. PlayTypeOK'
  <2>1. \A t \in Streams : pos'[t] <= NFrames[t]
    BY <1>1, <1>9 DEF PlayTypeOK
  <2> QED BY <2>1, <1>1, <1>2, <1>7, <1>8, <1>9, <1>10 DEF PlayTypeOK, Phases
<1>15. ListInv'
  <2>1. left = <<>> /\ left' = <<>>
    BY <1>1, <1>2, <1>8 DEF ListInv
  <2>2. EndOf(left', streams')
    <3>1. Len(streams') \in Nat
      BY <1>10
    <3> QED BY <2>1, <3>1 DEF EndOf
  <2>3. ASSUME NEW k \in 1..Len(streams') PROVE pos'[streams'[k]] < NFrames[streams'[k]]
    <3>1. CASE streams'[k] = s
      BY <3>1, <1>9
    <3>2. CASE streams'[k] # s
      <4>1. PICK j \in 1..Len(streams) : streams'[k] = streams[j]
        BY <3>2, <1>10
      <4>2. pos[streams[j]] < NFrames[streams[j]] /\ streams[j] \in Streams
        BY <1>1 DEF ListInv, PlayTypeOK
      <4> QED BY <3>2, <4>1, <4>2, <1>9
    <3> QED BY <3>1, <3>2
  <2> QED BY <2>1, <2>2, <2>3, <1>10 DEF ListInv
<1>16. AskedInv'
  <2> SUFFICES ASSUME NEW t \in Streams
               PROVE \/ LastIn(Waiting', Transports(t), Asking(t, asked'[t]))
                     \/ NoneIn(Waiting', Transports(t)) /\ Granted(t)'
    BY DEF AskedInv
  <2>1. \/ LastIn(Waiting, Transports(t), Asking(t, asked[t]))
        \/ NoneIn(Waiting, Transports(t)) /\ Granted(t)
    BY <1>1 DEF AskedInv
  <2>2. CASE t = s
    <3>1. LastIn(Waiting, Transports(t), Asking(t, asked[t]))
      BY <2>1, <2>2, <1>2, <1>6, <1>11, <1>12, TailNone
    <3>2. \/ LastIn(Waiting', Transports(t), Asking(t, asked'[t]))
          \/ v \in Asking(s, asked[s]) /\ NoneIn(Waiting', Transports(t))
      BY <3>1, <2>2, <1>2, <1>6, <1>7, <1>11, TailLast
    <3>3. v \in Asking(s, asked[s]) => Granted(t)'
      BY <2>2, <1>7, <1>9, <1>10, <1>13 DEF Granted
    <3> QED BY <3>2, <3>3
  <2>3. CASE t # s
    <3>1. Granted(t)' <=> Granted(t)
      BY <2>3, <1>7, <1>9, <1>10 DEF Granted
    <3>2. v \notin Asking(t, asked[t])
      BY <2>3, <1>12, GoodIsMine
    <3> QED BY <2>1, <3>1, <3>2, <1>2, <1>6, <1>7, <1>11, TailNone, TailLast
  <2> QED BY <2>2, <2>3
<1>17. LevelInv'
  <2> SUFFICES ASSUME NEW t \in Streams
               PROVE \/ level'[t] \in Levels /\ LastIn(Waiting', Faders(t), Setting(t, level'[t]))
                     \/ NoneIn(Waiting', Faders(t)) /\ Tuned(t)'
    BY DEF LevelInv
  <2>1. Tuned(t)' <=> Tuned(t)
    BY <1>7, <1>8 DEF Tuned
  <2>2. \/ level[t] \in Levels /\ LastIn(Waiting, Faders(t), Setting(t, level[t]))
        \/ NoneIn(Waiting, Faders(t)) /\ Tuned(t)
    BY <1>1 DEF LevelInv
  <2>3. v \notin Setting(t, level[t])
    BY <1>12, GoodIsMine
  <2> QED BY <2>1, <2>2, <2>3, <1>2, <1>6, <1>7, <1>11, TailNone, TailLast
<1>18. StatusInv'
  <2>1. checking' # NoStream => playing'[checking']
    BY <1>1, <1>7 DEF StatusInv
  <2>2. ASSUME NEW t \in Streams
        PROVE  /\ asked'[t] = "stop" => ~playing'[t]
               /\ \/ NoneIn(Waiting', Transports(t)) /\ Told(t)'
                  \/ /\ ~NoneIn(Waiting', Transports(t))
                     /\ asked'[t] # "stop" => playing'[t] \/ t \in denied'
    <3>1. /\ asked[t] = "stop" => ~playing[t]
          /\ \/ NoneIn(Waiting, Transports(t)) /\ Told(t)
             \/ /\ ~NoneIn(Waiting, Transports(t))
                /\ asked[t] # "stop" => playing[t] \/ t \in denied
      BY <1>1 DEF StatusInv
    <3>2. CASE t = s
      <4>1. ~NoneIn(Waiting, Transports(t))
        BY <3>2, <1>2, <1>6, <1>11, <1>12, TailNone
      <4>2. CASE ~NoneIn(Waiting', Transports(t))
        BY <3>1, <4>1, <4>2, <1>7
      <4>3. CASE NoneIn(Waiting', Transports(t))
        <5>1. \/ LastIn(Waiting, Transports(t), Asking(t, asked[t]))
              \/ NoneIn(Waiting, Transports(t)) /\ Granted(t)
          BY <1>1 DEF AskedInv
        <5>2. LastIn(Waiting', Transports(t), Asking(t, asked[t])) \/ v \in Asking(t, asked[t])
          BY <4>1, <5>1, <1>2, <1>6, <1>11, TailLast
        <5>3. v \in Asking(t, asked[t])
          BY <4>3, <5>2, GoodIsMine, LastNotNone
        <5>4. asked[t] # "stop"
          BY <5>3, <3>2, <1>13
        <5>5. Told(t)'
          BY <5>4, <4>1, <3>1, <3>2, <1>7, <1>10 DEF Told
        <5> QED BY <3>1, <4>3, <5>5, <1>7
      <4> QED BY <4>2, <4>3
    <3>3. CASE t # s
      <4>1. Told(t)' <=> Told(t)
        BY <3>3, <1>7, <1>9, <1>10 DEF Told
      <4>2. NoneIn(Waiting', Transports(t)) <=> NoneIn(Waiting, Transports(t))
        BY <3>3, <1>2, <1>6, <1>11, <1>12, TailNone, TailSome
      <4> QED BY <3>1, <4>1, <4>2, <1>7
    <3> QED BY <3>2, <3>3
  <2> QED BY <2>1, <2>2 DEF StatusInv
<1> QED BY <1>14, <1>15, <1>16, <1>17, <1>18 DEF IInv

(* A stop command executed, in the same way.                               *)
LEMMA ExecuteStopKeeps ==
  ASSUME IInv, Execute, UNCHANGED flagVars,
         Current.type = "stop", StopStream(Current.stm)
  PROVE  IInv'
<1>1. PlayTypeOK /\ ListInv /\ AskedInv /\ LevelInv /\ StatusInv
  BY DEF IInv
<1>2. /\ Current \in Requests
      /\ Waiting # <<>> /\ Current = Head(Waiting) /\ Waiting' = Tail(Waiting)
      /\ phase = "exec" /\ phase' = "exec"
      /\ iter' \in 1..Len(chamber') + 1
      /\ UNCHANGED <<intake, chamber>>
  BY <1>1, ExecuteChanges
<1>3. PICK v \in Requests : v = Current
  BY <1>2
<1>4. PICK s \in Streams : s = v.stm
  BY RequestTypes
<1>5. v.type = "stop" /\ v = Head(Waiting) /\ StopStream(s)
  BY <1>2, <1>3, <1>4
<1>6. UNCHANGED <<playing, looped, checking, asked, denied, level>>
  BY DEF flagVars
<1>7. UNCHANGED <<left, pos, looping, volumes>>
  BY <1>5 DEF StopStream
<1>8. /\ streams' \in Seq(Streams)
      /\ Once(streams')
      /\ \A t : InMix(t)' <=> InMix(t) /\ t # s
      /\ \A k \in 1..Len(streams') :
           \E j \in 1..Len(streams) : streams'[k] = streams[j]
  BY <1>1, <1>5, StopChanges DEF ListInv
<1>9. Waiting \in Seq(Requests)
  BY <1>1, WaitingIs
<1>10. /\ v \in Transports(s)
       /\ \A t : t # s => v \notin Transports(t)
       /\ \A t : v \notin Faders(t)
  <2>1. v \in Transports(s) /\ \A t : t # s => v \notin Transports(t)
    BY <1>4, <1>5, RequestKinds
  <2>2. \A t : v \notin Faders(t)
    BY <1>4, <1>5, RequestKinds
  <2> QED BY <2>1, <2>2
<1>11. v \in Asking(s, asked[s]) => asked[s] = "stop"
  BY <1>5, RequestKinds
<1>12. PlayTypeOK'
  BY <1>1, <1>2, <1>6, <1>7, <1>8 DEF PlayTypeOK
<1>13. ListInv'
  <2>1. left = <<>> /\ left' = <<>>
    BY <1>1, <1>2, <1>7 DEF ListInv
  <2>2. EndOf(left', streams')
    <3>1. Len(streams') \in Nat
      BY <1>8
    <3> QED BY <2>1, <3>1 DEF EndOf
  <2>3. ASSUME NEW k \in 1..Len(streams') PROVE pos'[streams'[k]] < NFrames[streams'[k]]
    <3>1. PICK j \in 1..Len(streams) : streams'[k] = streams[j]
      BY <1>8
    <3> QED BY <3>1, <1>1, <1>7 DEF ListInv
  <2> QED BY <2>1, <2>2, <2>3, <1>8 DEF ListInv
<1>14. AskedInv'
  <2> SUFFICES ASSUME NEW t \in Streams
               PROVE \/ LastIn(Waiting', Transports(t), Asking(t, asked'[t]))
                     \/ NoneIn(Waiting', Transports(t)) /\ Granted(t)'
    BY DEF AskedInv
  <2>1. \/ LastIn(Waiting, Transports(t), Asking(t, asked[t]))
        \/ NoneIn(Waiting, Transports(t)) /\ Granted(t)
    BY <1>1 DEF AskedInv
  <2>2. CASE t = s
    <3>1. LastIn(Waiting, Transports(t), Asking(t, asked[t]))
      BY <2>1, <2>2, <1>2, <1>5, <1>9, <1>10, TailNone
    <3>2. \/ LastIn(Waiting', Transports(t), Asking(t, asked'[t]))
          \/ v \in Asking(s, asked[s]) /\ NoneIn(Waiting', Transports(t))
      BY <3>1, <2>2, <1>2, <1>5, <1>6, <1>9, TailLast
    <3>3. v \in Asking(s, asked[s]) => Granted(t)'
      BY <2>2, <1>6, <1>8, <1>11 DEF Granted
    <3> QED BY <3>2, <3>3
  <2>3. CASE t # s
    <3>1. Granted(t)' <=> Granted(t)
      BY <2>3, <1>6, <1>7, <1>8 DEF Granted
    <3>2. v \notin Asking(t, asked[t])
      BY <2>3, <1>10, GoodIsMine
    <3> QED BY <2>1, <3>1, <3>2, <1>2, <1>5, <1>6, <1>9, TailNone, TailLast
  <2> QED BY <2>2, <2>3
<1>15. LevelInv'
  <2> SUFFICES ASSUME NEW t \in Streams
               PROVE \/ level'[t] \in Levels /\ LastIn(Waiting', Faders(t), Setting(t, level'[t]))
                     \/ NoneIn(Waiting', Faders(t)) /\ Tuned(t)'
    BY DEF LevelInv
  <2>1. Tuned(t)' <=> Tuned(t)
    BY <1>6, <1>7 DEF Tuned
  <2>2. \/ level[t] \in Levels /\ LastIn(Waiting, Faders(t), Setting(t, level[t]))
        \/ NoneIn(Waiting, Faders(t)) /\ Tuned(t)
    BY <1>1 DEF LevelInv
  <2>3. v \notin Setting(t, level[t])
    BY <1>10, GoodIsMine
  <2> QED BY <2>1, <2>2, <2>3, <1>2, <1>5, <1>6, <1>9, TailNone, TailLast
<1>16. StatusInv'
  <2>1. checking' # NoStream => playing'[checking']
    BY <1>1, <1>6 DEF StatusInv
  <2>2. ASSUME NEW t \in Streams
        PROVE  /\ asked'[t] = "stop" => ~playing'[t]
               /\ \/ NoneIn(Waiting', Transports(t)) /\ Told(t)'
                  \/ /\ ~NoneIn(Waiting', Transports(t))
                     /\ asked'[t] # "stop" => playing'[t] \/ t \in denied'
    <3>1. /\ asked[t] = "stop" => ~playing[t]
          /\ \/ NoneIn(Waiting, Transports(t)) /\ Told(t)
             \/ /\ ~NoneIn(Waiting, Transports(t))
                /\ asked[t] # "stop" => playing[t] \/ t \in denied
      BY <1>1 DEF StatusInv
    <3>2. CASE t = s
      <4>1. ~NoneIn(Waiting, Transports(t))
        BY <3>2, <1>2, <1>5, <1>9, <1>10, TailNone
      <4>2. CASE ~NoneIn(Waiting', Transports(t))
        BY <3>1, <4>1, <4>2, <1>6
      <4>3. CASE NoneIn(Waiting', Transports(t))
        <5>1. \/ LastIn(Waiting, Transports(t), Asking(t, asked[t]))
              \/ NoneIn(Waiting, Transports(t)) /\ Granted(t)
          BY <1>1 DEF AskedInv
        <5>2. LastIn(Waiting', Transports(t), Asking(t, asked[t])) \/ v \in Asking(t, asked[t])
          BY <4>1, <5>1, <1>2, <1>5, <1>9, TailLast
        <5>3. v \in Asking(t, asked[t])
          BY <4>3, <5>2, GoodIsMine, LastNotNone
        <5>4. asked[t] = "stop" /\ ~playing'[t]
          BY <5>3, <3>1, <3>2, <1>6, <1>11
        <5>5. Told(t)'
          BY <5>4, <3>2, <1>8 DEF Told
        <5> QED BY <3>1, <4>3, <5>5, <1>6
      <4> QED BY <4>2, <4>3
    <3>3. CASE t # s
      <4>1. Told(t)' <=> Told(t)
        BY <3>3, <1>6, <1>7, <1>8 DEF Told
      <4>2. NoneIn(Waiting', Transports(t)) <=> NoneIn(Waiting, Transports(t))
        BY <3>3, <1>2, <1>5, <1>9, <1>10, TailNone, TailSome
      <4> QED BY <3>1, <4>1, <4>2, <1>6
    <3> QED BY <3>2, <3>3
  <2> QED BY <2>1, <2>2 DEF StatusInv
<1> QED BY <1>12, <1>13, <1>14, <1>15, <1>16 DEF IInv

(* What snd_command_set_volume's uint8_t makes of a level.                 *)
LEMMA Narrowed ==
  ASSUME PlayTypeOK, NEW s \in Streams
  PROVE  level[s] \in Levels => Narrow(level[s]) = level[s] \/ (level[s] = 256 /\ Narrow(level[s]) = 0)
<1> SUFFICES ASSUME level[s] \in Levels
             PROVE Narrow(level[s]) = level[s] \/ (level[s] = 256 /\ Narrow(level[s]) = 0)
  OBVIOUS
<1>1. level[s] \in 0..256
  BY PlaybackAssumption
<1> QED BY <1>1, SMT DEF Narrow

(* A volume command executed: both channels get what it says.              *)
LEMMA ExecuteVolumeKeeps ==
  ASSUME IInv, Execute, UNCHANGED flagVars,
         Current.type = "set_volume", SetStreamVolumes(Current.stm, Current.volumes)
  PROVE  IInv'
<1>1. PlayTypeOK /\ ListInv /\ AskedInv /\ LevelInv /\ StatusInv
  BY DEF IInv
<1>2. /\ Current \in Requests
      /\ Waiting # <<>> /\ Current = Head(Waiting) /\ Waiting' = Tail(Waiting)
      /\ phase = "exec" /\ phase' = "exec"
      /\ iter' \in 1..Len(chamber') + 1
      /\ UNCHANGED <<intake, chamber>>
  BY <1>1, ExecuteChanges
<1>3. PICK v \in Requests : v = Current
  BY <1>2
<1>4. PICK s \in Streams : s = v.stm
  BY RequestTypes
<1>5. /\ v.type = "set_volume" /\ v = Head(Waiting) /\ SetStreamVolumes(s, v.volumes)
      /\ v.volumes \in [Channels -> Volumes]
  BY <1>2, <1>3, <1>4, RequestTypes
<1>6. UNCHANGED <<playing, looped, checking, asked, denied, level>>
  BY DEF flagVars
<1>7. /\ volumes' = [volumes EXCEPT ![s] = v.volumes]
      /\ UNCHANGED <<streams, left, pos, looping>>
  BY <1>5 DEF SetStreamVolumes
<1>8. /\ volumes'[s] = v.volumes
      /\ \A t \in Streams : t # s => volumes'[t] = volumes[t]
      /\ volumes' \in [Streams -> [Channels -> Volumes]]
  BY <1>1, <1>5, <1>7 DEF PlayTypeOK
<1>9. Waiting \in Seq(Requests)
  BY <1>1, WaitingIs
<1>10. /\ v \in Faders(s)
       /\ \A t : t # s => v \notin Faders(t)
       /\ \A t : v \notin Transports(t)
  <2>1. /\ \A t : v \in Faders(t) <=> v.stm = t /\ v.type = "set_volume"
        /\ \A t : v \in Transports(t) <=> v.stm = t /\ v.type \in {"play", "stop"}
    BY RequestKinds
  <2> QED BY <1>4, <1>5, <2>1
<1>11. v \in Setting(s, level[s]) =>
         \A ch \in Channels : volumes'[s][ch] = Narrow(level[s])
  BY <1>8 DEF Setting
<1>12. PlayTypeOK'
  BY <1>1, <1>2, <1>6, <1>7, <1>8 DEF PlayTypeOK
<1>13. ListInv'
  BY <1>1, <1>2, <1>7 DEF ListInv
<1>14. \A t : InMix(t)' <=> InMix(t)
  BY <1>7 DEF InMix
<1>15. AskedInv'
  <2> SUFFICES ASSUME NEW t \in Streams
               PROVE \/ LastIn(Waiting', Transports(t), Asking(t, asked'[t]))
                     \/ NoneIn(Waiting', Transports(t)) /\ Granted(t)'
    BY DEF AskedInv
  <2>1. Granted(t)' <=> Granted(t)
    BY <1>6, <1>7, <1>14 DEF Granted
  <2>2. \/ LastIn(Waiting, Transports(t), Asking(t, asked[t]))
        \/ NoneIn(Waiting, Transports(t)) /\ Granted(t)
    BY <1>1 DEF AskedInv
  <2>3. v \notin Asking(t, asked[t])
    BY <1>10, GoodIsMine
  <2> QED BY <2>1, <2>2, <2>3, <1>2, <1>5, <1>6, <1>9, TailNone, TailLast
<1>16. LevelInv'
  <2> SUFFICES ASSUME NEW t \in Streams
               PROVE \/ level'[t] \in Levels /\ LastIn(Waiting', Faders(t), Setting(t, level'[t]))
                     \/ NoneIn(Waiting', Faders(t)) /\ Tuned(t)'
    BY DEF LevelInv
  <2>1. \/ level[t] \in Levels /\ LastIn(Waiting, Faders(t), Setting(t, level[t]))
        \/ NoneIn(Waiting, Faders(t)) /\ Tuned(t)
    BY <1>1 DEF LevelInv
  <2>2. CASE t = s
    <3>1. level[t] \in Levels /\ LastIn(Waiting, Faders(t), Setting(t, level[t]))
      BY <2>1, <2>2, <1>2, <1>5, <1>9, <1>10, TailNone
    <3>2. \/ level'[t] \in Levels /\ LastIn(Waiting', Faders(t), Setting(t, level'[t]))
          \/ v \in Setting(s, level[s]) /\ NoneIn(Waiting', Faders(t))
      BY <3>1, <2>2, <1>2, <1>5, <1>6, <1>9, TailLast
    <3>3. v \in Setting(s, level[s]) => Tuned(t)'
      BY <2>2, <3>1, <1>1, <1>6, <1>11, Narrowed DEF Tuned
    <3> QED BY <3>2, <3>3
  <2>3. CASE t # s
    <3>1. Tuned(t)' <=> Tuned(t)
      BY <2>3, <1>6, <1>8 DEF Tuned
    <3>2. v \notin Setting(t, level[t])
      BY <2>3, <1>10, GoodIsMine
    <3> QED BY <2>1, <3>1, <3>2, <1>2, <1>5, <1>6, <1>9, TailNone, TailLast
  <2> QED BY <2>2, <2>3
<1>17. StatusInv'
  <2>1. checking' # NoStream => playing'[checking']
    BY <1>1, <1>6 DEF StatusInv
  <2>2. ASSUME NEW t \in Streams
        PROVE  /\ asked'[t] = "stop" => ~playing'[t]
               /\ \/ NoneIn(Waiting', Transports(t)) /\ Told(t)'
                  \/ /\ ~NoneIn(Waiting', Transports(t))
                     /\ asked'[t] # "stop" => playing'[t] \/ t \in denied'
    <3>1. /\ asked[t] = "stop" => ~playing[t]
          /\ \/ NoneIn(Waiting, Transports(t)) /\ Told(t)
             \/ /\ ~NoneIn(Waiting, Transports(t))
                /\ asked[t] # "stop" => playing[t] \/ t \in denied
      BY <1>1 DEF StatusInv
    <3>2. Told(t)' <=> Told(t)
      BY <1>6, <1>7, <1>14 DEF Told
    <3>3. NoneIn(Waiting', Transports(t)) <=> NoneIn(Waiting, Transports(t))
      BY <1>2, <1>5, <1>9, <1>10, TailNone, TailSome
    <3> QED BY <3>1, <3>2, <3>3, <1>6
  <2> QED BY <2>1, <2>2 DEF StatusInv
<1> QED BY <1>12, <1>13, <1>15, <1>16, <1>17 DEF IInv

-----------------------------------------------------------------------------
(* One stream mixed: it leaves the list only with its samples used up.     *)
LEMMA MixKeeps ==
  ASSUME IInv, AudioMixStream
  PROVE  IInv'
<1>1. PlayTypeOK /\ ListInv /\ AskedInv /\ LevelInv /\ StatusInv
  BY DEF IInv
<1>2. PICK s \in Streams : s = Head(left)
  BY <1>1, MixChanges
<1>3. /\ InMix(s)
      /\ pos'[s] \in Nat /\ pos'[s] <= NFrames[s]
      /\ pos' \in [Streams -> Nat]
      /\ \A t \in Streams : t # s => pos'[t] = pos[t]
      /\ streams' \in Seq(Streams) /\ left' \in Seq(Streams)
      /\ Once(streams') /\ EndOf(left', streams')
      /\ \A t : InMix(t)' <=> InMix(t) /\ (t = s => pos'[s] < NFrames[s])
      /\ \A k \in 1..Len(streams') :
           \E j \in 1..Len(streams) :
             streams'[k] = streams[j] /\ (streams[j] = s => pos'[s] < NFrames[s])
  BY <1>1, <1>2, MixChanges
<1>4. /\ phase = "mix" /\ looping' = looping /\ volumes' = volumes
      /\ UNCHANGED <<pipeVars, intake, chamber, iter, phase>>
      /\ UNCHANGED <<playing, looped, checking, asked, denied, level>>
  BY DEF AudioMixStream, MixStream, pipeVars, flagVars
<1>5. Waiting' = Waiting
  BY <1>1, <1>4, OthersWait
<1>6. NFrames[s] \in Nat /\ pos[s] \in Nat /\ pos[s] < NFrames[s]
  <2>1. pos[s] < NFrames[s]
    BY <1>1, <1>3 DEF ListInv, InMix, Contains
  <2> QED BY <2>1, <1>1, MixerAssumption DEF PlayTypeOK
<1>7. InMix(s)' \/ pos'[s] = NFrames[s]
  BY <1>3, <1>6
<1>8. PlayTypeOK'
  <2>1. \A t \in Streams : pos'[t] <= NFrames[t]
    BY <1>1, <1>3 DEF PlayTypeOK
  <2> QED BY <2>1, <1>1, <1>3, <1>4 DEF PlayTypeOK
<1>9. ListInv'
  <2>1. ASSUME NEW k \in 1..Len(streams') PROVE pos'[streams'[k]] < NFrames[streams'[k]]
    <3>1. PICK j \in 1..Len(streams) :
            streams'[k] = streams[j] /\ (streams[j] = s => pos'[s] < NFrames[s])
      BY <1>3
    <3>2. pos[streams[j]] < NFrames[streams[j]] /\ streams[j] \in Streams
      BY <1>1 DEF ListInv, PlayTypeOK
    <3> QED BY <3>1, <3>2, <1>3
  <2> QED BY <2>1, <1>3, <1>4 DEF ListInv
<1>10. AskedInv'
  <2> SUFFICES ASSUME NEW t \in Streams, Granted(t) PROVE Granted(t)'
    BY <1>1, <1>4, <1>5 DEF AskedInv
  <2>1. CASE t = s
    BY <2>1, <1>3, <1>4, <1>7 DEF Granted
  <2>2. CASE t # s
    BY <2>2, <1>3, <1>4 DEF Granted
  <2> QED BY <2>1, <2>2
<1>11. LevelInv'
  BY <1>1, <1>4, <1>5 DEF LevelInv, Tuned
<1>12. StatusInv'
  <2>1. ASSUME NEW t \in Streams, Told(t) PROVE Told(t)'
    <3>1. CASE t = s
      BY <2>1, <3>1, <1>3, <1>4, <1>7 DEF Told
    <3>2. CASE t # s
      BY <2>1, <3>2, <1>3, <1>4 DEF Told
    <3> QED BY <3>1, <3>2
  <2> QED BY <2>1, <1>1, <1>4, <1>5 DEF StatusInv
<1> QED BY <1>8, <1>9, <1>10, <1>11, <1>12 DEF IInv

-----------------------------------------------------------------------------
(* Every step of the application and of the audio thread preserves IInv.   *)
THEOREM IInvariant == Spec => []IInv
<1>1. IInv /\ [Next]_vars => IInv'
  <2> SUFFICES ASSUME IInv, [Next]_vars PROVE IInv'
    OBVIOUS
  <2>1. ASSUME NEW s \in Streams, NEW loop \in BOOLEAN, Play(s, loop) PROVE IInv'
    BY <2>1, PlayKeeps
  <2>2. ASSUME NEW s \in Streams, Stop(s) PROVE IInv'
    BY <2>2, StopKeeps
  <2>3. ASSUME NEW s \in Streams, NEW x \in Levels, SetVolume(s, x) PROVE IInv'
    BY <2>3, SetVolumeKeeps
  <2>4. ASSUME NEW s \in Streams, GetStatus(s) PROVE IInv'
    BY <2>4, GetStatusKeeps
  <2>5. CASE GetStatusPosition
    BY <2>5, GetStatusPositionKeeps
  <2>6. CASE Moves
    BY <2>6, MovesKeep
  <2>7. CASE AudioStartMix
    BY <2>7, StartMixKeeps
  <2>8. CASE AudioMixStream
    BY <2>8, MixKeeps
  <2>9. CASE AudioSetLooping
    BY <2>9, SetLoopingKeeps
  <2>10. CASE AudioExecute
    <3>1. /\ Execute /\ UNCHANGED flagVars
          /\ \/ Current.type = "play" /\ PlayStream(Current.stm, Current.loop)
             \/ Current.type = "stop" /\ StopStream(Current.stm)
             \/ /\ Current.type = "set_volume"
                /\ SetStreamVolumes(Current.stm, Current.volumes)
      BY <2>10 DEF AudioExecute
    <3> QED BY <3>1, ExecutePlayKeeps, ExecuteStopKeeps, ExecuteVolumeKeeps
  <2> QED
    BY <2>1, <2>2, <2>3, <2>4, <2>5, <2>6, <2>7, <2>8, <2>9, <2>10
       DEF Next, AppStep, AudioStep, Moves
<1> QED BY <1>1, InitIInv, PTL DEF Spec

(* Every variable keeps its type, and no play position passes the end of   *)
(* its buffer.                                                             *)
THEOREM TypeCorrect == Spec => []PlayTypeOK
<1>1. IInv => PlayTypeOK
  BY DEF IInv
<1> QED BY <1>1, IInvariant, PTL

(* snd_mixer_mix's iterator: whatever is played, stopped or ends, the      *)
(* streams left to visit are the end of the list, and no stream is in it   *)
(* twice.                                                                  *)
THEOREM IteratorStays == Spec => []IteratorStaysInList
<1>1. IInv => IteratorStaysInList
  <2> SUFFICES ASSUME IInv PROVE IteratorStaysInList
    OBVIOUS
  <2>1. /\ streams \in Seq(Streams) /\ left \in Seq(Streams)
        /\ Once(streams) /\ EndOf(left, streams)
    BY DEF IInv, PlayTypeOK, ListInv
  <2> QED BY <2>1, ListNames DEF IteratorStaysInList
<1> QED BY <1>1, IInvariant, PTL

(* snd_stream_render: for every buffer length, period and position a       *)
(* looping stream gives a whole period of consecutive frames, wrapping     *)
(* round, and another what it has left.                                    *)
THEOREM RendersInOrder == Spec => []RenderIsContiguous
<1>1. IInv => RenderIsContiguous
  <2> SUFFICES ASSUME IInv, NEW k \in 1..Len(streams), NEW s, s = streams[k]
               PROVE LET n == IF looping[s] THEN Period
                              ELSE IF NFrames[s] - pos[s] < Period THEN NFrames[s] - pos[s]
                              ELSE Period
                     IN Rendered(s).frames = [i \in 1..n |-> (pos[s] + i - 1) % NFrames[s]]
    BY DEF RenderIsContiguous
  <2>1. PlayTypeOK /\ s \in Streams /\ pos[s] < NFrames[s]
    BY DEF IInv, PlayTypeOK, ListInv
  <2> QED BY <2>1, RenderedFrames
<1> QED BY <1>1, IInvariant, PTL

(* Nothing under way about s.                                              *)
LEMMA SettledMeans ==
  ASSUME PlayTypeOK, NEW s, Settled(s)
  PROVE  NoneIn(Waiting, Transports(s)) /\ NoneIn(Waiting, Faders(s))
<1>1. Waiting \in Seq(Requests)
  BY WaitingIs
<1>2. \A k \in 1..Len(Waiting) : Waiting[k].stm # s
  <2>1. DOMAIN Waiting = 1..Len(Waiting)
    BY <1>1
  <2> QED BY <2>1 DEF Settled, UnderWay, ToSet
<1> QED BY <1>2 DEF NoneIn, Transports, Faders

(* However Play and Stop are interleaved with the audio thread, once the   *)
(* commands about a stream have been executed the mixer does what the last *)
(* of them asked.                                                          *)
THEOREM MixesAsAsked == Spec => []MixedAsAsked
<1>1. IInv => MixedAsAsked
  <2> SUFFICES ASSUME IInv, NEW s \in Streams, Settled(s)
               PROVE /\ asked[s] = "stop" => ~InMix(s)
                     /\ asked[s] = "once" => ~looping[s] /\ (InMix(s) \/ IsFinished(s))
                     /\ asked[s] = "loop" => looping[s]
    BY DEF MixedAsAsked
  <2>1. PlayTypeOK /\ AskedInv
    BY DEF IInv
  <2>2. NoneIn(Waiting, Transports(s))
    BY <2>1, SettledMeans
  <2>3. ~LastIn(Waiting, Transports(s), Asking(s, asked[s]))
    BY <2>2, GoodIsMine, LastNotNone
  <2>4. Granted(s)
    BY <2>1, <2>3 DEF AskedInv
  <2>5. NFrames[s] \in Nat
    BY MixerAssumption
  <2> QED BY <2>4, <2>5 DEF Granted, IsFinished
<1> QED BY <1>1, IInvariant, PTL

(* ds_buffer_get_status: a buffer that is mixed is reported as playing,    *)
(* and one reported as playing is mixed, but for the two exceptions        *)
(* StatusIsTrue names.                                                     *)
THEOREM TellsTheTruth == Spec => []StatusIsTrue
<1>1. IInv => StatusIsTrue
  <2> SUFFICES ASSUME IInv, NEW s \in Streams, Settled(s)
               PROVE /\ InMix(s) => playing[s] \/ s \in denied
                     /\ playing[s] /\ ~IsFinished(s) => InMix(s) \/ pos[s] = NFrames[s]
    BY DEF StatusIsTrue
  <2>1. PlayTypeOK /\ StatusInv
    BY DEF IInv
  <2>2. NoneIn(Waiting, Transports(s))
    BY <2>1, SettledMeans
  <2> QED BY <2>1, <2>2 DEF StatusInv, Told
<1> QED BY <1>1, IInvariant, PTL

(* ds_buffer_set_volume: once its commands have been executed a stream has *)
(* the volume set last, or silence for 256, on both channels.              *)
THEOREM SetsTheVolume == Spec => []VolumeIsSet
<1>1. IInv => VolumeIsSet
  <2> SUFFICES ASSUME IInv, NEW s \in Streams, Settled(s) PROVE Tuned(s)
    BY DEF VolumeIsSet, Tuned
  <2>1. PlayTypeOK /\ LevelInv
    BY DEF IInv
  <2>2. NoneIn(Waiting, Faders(s))
    BY <2>1, SettledMeans
  <2>3. ~LastIn(Waiting, Faders(s), Setting(s, level[s]))
    BY <2>2, GoodIsMine, LastNotNone
  <2> QED BY <2>1, <2>3 DEF LevelInv
<1> QED BY <1>1, IInvariant, PTL
=============================================================================
