---------------------------- MODULE MarketDataProofs ----------------------------
(***************************************************************************)
(* Proofs about MarketData, for any number of trades, polls and runs: no   *)
(* trade counts twice in the session's delta, ratios without an error are  *)
(* of one refresh, and the clock offset is within half of the round trip.  *)
(***************************************************************************)
EXTENDS MarketData, FiniteSetTheorems, SequenceTheorems, WellFoundedInduction, TLAPS
-----------------------------------------------------------------------------
(***************************************************************************)
(* What the handlers find: times and counts of the past.                   *)
(***************************************************************************)
\* A cache, whatever candles it has
CacheOk(c) ==
  c \in [closed : {c.closed}, live : {c.live}, tradeLog : Seq(Nat), sessionCvd : Nat,
         sentiment : [Ratios -> Int], errors : {c.errors}, offset : Int, roundTrip : Int]

Answers(f) ==
  {Unanswered} \cup [at : f.asked .. now, trades : 0 .. Len(traded), failed : SUBSET Ratios]

RequestOk(f) ==
  /\ f \in [kind : Kinds, run : {f.run}, asked : Nat, answer : Answers(f)]
  /\ f.asked <= now

Messages ==
  [kind : {"kline"}, open : Int, trades : Nat, isClosed : BOOLEAN]
    \cup [kind : {"aggTrade"}, id : 1 .. Len(traded)]

MarketOk ==
  market \in [socket : {market.socket}, reconnectTimer : {market.reconnectTimer},
              queue : Seq(Messages)]

PastInv ==
  /\ now \in Nat /\ traded \in Seq(Nat)
  /\ MarketOk
  /\ \A f \in requests : RequestOk(f)

\* The polls by themselves
PolledInv == PastInv /\ CacheOk(cache) /\ PolledValuesHold
-----------------------------------------------------------------------------
(***************************************************************************)
(* Numbers and sequences.                                                  *)
(***************************************************************************)
\* A set of numbers that is not empty has a minimum.
LEMMA LeastNumber ==
  ASSUME NEW S \in SUBSET Nat, S # {}
  PROVE  Min(S) \in S /\ \A n \in S : Min(S) <= n
<1> DEFINE R == OpToRel(<, Nat)
<1>1. IsWellFoundedOn(R, Nat)
  BY NatLessThanWellFounded
<1>2. \A x, y \in Nat : x < y => <<x, y>> \in R
  BY DEF OpToRel
<1> HIDE DEF R
<1>3. PICK m \in S : \A n \in S : ~ (<<n, m>> \in R)
  BY <1>1, WFMin
<1>4. \A n \in S : m <= n
  <2>1. \A n \in S : n \in Nat /\ m \in Nat /\ ~(n < m)
    BY <1>2, <1>3
  <2>2. QED
    BY <2>1
<1>5. QED
  BY <1>4 DEF Min

\* There are n numbers from 1 to n.
LEMMA UpTo ==
  ASSUME NEW n \in Nat
  PROVE  IsFiniteSet(1 .. n) /\ Cardinality(1 .. n) = n
<1>1. 1 \in Int /\ n \in Int
  OBVIOUS
<1>2. IsFiniteSet(1 .. n) /\ Cardinality(1 .. n) = IF 1 > n THEN 0 ELSE n - 1 + 1
  BY <1>1, FS_Interval, Zenon
<1>3. QED
  BY <1>2

\* A set that has zero, and the next number of each of its numbers, has all.
LEMMA AllNumbers ==
  ASSUME NEW S, 0 \in S, \A n \in Nat : n \in S => n + 1 \in S
  PROVE  Nat \subseteq S
<1> DEFINE missing == Nat \ S
           m == Min(missing)
<1>1. SUFFICES ASSUME missing # {}
               PROVE  FALSE
  OBVIOUS
<1>2. m \in missing /\ \A n \in missing : m <= n
  BY <1>1, LeastNumber
<1> HIDE DEF m
<1>3. m # 0 /\ m \in Nat
  BY <1>2
<1>4. m - 1 \in Nat /\ m - 1 \notin missing
  BY <1>2, <1>3
<1>5. m - 1 \in S /\ (m - 1) + 1 \in S
  BY <1>4
<1>6. (m - 1) + 1 = m
  BY <1>3
<1>7. QED
  BY <1>2, <1>5, <1>6

InTurn(added, c, first, n) ==
  /\ added[0] = c
  /\ \A i \in 1 .. n : added[i] = AddTrade(added[i - 1], first + i - 1)

\* AddTrades adds one trade after the other.
LEMMA AddedInTurn ==
  ASSUME NEW c, NEW first \in Nat, NEW n \in Nat
  PROVE  \E added : AddTrades(c, first, n) = added[n] /\ InTurn(added, c, first, n)
<1> DEFINE Adds(g, m) ==
             g = [i \in 0 .. m |-> IF i = 0 THEN c ELSE AddTrade(g[i - 1], first + i - 1)]
           S == {m \in Nat : \E g : Adds(g, m)}
<1>1. 0 \in S
  <2>1. Adds([i \in 0 .. 0 |-> c], 0)
    OBVIOUS
  <2>2. QED
    BY <2>1
<1>2. ASSUME NEW m \in Nat, m \in S
      PROVE  m + 1 \in S
  <2>1. PICK g : Adds(g, m)
    BY <1>2
  <2> DEFINE next == AddTrade(g[m], first + m)
             h == [i \in 0 .. m + 1 |-> IF i = m + 1 THEN next ELSE g[i]]
  <2>2. \A i \in 0 .. m : g[i] = IF i = 0 THEN c ELSE AddTrade(g[i - 1], first + i - 1)
    BY <2>1
  <2>3. \A i \in 0 .. m + 1 :
          h[i] = IF i = 0 THEN c ELSE AddTrade(h[i - 1], first + i - 1)
    <3>1. SUFFICES ASSUME NEW i \in 0 .. m + 1
                   PROVE  h[i] = IF i = 0 THEN c ELSE AddTrade(h[i - 1], first + i - 1)
      OBVIOUS
    <3>2. CASE i = m + 1
      <4>1. h[i] = next /\ h[i - 1] = g[m] /\ first + i - 1 = first + m /\ i # 0
        BY <3>2
      <4>2. QED
        BY <4>1
    <3>3. CASE i = 0
      BY <2>2, <3>3
    <3>4. CASE i \in 1 .. m
      <4>1. h[i] = g[i] /\ h[i - 1] = g[i - 1] /\ i # 0 /\ i \in 0 .. m
        BY <3>4
      <4>2. QED
        BY <2>2, <4>1
    <3>5. QED
      BY <3>2, <3>3, <3>4
  <2> HIDE DEF next
  <2>4. Adds(h, m + 1)
    BY <2>3
  <2> HIDE DEF h, Adds
  <2>5. QED
    BY <2>4
<1>3. n \in S
  BY <1>1, <1>2, AllNumbers
<1> DEFINE added == CHOOSE g : Adds(g, n)
<1>4. Adds(added, n)
  BY <1>3
<1>5. AddTrades(c, first, n) = added[n]
  BY DEF AddTrades
<1> HIDE DEF added
<1>6. InTurn(added, c, first, n)
  BY <1>4 DEF InTurn
<1>7. QED
  BY <1>5, <1>6
-----------------------------------------------------------------------------
(***************************************************************************)
(* The log of trades.                                                      *)
(***************************************************************************)
Distinct(log) == \A i, j \in DOMAIN log : log[i] = log[j] => i = j

\* pruneEvents
Young(log) == {i \in DOMAIN log : Remembered(log[i])}
Cut(log) ==
  IF Young(log) = {} THEN <<>> ELSE SubSeq(log, Min(Young(log)), Len(log))

Logged(log, id) == Cut(Append(log, id))

\* A cut log has lost trades only that are not remembered.
LEMMA CutLog ==
  ASSUME NEW log \in Seq(Nat)
  PROVE  /\ Cut(log) \in Seq(Nat)
         /\ Distinct(log) => Distinct(Cut(log))
         /\ Range(Cut(log)) \subseteq Range(log)
         /\ \A id \in Range(log) \ Range(Cut(log)) : ~Remembered(id)
<1> DEFINE n == Len(log)
           m == Min(Young(log))
           left == SubSeq(log, m, n)
<1>1. n \in Nat /\ DOMAIN log = 1 .. n
  OBVIOUS
<1>2. CASE Young(log) = {}
  <2>1. Cut(log) = <<>>
    BY <1>2 DEF Cut
  <2>2. <<>> \in Seq(Nat) /\ Distinct(<<>>) /\ Range(<<>>) = {}
    BY DEF Distinct, Range
  <2>3. \A id \in Range(log) : ~Remembered(id)
    BY <1>2 DEF Young, Range
  <2>4. QED
    BY <2>1, <2>2, <2>3
<1>3. CASE Young(log) # {}
  <2>1. Young(log) \in SUBSET Nat /\ Young(log) \subseteq 1 .. n
    BY <1>1 DEF Young
  <2>2. m \in Young(log) /\ m \in 1 .. n /\ \A i \in Young(log) : m <= i
    BY <1>3, <2>1, LeastNumber
  <2>3. Cut(log) = left
    BY <1>3 DEF Cut
  <2> HIDE DEF m
  <2>4. left \in Seq(Nat) /\ Len(left) = n - m + 1
    BY <1>1, <2>2, SubSeqProperties
  <2>5. \A i \in 1 .. n - m + 1 : left[i] = log[m + i - 1]
    BY <1>1, <2>2, SubSeqProperties
  <2> HIDE DEF left
  <2>6. DOMAIN left = 1 .. n - m + 1
    BY <2>4
  <2> DEFINE place(i) == m + i - 1
  <2>a. \A i \in DOMAIN left : i \in Nat /\ place(i) \in DOMAIN log /\ left[i] = log[place(i)]
    <3>1. SUFFICES ASSUME NEW i \in DOMAIN left
                   PROVE  i \in Nat /\ place(i) \in DOMAIN log /\ left[i] = log[place(i)]
      OBVIOUS
    <3>2. i \in 1 .. n - m + 1
      BY <2>6
    <3>3. left[i] = log[place(i)]
      BY <2>5, <3>2
    <3>4. i \in Nat /\ place(i) \in 1 .. n
      BY <1>1, <2>2, <3>2
    <3>5. QED
      BY <1>1, <3>3, <3>4
  <2>7. Distinct(log) => Distinct(left)
    <3>1. SUFFICES ASSUME Distinct(log), NEW i \in DOMAIN left, NEW j \in DOMAIN left,
                          left[i] = left[j]
                   PROVE  i = j
      BY DEF Distinct
    <3>2. place(i) = place(j)
      BY <2>a, <3>1 DEF Distinct
    <3>3. QED
      BY <2>2, <2>a, <3>2
  <2>8. Range(left) \subseteq Range(log)
    <3> HIDE DEF place
    <3>1. QED
      BY <2>a DEF Range
  <2>9. ASSUME NEW id \in Range(log) \ Range(left)
        PROVE  ~Remembered(id)
    <3>1. PICK i \in 1 .. n : log[i] = id
      BY <1>1 DEF Range
    <3>2. i < m
      <4>1. SUFFICES ASSUME i >= m
                     PROVE  FALSE
        BY <2>2
      <4>2. i - m + 1 \in 1 .. n - m + 1 /\ m + (i - m + 1) - 1 = i
        BY <2>2, <4>1
      <4>3. left[i - m + 1] = id
        BY <2>5, <3>1, <4>2
      <4>4. QED
        BY <2>6, <2>9, <4>2, <4>3 DEF Range
    <3>3. i \notin Young(log)
      BY <2>2, <3>2
    <3>4. QED
      BY <1>1, <3>1, <3>3 DEF Young
  <2>10. QED
    BY <2>3, <2>4, <2>7, <2>8, <2>9
<1>4. QED
  BY <1>2, <1>3

AddedTo(c, id, d) ==
  /\ CacheOk(d)
  /\ d.sentiment = c.sentiment /\ d.offset = c.offset /\ d.roundTrip = c.roundTrip
  /\ d.errors \in {c.errors, c.errors \ {"trades"}}
  /\ id \in Range(c.tradeLog) => d.tradeLog = c.tradeLog /\ d.sessionCvd = c.sessionCvd
  /\ id \notin Range(c.tradeLog) =>
       d.tradeLog = Logged(c.tradeLog, id) /\ d.sessionCvd = c.sessionCvd + 1

\* A trade is new, or changes nothing.
LEMMA AddTradeIs ==
  ASSUME NEW c, CacheOk(c), NEW id \in Nat
  PROVE  AddedTo(c, id, AddTrade(c, id))
<1> DEFINE d == AddTrade(c, id)
<1>1. CASE id \in Range(c.tradeLog)
  BY <1>1 DEF AddTrade, AddedTo
<1>2. CASE id \notin Range(c.tradeLog)
  <2> DEFINE log == Append(c.tradeLog, id)
             cut == Cut(log)
             added == [c EXCEPT !.tradeLog = cut, !.sessionCvd = @ + 1]
  <2>1. log \in Seq(Nat) /\ cut \in Seq(Nat)
    <3>1. log \in Seq(Nat)
      BY DEF CacheOk
    <3>2. QED
      BY <3>1, CutLog
  <2>2. d = ClearSourceError(added, "trades")
    BY <1>2 DEF AddTrade, Cut, Young, Remembered
  <2> HIDE DEF cut, d
  <2>3. /\ added \in [closed : {c.closed}, live : {c.live}, tradeLog : Seq(Nat), sessionCvd : Nat,
                      sentiment : [Ratios -> Int], errors : {c.errors}, offset : Int,
                      roundTrip : Int]
        /\ added.tradeLog = cut /\ added.sessionCvd = c.sessionCvd + 1
        /\ added.sentiment = c.sentiment /\ added.offset = c.offset
        /\ added.roundTrip = c.roundTrip
    <3> DEFINE Logs == Seq(Nat)
               Moments == [Ratios -> Int]
    <3>1. c \in [closed : {c.closed}, live : {c.live}, tradeLog : Logs, sessionCvd : Nat,
                 sentiment : Moments, errors : {c.errors}, offset : Int, roundTrip : Int]
      BY DEF CacheOk
    <3>2. added = [c EXCEPT !.tradeLog = cut, !.sessionCvd = c.sessionCvd + 1]
      OBVIOUS
    <3>3. cut \in Logs
      BY <2>1
    <3> HIDE DEF added, Logs, Moments
    <3>4. /\ added \in [closed : {c.closed}, live : {c.live}, tradeLog : Logs, sessionCvd : Nat,
                        sentiment : Moments, errors : {c.errors}, offset : Int, roundTrip : Int]
          /\ added.tradeLog = cut /\ added.sessionCvd = c.sessionCvd + 1
          /\ added.sentiment = c.sentiment /\ added.offset = c.offset
          /\ added.roundTrip = c.roundTrip
      <4> DEFINE count == c.sessionCvd + 1
      <4>1. count \in Nat
        BY <3>1
      <4>2. added = [c EXCEPT !.tradeLog = cut, !.sessionCvd = count]
        BY <3>2
      <4> HIDE DEF count
      <4>3. added \in [closed : {c.closed}, live : {c.live}, tradeLog : Logs, sessionCvd : Nat,
                       sentiment : Moments, errors : {c.errors}, offset : Int, roundTrip : Int]
        BY <3>1, <3>3, <4>1, <4>2
      <4>4. /\ added.tradeLog = cut /\ added.sessionCvd = count
            /\ added.sentiment = c.sentiment /\ added.offset = c.offset
            /\ added.roundTrip = c.roundTrip
        BY <3>1, <4>2
      <4>5. QED
        BY <4>3, <4>4 DEF count
    <3>5. QED
      BY <3>4 DEF Logs, Moments
  <2> HIDE DEF added
  <2>4. /\ d \in [closed : {c.closed}, live : {c.live}, tradeLog : Seq(Nat), sessionCvd : Nat,
                  sentiment : [Ratios -> Int], errors : {c.errors \ {"trades"}}, offset : Int,
                  roundTrip : Int]
        /\ d.tradeLog = cut /\ d.sessionCvd = c.sessionCvd + 1
        /\ d.sentiment = c.sentiment /\ d.offset = c.offset
        /\ d.roundTrip = c.roundTrip
    BY <2>2, <2>3 DEF ClearSourceError
  <2>5. CacheOk(d) /\ d.errors = c.errors \ {"trades"}
    BY <2>4 DEF CacheOk
  <2>6. QED
    BY <1>2, <2>4, <2>5 DEF cut, d, Logged, AddedTo
<1>3. QED
  BY <1>1, <1>2
-----------------------------------------------------------------------------
(***************************************************************************)
(* The methods of the cache leave alone what they are not about.           *)
(***************************************************************************)
KeepsCounts(c, d) == d.tradeLog = c.tradeLog /\ d.sessionCvd = c.sessionCvd

KeepsPolls(c, d) ==
  /\ d.sentiment = c.sentiment /\ d.offset = c.offset /\ d.roundTrip = c.roundTrip
  /\ \A r \in Ratios : r \in d.errors <=> r \in c.errors

\* The errors of other sources are not those of a ratio.
LEMMA ErrorsSet ==
  ASSUME NEW c, CacheOk(c), NEW source \in {"candle", "trades", "serverTime"},
         NEW d, d \in {ClearSourceError(c, source), RecordSourceError(c, source)}
  PROVE  CacheOk(d) /\ KeepsCounts(c, d) /\ KeepsPolls(c, d)
<1> DEFINE Logs == Seq(Nat)
           Moments == [Ratios -> Int]
           Caches(errors) ==
             [closed : {c.closed}, live : {c.live}, tradeLog : Logs, sessionCvd : Nat,
              sentiment : Moments, errors : {errors}, offset : Int, roundTrip : Int]
<1>1. c \in Caches(c.errors)
  BY DEF CacheOk
<1>2. PICK errors \in {c.errors \ {source}, c.errors \cup {source}} :
        d = [c EXCEPT !.errors = errors]
  BY DEF ClearSourceError, RecordSourceError
<1>3. \A r \in Ratios : r \in errors <=> r \in c.errors
  BY <1>2, MarketDataAssumption
<1> HIDE DEF Logs, Moments
<1>4. /\ d \in Caches(errors) /\ d.errors = errors
      /\ d.closed = c.closed /\ d.live = c.live
      /\ d.tradeLog = c.tradeLog /\ d.sessionCvd = c.sessionCvd
      /\ d.sentiment = c.sentiment /\ d.offset = c.offset /\ d.roundTrip = c.roundTrip
  BY <1>1, <1>2
<1>5. CacheOk(d)
  BY <1>4 DEF CacheOk, Logs, Moments
<1>6. QED
  BY <1>3, <1>4, <1>5 DEF KeepsCounts, KeepsPolls

\* Candles are of no other concern.
LEMMA CandlesSet ==
  ASSUME NEW c, CacheOk(c), NEW closed, NEW live,
         NEW d, d \in {[c EXCEPT !.closed = closed, !.live = live],
                       [c EXCEPT !.live = live, !.closed = closed],
                       [c EXCEPT !.live = live]}
  PROVE  CacheOk(d) /\ KeepsCounts(c, d) /\ KeepsPolls(c, d)
<1> DEFINE Logs == Seq(Nat)
           Moments == [Ratios -> Int]
           Caches(candles) ==
             [closed : {candles}, live : {live}, tradeLog : Logs, sessionCvd : Nat,
              sentiment : Moments, errors : {c.errors}, offset : Int, roundTrip : Int]
           Same ==
             /\ d.tradeLog = c.tradeLog /\ d.sessionCvd = c.sessionCvd
             /\ d.sentiment = c.sentiment /\ d.offset = c.offset /\ d.roundTrip = c.roundTrip
             /\ d.errors = c.errors
<1>1. c \in [closed : {c.closed}, live : {c.live}, tradeLog : Logs, sessionCvd : Nat,
             sentiment : Moments, errors : {c.errors}, offset : Int, roundTrip : Int]
  BY DEF CacheOk
<1> HIDE DEF Logs, Moments
<1>2. CASE d = [c EXCEPT !.live = live]
  <2>1. d \in Caches(c.closed) /\ d.live = live /\ d.closed = c.closed /\ Same
    BY <1>1, <1>2
  <2>2. CacheOk(d)
    BY <2>1 DEF CacheOk, Logs, Moments
  <2>3. QED
    BY <2>1, <2>2 DEF KeepsCounts, KeepsPolls
<1>3. CASE \/ d = [c EXCEPT !.closed = closed, !.live = live]
           \/ d = [c EXCEPT !.live = live, !.closed = closed]
  <2>1. d \in Caches(closed) /\ d.live = live /\ d.closed = closed /\ Same
    BY <1>1, <1>3
  <2>2. CacheOk(d)
    BY <2>1 DEF CacheOk, Logs, Moments
  <2>3. QED
    BY <2>1, <2>2 DEF KeepsCounts, KeepsPolls
<1>4. QED
  BY <1>2, <1>3

\* What is left alone twice is left alone.
LEMMA KeepsOn ==
  ASSUME NEW c, NEW d, NEW e
  PROVE  /\ KeepsCounts(c, d) /\ KeepsCounts(d, e) => KeepsCounts(c, e)
         /\ KeepsPolls(c, d) /\ KeepsPolls(d, e) => KeepsPolls(c, e)
BY DEF KeepsCounts, KeepsPolls

\* The polled values stay as they are.
LEMMA PolledValuesStay ==
  ASSUME PolledValuesHold, KeepsPolls(cache, cache')
  PROVE  PolledValuesHold'
BY DEF PolledValuesHold, RatiosAgree, OffsetIsClose, KeepsPolls
-----------------------------------------------------------------------------
(***************************************************************************)
(* A batch of trades.                                                      *)
(***************************************************************************)
\* Trades leave the polled values alone.
LEMMA TradesLeavePolls ==
  ASSUME NEW c, CacheOk(c), NEW first \in Nat, first >= 1, NEW n \in Nat,
         NEW d, d = AddTrades(c, first, n)
  PROVE  CacheOk(d) /\ KeepsPolls(c, d)
<1>1. PICK added : d = added[n] /\ InTurn(added, c, first, n)
  BY AddedInTurn
<1> DEFINE Fine(e) == CacheOk(e) /\ KeepsPolls(c, e)
           S == {m \in Nat : m <= n => Fine(added[m])}
<1>2. 0 \in S
  BY <1>1 DEF KeepsPolls, InTurn
<1>3. ASSUME NEW m \in Nat, m \in S
      PROVE  m + 1 \in S
  <2>1. SUFFICES ASSUME m + 1 <= n
                 PROVE  Fine(added[m + 1])
    OBVIOUS
  <2>2. Fine(added[m])
    BY <1>3, <2>1
  <2>3. m + 1 \in 1 .. n /\ (m + 1) - 1 = m /\ first + (m + 1) - 1 = first + m /\ first + m \in Nat
    BY <2>1
  <2>4. added[m + 1] = AddTrade(added[m], first + m)
    BY <1>1, <2>3 DEF InTurn
  <2>5. CacheOk(added[m + 1]) /\ KeepsPolls(added[m], added[m + 1])
    <3>1. AddedTo(added[m], first + m, added[m + 1])
      BY <2>2, <2>3, <2>4, AddTradeIs
    <3>2. "trades" \notin Ratios
      BY MarketDataAssumption
    <3>3. QED
      BY <3>1, <3>2 DEF KeepsPolls, AddedTo
  <2>6. QED
    BY <2>2, <2>5, KeepsOn
<1>4. n \in S
  <2> HIDE DEF S
  <2>1. QED
    BY <1>2, <1>3, AllNumbers
<1>5. QED
  BY <1>1, <1>4

\* The log holds each trade once, and the trades that were counted and are not
\* in it any more are not remembered.
CountedIn(c, C) ==
  /\ C \subseteq 1 .. Len(traded)
  /\ Range(c.tradeLog) \subseteq C
  /\ Cardinality(C) = c.sessionCvd
  /\ \A id \in C \ Range(c.tradeLog) : ~Remembered(id)

LogOk(c) == Distinct(c.tradeLog) /\ \E C : CountedIn(c, C)

\* A trade that is remembered is counted once.
LEMMA AddTradeCounts ==
  ASSUME NEW c, CacheOk(c), LogOk(c), traded \in Seq(Nat),
         NEW id \in 1 .. Len(traded), Remembered(id)
  PROVE  LogOk(AddTrade(c, id))
<1> DEFINE d == AddTrade(c, id)
<1>1. Len(traded) \in Nat /\ id \in Nat
  OBVIOUS
<1>a. AddedTo(c, id, d)
  BY <1>1, AddTradeIs
<1> HIDE DEF d
<1> SUFFICES LogOk(d)
  BY DEF d
<1>2. CASE id \in Range(c.tradeLog)
  <2>1. d.tradeLog = c.tradeLog /\ d.sessionCvd = c.sessionCvd
    BY <1>2, <1>a DEF AddedTo
  <2>2. QED
    BY <2>1 DEF LogOk, CountedIn
<1>3. CASE id \notin Range(c.tradeLog)
  <2> DEFINE log == Append(c.tradeLog, id)
             cut == Cut(log)
             n == Len(c.tradeLog)
  <2>1. d.tradeLog = cut /\ d.sessionCvd = c.sessionCvd + 1
    <3>1. d.tradeLog = Logged(c.tradeLog, id) /\ d.sessionCvd = c.sessionCvd + 1
      BY <1>3, <1>a DEF AddedTo
    <3>2. QED
      BY <3>1 DEF Logged
  <2>2. c.tradeLog \in Seq(Nat) /\ n \in Nat /\ DOMAIN c.tradeLog = 1 .. n
    BY DEF CacheOk
  <2>3. /\ log \in Seq(Nat) /\ DOMAIN log = 1 .. n + 1
        /\ \A i \in 1 .. n : log[i] = c.tradeLog[i]
        /\ log[n + 1] = id
    BY <1>1, <2>2, AppendProperties
  <2> HIDE DEF log, n
  <2>4. \A i \in 1 .. n : log[i] # id
    BY <1>3, <2>2, <2>3 DEF Range
  <2>5. Distinct(c.tradeLog)
    BY DEF LogOk
  <2>6. Distinct(log)
    <3>1. \A i, j \in 1 .. n : log[i] = log[j] => i = j
      BY <2>2, <2>3, <2>5 DEF Distinct
    <3>2. \A i \in 1 .. n + 1 : i = n + 1 \/ i \in 1 .. n
      BY <2>2
    <3>3. QED
      BY <2>3, <2>4, <3>1, <3>2 DEF Distinct
  <2>7. Range(log) \subseteq Range(c.tradeLog) \cup {id} /\ Range(c.tradeLog) \subseteq Range(log)
    <3>1. \A i \in 1 .. n : i \in 1 .. n + 1
      BY <2>2
    <3>2. \A i \in 1 .. n + 1 : i = n + 1 \/ i \in 1 .. n
      BY <2>2
    <3>3. QED
      BY <2>2, <2>3, <3>1, <3>2 DEF Range
  <2>8. /\ Distinct(cut) /\ Range(cut) \subseteq Range(log)
        /\ \A k \in Range(log) \ Range(cut) : ~Remembered(k)
    BY <2>3, <2>6, CutLog
  <2> HIDE DEF cut
  <2>9. PICK C : CountedIn(c, C)
    BY DEF LogOk
  <2>10. id \notin C
    BY <1>3, <2>9 DEF CountedIn
  <2>11. Cardinality(C \cup {id}) = c.sessionCvd + 1
    <3>1. IsFiniteSet(1 .. Len(traded))
      BY <1>1, FS_Interval
    <3>2. IsFiniteSet(C)
      BY <2>9, <3>1, FS_Subset DEF CountedIn
    <3>3. QED
      BY <2>9, <2>10, <3>2, FS_AddElement DEF CountedIn
  <2>12. CountedIn(d, C \cup {id})
    <3>1. C \cup {id} \subseteq 1 .. Len(traded) /\ Range(cut) \subseteq C \cup {id}
      BY <2>7, <2>8, <2>9 DEF CountedIn
    <3>2. \A k \in (C \cup {id}) \ Range(cut) : ~Remembered(k)
      <4>1. SUFFICES ASSUME NEW k \in (C \cup {id}) \ Range(cut), Remembered(k)
                     PROVE  FALSE
        OBVIOUS
      <4>2. k \notin Range(log)
        BY <2>8, <4>1
      <4>3. k \in C \/ k = id
        BY <4>1
      <4>4. id \in Range(log)
        <5>1. n + 1 \in DOMAIN log
          BY <2>2, <2>3
        <5>2. QED
          BY <2>3, <5>1 DEF Range
      <4>5. k \in C \ Range(c.tradeLog)
        BY <2>7, <4>2, <4>3, <4>4
      <4>6. QED
        BY <2>9, <4>1, <4>5 DEF CountedIn
    <3>3. QED
      BY <2>1, <2>11, <3>1, <3>2 DEF CountedIn
  <2>13. QED
    BY <2>1, <2>8, <2>12 DEF LogOk
<1>4. QED
  BY <1>2, <1>3

\* So is every trade of a batch.
LEMMA AddTradesCount ==
  ASSUME NEW c, CacheOk(c), LogOk(c), traded \in Seq(Nat),
         NEW first \in Nat, first >= 1, NEW n \in Nat, first + n - 1 <= Len(traded),
         \A id \in first .. first + n - 1 : Remembered(id),
         NEW d, d = AddTrades(c, first, n)
  PROVE  LogOk(d)
<1>1. PICK added : d = added[n] /\ InTurn(added, c, first, n)
  BY AddedInTurn
<1> DEFINE Fine(e) == CacheOk(e) /\ LogOk(e)
           S == {m \in Nat : m <= n => Fine(added[m])}
<1>2. 0 \in S
  BY <1>1 DEF InTurn
<1>3. ASSUME NEW m \in Nat, m \in S
      PROVE  m + 1 \in S
  <2>1. SUFFICES ASSUME m + 1 <= n
                 PROVE  Fine(added[m + 1])
    OBVIOUS
  <2>2. Fine(added[m])
    BY <1>3, <2>1
  <2>3. Len(traded) \in Nat
    OBVIOUS
  <2>4. /\ m + 1 \in 1 .. n /\ (m + 1) - 1 = m /\ first + (m + 1) - 1 = first + m
        /\ first + m \in Nat /\ first + m \in 1 .. Len(traded)
        /\ first + m \in first .. first + n - 1
    BY <2>1, <2>3
  <2>5. added[m + 1] = AddTrade(added[m], first + m)
    BY <1>1, <2>4 DEF InTurn
  <2>6. Remembered(first + m)
    BY <2>4
  <2>7. CacheOk(added[m + 1])
    <3>1. AddedTo(added[m], first + m, added[m + 1])
      BY <2>2, <2>4, <2>5, AddTradeIs
    <3>2. QED
      BY <3>1 DEF AddedTo
  <2>8. LogOk(added[m + 1])
    BY <2>2, <2>4, <2>5, <2>6, AddTradeCounts
  <2>9. QED
    BY <2>7, <2>8
<1>4. n \in S
  <2> HIDE DEF S
  <2>1. QED
    BY <1>2, <1>3, AllNumbers
<1>5. QED
  BY <1>1, <1>4

\* The log is no longer than what was counted, and that no more than was traded.
LEMMA CountedOnce ==
  ASSUME CacheOk(cache), LogOk(cache), traded \in Seq(Nat)
  PROVE  TradeCountsOnce
<1> DEFINE log == cache.tradeLog
           n == Len(log)
<1>1. Len(traded) \in Nat /\ n \in Nat /\ DOMAIN log = 1 .. n /\ cache.sessionCvd \in Nat
  BY DEF CacheOk
<1>2. PICK C : CountedIn(cache, C)
  BY DEF LogOk
<1>3. IsFiniteSet(1 .. Len(traded)) /\ Cardinality(1 .. Len(traded)) = Len(traded)
  BY <1>1, UpTo
<1>4. IsFiniteSet(C) /\ Cardinality(C) <= Len(traded)
  BY <1>2, <1>3, FS_Subset DEF CountedIn
<1>5. IsFiniteSet(Range(log)) /\ Cardinality(Range(log)) <= Cardinality(C)
  BY <1>2, <1>4, FS_Subset DEF CountedIn
<1>6. ExistsBijection(1 .. n, Range(log))
  <2>1. Distinct(log)
    BY DEF LogOk
  <2>2. log = [i \in 1 .. n |-> log[i]]
    BY <1>1 DEF CacheOk
  <2> HIDE DEF log, n
  <2>3. log \in [1 .. n -> Range(log)]
    BY <1>1, <2>2 DEF Range
  <2>4. log \in Bijection(1 .. n, Range(log))
    <3>1. log \in Injection(1 .. n, Range(log))
      BY <1>1, <2>1, <2>3 DEF Injection, IsInjective, Distinct
    <3>2. log \in Surjection(1 .. n, Range(log))
      BY <1>1, <2>3 DEF Surjection, Range
    <3>3. QED
      BY <3>1, <3>2 DEF Bijection
  <2>5. QED
    BY <2>4 DEF ExistsBijection
<1>7. Cardinality(Range(log)) = n
  <2>1. IsFiniteSet(1 .. n) /\ Cardinality(1 .. n) = n
    BY <1>1, UpTo
  <2>2. QED
    BY <1>6, <2>1, FS_Bijection
<1>8. QED
  BY <1>1, <1>2, <1>4, <1>5, <1>7 DEF TradeCountsOnce, CountedIn

-----------------------------------------------------------------------------
(***************************************************************************)
(* Steps: the past.                                                        *)
(***************************************************************************)
\* Time goes on and trades are added; neither is taken back.
GoesOn ==
  /\ now' \in Nat /\ now' >= now
  /\ traded' \in Seq(Nat) /\ Len(traded') >= Len(traded)
  /\ \A id \in 1 .. Len(traded) : traded'[id] = traded[id]

\* Nothing is taken back by any step.
LEMMA PastGoesOn ==
  ASSUME PastInv, [Next]_vars
  PROVE  GoesOn
<1>1. CASE UNCHANGED <<now, traded>>
  BY <1>1 DEF PastInv, GoesOn
<1>2. CASE Trade
  <2>1. traded' = Append(traded, now) /\ now' = now
    BY <1>2 DEF Trade
  <2>2. now \in Nat /\ traded \in Seq(Nat)
    BY DEF PastInv
  <2>3. /\ traded' \in Seq(Nat) /\ Len(traded') = Len(traded) + 1 /\ Len(traded) \in Nat
        /\ \A id \in 1 .. Len(traded) : traded'[id] = traded[id]
    BY <2>1, <2>2, AppendProperties
  <2>4. QED
    BY <2>1, <2>2, <2>3 DEF GoesOn
<1>3. CASE Tick
  BY <1>3 DEF Tick, PastInv, GoesOn
<1>4. QED
  BY <1>1, <1>2, <1>3 DEF Next, vars, SocketOpens, SocketFails, ReconnectTimerFires,
     SocketDelivers, Start, Stop, Crash, TimerFires, Answer, AnswerArrives, RequestFails

\* What a request knows of the past stays true of it.
LEMMA RequestStays ==
  ASSUME PastInv, GoesOn, NEW f, RequestOk(f)
  PROVE  RequestOk(f)'
<1>1. Len(traded) \in Nat /\ Len(traded') \in Nat /\ now \in Nat
  BY DEF PastInv, GoesOn
<1>2. f.asked <= now /\ f.asked \in Nat
  BY DEF RequestOk
<1>3. f.asked .. now \subseteq f.asked .. now' /\ 0 .. Len(traded) \subseteq 0 .. Len(traded')
  BY <1>1, <1>2 DEF GoesOn
<1>4. Answers(f) \subseteq Answers(f)'
  BY <1>3 DEF Answers
<1>5. f.asked <= now'
  BY <1>1, <1>2 DEF GoesOn
<1>6. QED
  BY <1>4, <1>5 DEF RequestOk

\* A request that is made now is in order.
LEMMA RequestMade ==
  ASSUME PastInv, GoesOn, now' = now, NEW kind \in Kinds, NEW run,
         NEW f, f = [kind |-> kind, run |-> run, asked |-> now, answer |-> Unanswered]
  PROVE  RequestOk(f)'
<1>1. f.kind = kind /\ f.run = run /\ f.asked = now /\ f.answer = Unanswered
  OBVIOUS
<1>2. Unanswered \in Answers(f)'
  BY DEF Answers
<1>3. f \in [kind : Kinds, run : {f.run}, asked : Nat, answer : Answers(f)']
  BY <1>1, <1>2 DEF PastInv
<1>4. f.asked <= now'
  BY <1>1 DEF PastInv
<1>5. QED
  BY <1>3, <1>4 DEF RequestOk

\* So are those of Ask.
LEMMA Asked ==
  ASSUME PastInv, GoesOn, now' = now, NEW kinds \in SUBSET Kinds, Ask(kinds)
  PROVE  \A f \in requests' : RequestOk(f)'
<1>1. SUFFICES ASSUME NEW f \in requests'
               PROVE  RequestOk(f)'
  OBVIOUS
<1>2. CASE f \in requests
  BY <1>2, RequestStays DEF PastInv
<1>3. CASE f \notin requests
  <2>1. PICK k \in kinds \cap bound.polls :
          f = [kind |-> k, run |-> service'.runGeneration, asked |-> now, answer |-> Unanswered]
    BY <1>3 DEF Ask
  <2>2. k \in Kinds
    OBVIOUS
  <2>3. QED
    BY <2>1, <2>2, RequestMade
<1>4. QED
  BY <1>2, <1>3

\* Every request is in order after a step.
LEMMA RequestsStay ==
  ASSUME PastInv, [Next]_vars
  PROVE  \A f \in requests' : RequestOk(f)'
<1>1. GoesOn
  BY PastGoesOn
<1>2. CASE requests' \subseteq requests
  BY <1>1, <1>2, RequestStays DEF PastInv
<1>3. ASSUME NEW kinds \in SUBSET Kinds, Ask(kinds), now' = now
      PROVE  \A f \in requests' : RequestOk(f)'
  BY <1>1, <1>3, Asked
<1>4. CASE ReconnectTimerFires
  BY <1>3, <1>4 DEF ReconnectTimerFires, Kinds
<1>5. CASE Start
  BY <1>3, <1>5 DEF Start, Kinds
<1>6. ASSUME NEW kind \in Kinds, TimerFires(kind)
      PROVE  \A f \in requests' : RequestOk(f)'
  BY <1>3, <1>6 DEF TimerFires
<1>7. ASSUME NEW g \in requests, Answer(g)
      PROVE  \A f \in requests' : RequestOk(f)'
  <2>1. SUFFICES ASSUME NEW f \in requests', f \notin requests
                 PROVE  RequestOk(f)'
    BY <1>1, RequestStays DEF PastInv
  <2>2. PICK failed \in SUBSET Ratios :
          f = [g EXCEPT !.answer = [at |-> now, trades |-> Len(traded), failed |-> failed]]
    BY <1>7, <2>1 DEF Answer
  <2> DEFINE answer == [at |-> now, trades |-> Len(traded), failed |-> failed]
  <2>3. RequestOk(g)
    BY DEF PastInv
  <2>4. now' = now /\ traded' = traded /\ now \in Nat /\ Len(traded) \in Nat
    BY <1>7 DEF Answer, PastInv
  <2>5. g.asked <= now /\ g.asked \in Nat
    BY <2>3 DEF RequestOk
  <2>6. answer \in [at : g.asked .. now, trades : 0 .. Len(traded), failed : SUBSET Ratios]
    BY <2>4, <2>5
  <2> HIDE DEF answer
  <2>7. f = [g EXCEPT !.answer = answer]
    BY <2>2 DEF answer
  <2>8. f.kind = g.kind /\ f.run = g.run /\ f.asked = g.asked /\ f.answer = answer
    BY <2>3, <2>7 DEF RequestOk
  <2>9. answer \in Answers(f)'
    BY <2>4, <2>6, <2>8 DEF Answers
  <2>10. f \in [kind : Kinds, run : {f.run}, asked : Nat, answer : Answers(f)']
    <3> DEFINE Known == Answers(f)'
               Before == Answers(g)
    <3>1. g \in [kind : Kinds, run : {g.run}, asked : Nat, answer : Before]
      BY <2>3 DEF RequestOk
    <3>2. answer \in Known
      BY <2>9
    <3> HIDE DEF Known, Before
    <3>3. f \in [kind : Kinds, run : {g.run}, asked : Nat, answer : Known]
      BY <2>7, <3>1, <3>2
    <3>4. QED
      BY <2>8, <3>3 DEF Known
  <2>11. QED
    BY <2>4, <2>5, <2>8, <2>10 DEF RequestOk
<1>8. ASSUME NEW g \in requests, AnswerArrives(g)
      PROVE  \A f \in requests' : RequestOk(f)'
  <2>1. CASE requests' \subseteq requests
    BY <1>2, <2>1
  <2>2. CASE CandlesArrive(g)
    <3>1. SUFFICES ASSUME NEW f \in requests', f \notin requests
                   PROVE  RequestOk(f)'
      BY <1>1, RequestStays DEF PastInv
    <3>2. f = [g EXCEPT !.kind = "recover", !.asked = now, !.answer = Unanswered]
      BY <2>2, <3>1 DEF CandlesArrive
    <3>3. RequestOk(g) /\ now' = now /\ now \in Nat
      BY <1>8 DEF PastInv, AnswerArrives
    <3> DEFINE Before == Answers(g)
               Known == Answers(f)'
    <3>4. g \in [kind : Kinds, run : {g.run}, asked : Nat, answer : Before]
      BY <3>3 DEF RequestOk
    <3>5. Unanswered \in Known
      BY DEF Answers
    <3> HIDE DEF Before, Known
    <3>6. /\ f \in [kind : Kinds, run : {g.run}, asked : Nat, answer : Known]
          /\ f.asked = now /\ f.run = g.run
      BY <3>2, <3>3, <3>4, <3>5 DEF Kinds
    <3>7. QED
      BY <3>3, <3>6 DEF RequestOk, Known
  <2>3. QED
    BY <1>8, <2>1, <2>2 DEF AnswerArrives, RecoverArrives, TradesArrive, StatisticsArrive,
       ServerTimeArrives
<1>9. QED
  BY <1>2, <1>4, <1>5, <1>6, <1>7, <1>8 DEF Next, vars, Trade, Tick, SocketOpens, SocketFails,
     SocketDelivers, Stop, Crash, RequestFails


\* A message stays one, and what the exchange sends of candles is one.
LEMMA MessagesStay ==
  ASSUME PastInv, GoesOn
  PROVE  Messages \subseteq Messages'
<1>1. Len(traded) \in Nat /\ Len(traded') \in Nat
  BY DEF PastInv, GoesOn
<1>2. 1 .. Len(traded) \subseteq 1 .. Len(traded')
  BY <1>1 DEF GoesOn
<1>3. QED
  BY <1>2 DEF Messages

\* A candle has a number of trades.
LEMMA KlineIsMessage ==
  ASSUME PastInv, GoesOn, NEW k \in Int, NEW n \in Nat, NEW more \in Nat, NEW closed \in BOOLEAN
  PROVE  Kline(k, TradesIn(k, n) + more, closed) \in Messages'
<1> DEFINE its == {id \in 1 .. n : OpenOf(traded[id]) = k}
<1>1. IsFiniteSet(its)
  BY UpTo, FS_Subset
<1>2. Cardinality(its) \in Nat
  BY <1>1, FS_CardinalityType
<1>3. TradesIn(k, n) \in Nat
  BY <1>2 DEF TradesIn
<1>4. TradesIn(k, n) + more \in Nat
  BY <1>3
<1>5. QED
  BY <1>4 DEF Kline, Messages

\* What is sent is under way, or lost.
LEMMA EmittedOk ==
  ASSUME PastInv, GoesOn, NEW messages \in Seq(Messages'), market' = Emitted(messages)
  PROVE  MarketOk'
<1> DEFINE All == Messages'
           Queues == Seq(All)
<1>1. market \in [socket : {market.socket}, reconnectTimer : {market.reconnectTimer},
                  queue : Seq(Messages)]
  BY DEF PastInv, MarketOk
<1>2. Messages \subseteq All
  BY MessagesStay
<1>3. market.queue \in Queues
  <2> HIDE DEF All
  <2>1. market.queue \in Seq(Messages)
    BY <1>1
  <2>2. QED
    BY <1>2, <2>1
<1>4. market.queue \o messages \in Queues
  <2>1. messages \in Seq(All)
    OBVIOUS
  <2> HIDE DEF All
  <2>2. market.queue \in Seq(All)
    BY <1>3
  <2>3. QED
    BY <2>1, <2>2, ConcatProperties
<1>5. CASE market' = market
  BY <1>1, <1>3, <1>5 DEF MarketOk
<1>6. CASE market' = [market EXCEPT !.queue = market.queue \o messages]
  <2> DEFINE queue == market.queue \o messages
             Before == Seq(Messages)
  <2>1. queue \in Queues
    BY <1>4
  <2>2. market' = [market EXCEPT !.queue = queue]
    BY <1>6
  <2>3. market \in [socket : {market.socket}, reconnectTimer : {market.reconnectTimer},
                    queue : Before]
    BY <1>1
  <2> HIDE DEF queue, Queues, Before
  <2>4. /\ market' \in [socket : {market.socket}, reconnectTimer : {market.reconnectTimer},
                         queue : Queues]
        /\ market'.socket = market.socket /\ market'.reconnectTimer = market.reconnectTimer
    BY <2>1, <2>2, <2>3
  <2>5. QED
    BY <2>4 DEF MarketOk, Queues
<1>7. QED
  BY <1>5, <1>6 DEF Emitted

\* What is under way is in order after a step.
LEMMA MarketStays ==
  ASSUME PastInv, [Next]_vars
  PROVE  MarketOk'
<1> DEFINE All == Messages'
           Queues == Seq(All)
<1>1. GoesOn
  BY PastGoesOn
<1>2. Messages \subseteq All
  BY <1>1, MessagesStay
<1>3. /\ market \in [socket : {market.socket}, reconnectTimer : {market.reconnectTimer},
                     queue : Queues]
      /\ <<>> \in Queues
  <2>1. market \in [socket : {market.socket}, reconnectTimer : {market.reconnectTimer},
                    queue : Seq(Messages)]
    BY DEF PastInv, MarketOk
  <2> HIDE DEF All
  <2>2. market.queue \in Seq(Messages)
    BY <2>1
  <2>3. market.queue \in Queues
    BY <1>2, <2>2
  <2> HIDE DEF Queues
  <2>4. market \in [socket : {market.socket}, reconnectTimer : {market.reconnectTimer},
                    queue : Queues]
    BY <2>1, <2>3
  <2>5. QED
    BY <2>4 DEF Queues
<1>4. ASSUME /\ market' \in [socket : {market'.socket}, reconnectTimer : {market'.reconnectTimer},
                              queue : Queues]
      PROVE  MarketOk'
  BY <1>4 DEF MarketOk
<1>5. CASE Trade
  <2>1. Len(traded') = Len(traded) + 1 /\ Len(traded) \in Nat /\ now \in Nat
    BY <1>5 DEF Trade, PastInv
  <2>2. AggTrade(Len(traded) + 1) \in All
    BY <2>1 DEF AggTrade, Messages
  <2>3. OpenOf(now) \in Int
    BY <2>1, MarketDataAssumption DEF OpenOf
  <2>4. Kline(OpenOf(now), TradesIn(OpenOf(now), Len(traded)) + 1, FALSE) \in All
    BY <1>1, <2>1, <2>3, KlineIsMessage
  <2> DEFINE first == AggTrade(Len(traded) + 1)
             second == Kline(OpenOf(now), TradesIn(OpenOf(now), Len(traded)) + 1, FALSE)
  <2>5. market' = Emitted(Sent(first) \o Sent(second))
    BY <1>5 DEF Trade
  <2>6. first \in All /\ second \in All
    BY <2>2, <2>4
  <2> HIDE DEF first, second
  <2>7. Sent(first) \o Sent(second) \in Queues
    <3> HIDE DEF All
    <3>1. QED
      BY <2>6 DEF Sent
  <2>8. QED
    BY <1>1, <2>5, <2>7, EmittedOk
<1>6. CASE Tick
  <2>1. CASE market' = market
    BY <1>3, <1>4, <2>1
  <2>2. CASE market' # market
    <3>1. Len(traded) \in Nat /\ now \in Nat
      BY DEF PastInv
    <3>2. OpenOf(now) \in Int
      BY <3>1, MarketDataAssumption DEF OpenOf
    <3> DEFINE last == Kline(OpenOf(now), Final(OpenOf(now)), TRUE)
    <3>3. Kline(OpenOf(now), Final(OpenOf(now)) + 0, TRUE) \in All
      BY <1>1, <3>1, <3>2, KlineIsMessage DEF Final
    <3>4. Final(OpenOf(now)) + 0 = Final(OpenOf(now))
      <4>1. IsFiniteSet({id \in 1 .. Len(traded) : OpenOf(traded[id]) = OpenOf(now)})
        BY <3>1, UpTo, FS_Subset
      <4>2. Final(OpenOf(now)) \in Nat
        BY <4>1, FS_CardinalityType DEF Final, TradesIn
      <4>3. QED
        BY <4>2
    <3>5. last \in All /\ market' = Emitted(Sent(last))
      BY <1>6, <2>2, <3>3, <3>4 DEF Tick
    <3> HIDE DEF last
    <3>6. Sent(last) \in Queues
      <4> HIDE DEF All
      <4>1. QED
        BY <3>5 DEF Sent
    <3>7. QED
      BY <1>1, <3>5, <3>6, EmittedOk
  <2>3. QED
    BY <2>1, <2>2
<1>7. CASE SocketDelivers
  <2>1. market.queue # <<>> /\ market' = [market EXCEPT !.queue = Tail(market.queue)]
    BY <1>7 DEF SocketDelivers
  <2>2. Tail(market.queue) \in Queues
    <3> HIDE DEF All
    <3>1. market.queue \in Queues
      <4> HIDE DEF Queues
      <4>1. QED
        BY <1>3
    <3>2. QED
      BY <2>1, <3>1, HeadTailProperties
  <2> DEFINE rest == Tail(market.queue)
  <2> HIDE DEF rest, Queues
  <2>3. rest \in Queues /\ market' = [market EXCEPT !.queue = rest]
    BY <2>1, <2>2 DEF rest
  <2>4. QED
    BY <1>3, <1>4, <2>3
<1> HIDE DEF Queues
<1>8. CASE UNCHANGED market
  BY <1>3, <1>4, <1>8
<1>9. CASE \/ market' = NoStream
           \/ market' = [socket |-> "none", reconnectTimer |-> TRUE, queue |-> <<>>]
  BY <1>3, <1>4, <1>9 DEF NoStream
<1>10. CASE \/ market' = [market EXCEPT !.socket = "open"]
            \/ market' = [market EXCEPT !.socket = "connecting"]
            \/ market' = [market EXCEPT !.reconnectTimer = TRUE]
            \/ market' = [market EXCEPT !.reconnectTimer = FALSE, !.socket = "connecting"]
  BY <1>3, <1>4, <1>10
<1>11. QED
  BY <1>5, <1>6, <1>7, <1>8, <1>9, <1>10 DEF Next, vars, SocketOpens, SocketFails,
     ReconnectTimerFires, Start, Stop, Crash, TimerFires, Answer, AnswerArrives, RequestFails

\* The past is in order in every state.
LEMMA PastStays ==
  ASSUME PastInv, [Next]_vars
  PROVE  PastInv'
<1>1. now' \in Nat /\ traded' \in Seq(Nat)
  BY PastGoesOn DEF GoesOn
<1>2. QED
  BY <1>1, RequestsStay, MarketStays DEF PastInv

-----------------------------------------------------------------------------
(***************************************************************************)
(* Steps: the cache.                                                       *)
(***************************************************************************)
\* Steps that are about candles, errors or nothing that is counted or polled.
Aside ==
  \/ Trade \/ Tick \/ SocketOpens \/ SocketFails \/ ReconnectTimerFires \/ Start \/ Stop
  \/ SocketDelivers /\ Head(market.queue).kind = "kline"
  \/ \E kind \in Kinds : TimerFires(kind)
  \/ \E f \in requests :
       \/ Answer(f) \/ RequestFails(f)
       \/ AnswerArrives(f) /\ (~IsRunActive(f.run) \/ RecoverArrives(f) \/ CandlesArrive(f))
  \/ UNCHANGED vars

\* A cache with other candles, or other errors, keeps the rest.
Kept(c, d) == CacheOk(d) /\ KeepsCounts(c, d) /\ KeepsPolls(c, d)

\* Candles of REST are candles.
LEMMA RestCandlesKeep ==
  ASSUME CacheOk(cache), NEW answer, NEW n
  PROVE  Kept(cache, ApplyRestCandles(answer, n).cache)
<1> DEFINE last   == OpenOf(answer.at)
           opens  == {k \in 0 .. last : k > last - n}
           closed == {k \in opens : IsClosed(k)}
           rows   == [k \in closed |-> TradesIn(k, answer.trades)]
           candles == rows @@ cache.closed
           live == IF last \in closed THEN NoCandle
                   ELSE [open |-> last, trades |-> TradesIn(last, answer.trades)]
           next == [cache EXCEPT !.closed = candles, !.live = live]
<1>1. ApplyRestCandles(answer, n).cache = ClearSourceError(next, "candle")
  BY DEF ApplyRestCandles
<1> HIDE DEF candles, live
<1>2. Kept(cache, next)
  BY CandlesSet DEF Kept
<1> HIDE DEF next
<1>3. Kept(next, ClearSourceError(next, "candle"))
  BY <1>2, ErrorsSet DEF Kept
<1>4. QED
  BY <1>1, <1>2, <1>3, KeepsOn DEF Kept

\* So are those of the stream.
LEMMA UpsertKeeps ==
  ASSUME CacheOk(cache), NEW k, NEW n, NEW isClosed
  PROVE  Kept(cache, UpsertCandle(cache, k, n, isClosed))
<1> DEFINE candles == With(cache.closed, k, n)
           live == [open |-> k, trades |-> n]
           next == IF isClosed THEN [cache EXCEPT !.live = NoCandle, !.closed = candles]
                   ELSE [cache EXCEPT !.live = live]
<1>1. UpsertCandle(cache, k, n, isClosed) = ClearSourceError(next, "candle")
  BY DEF UpsertCandle
<1> HIDE DEF candles, live
<1>2. Kept(cache, next)
  BY CandlesSet DEF Kept
<1> HIDE DEF next
<1>3. Kept(next, ClearSourceError(next, "candle"))
  BY <1>2, ErrorsSet DEF Kept
<1>4. QED
  BY <1>1, <1>2, <1>3, KeepsOn DEF Kept

\* A start takes candles of the database.
LEMMA StartKeeps ==
  ASSUME CacheOk(cache), Start
  PROVE  Kept(cache, cache')
<1> DEFINE candles == table @@ cache.closed
           live == IF table = <<>> THEN cache.live ELSE NoCandle
           next == [cache EXCEPT !.closed = candles, !.live = live]
           errors == IF table = <<>> THEN cache.errors ELSE cache.errors \ {"candle"}
<1>1. cache' = [cache EXCEPT !.closed = candles, !.live = live, !.errors = errors]
  BY DEF Start
<1> HIDE DEF candles, live
<1>2. Kept(cache, next)
  BY CandlesSet DEF Kept
<1> DEFINE Logs == Seq(Nat)
           Moments == [Ratios -> Int]
<1>3. cache \in [closed : {cache.closed}, live : {cache.live}, tradeLog : Logs, sessionCvd : Nat,
                 sentiment : Moments, errors : {cache.errors}, offset : Int, roundTrip : Int]
  BY DEF CacheOk
<1>4. \A r \in Ratios : r \in errors <=> r \in cache.errors
  BY MarketDataAssumption
<1> HIDE DEF errors, Logs, Moments
<1>5. /\ cache' \in [closed : {candles}, live : {live}, tradeLog : Logs, sessionCvd : Nat,
                     sentiment : Moments, errors : {errors}, offset : Int, roundTrip : Int]
      /\ KeepsCounts(cache, cache')
      /\ cache'.sentiment = cache.sentiment /\ cache'.offset = cache.offset
      /\ cache'.roundTrip = cache.roundTrip /\ cache'.errors = errors
      /\ cache'.closed = candles /\ cache'.live = live
  BY <1>1, <1>3 DEF KeepsCounts
<1>6. CacheOk(cache')
  BY <1>5 DEF CacheOk, Logs, Moments
<1>7. QED
  BY <1>4, <1>5, <1>6 DEF Kept, KeepsPolls

\* All these steps leave alone what is counted and what is polled.
LEMMA AsideKeeps ==
  ASSUME PastInv, CacheOk(cache), Aside
  PROVE  Kept(cache, cache')
<1>1. CASE UNCHANGED cache
  BY <1>1 DEF Kept, KeepsCounts, KeepsPolls
<1>2. CASE Start
  BY <1>2, StartKeeps
<1>3. CASE SocketDelivers /\ Head(market.queue).kind = "kline"
  BY <1>3, UpsertKeeps DEF SocketDelivers
<1>4. ASSUME NEW f \in requests, RequestFails(f)
      PROVE  Kept(cache, cache')
  <2>1. f.kind \in Kinds /\ f.kind # "statistics"
    BY <1>4 DEF RequestFails, PastInv, RequestOk
  <2>2. SourceOf(f.kind) \in {"candle", "trades", "serverTime"}
    BY <2>1 DEF SourceOf, Kinds
  <2>3. CASE IsRunActive(f.run)
    BY <1>4, <2>2, <2>3, ErrorsSet DEF RequestFails, Kept
  <2>4. CASE ~IsRunActive(f.run)
    BY <1>1, <1>4, <2>4 DEF RequestFails
  <2>5. QED
    BY <2>3, <2>4
<1>5. ASSUME NEW f \in requests, RecoverArrives(f) \/ CandlesArrive(f)
      PROVE  Kept(cache, cache')
  BY <1>5, RestCandlesKeep DEF RecoverArrives, CandlesArrive
<1>6. QED
  BY <1>1, <1>2, <1>3, <1>4, <1>5 DEF Aside, vars, Trade, Tick, SocketOpens, SocketFails,
     ReconnectTimerFires, Stop, TimerFires, Answer, AnswerArrives

\* The other steps are these.
LEMMA StepIs ==
  ASSUME [Next]_vars
  PROVE  \/ Aside \/ Crash
         \/ SocketDelivers /\ Head(market.queue).kind # "kline"
         \/ \E f \in requests :
              /\ AnswerArrives(f)
              /\ TradesArrive(f) \/ StatisticsArrive(f) \/ ServerTimeArrives(f)
BY DEF Next, Aside, AnswerArrives


\* The cache after the trades of an answer
LEMMA TradesArriveIs ==
  ASSUME PastInv, CacheOk(cache), NEW f \in requests, AnswerArrives(f), TradesArrive(f)
  PROVE  \E first \in Nat, n \in Nat :
           /\ first >= 1 /\ first + n - 1 <= Len(traded)
           /\ first = FirstTrade(f.answer.trades) /\ first + n - 1 = f.answer.trades
           /\ cache' = ClearSourceError(AddTrades(cache, first, n), "trades")
           /\ Kept(AddTrades(cache, first, n), cache')
           /\ CacheOk(AddTrades(cache, first, n)) /\ KeepsPolls(cache, AddTrades(cache, first, n))
<1> DEFINE last == f.answer.trades
           first == FirstTrade(last)
           n == last - first + 1
           d == AddTrades(cache, first, n)
<1>1. Len(traded) \in Nat
  BY DEF PastInv
<1>2. last \in 0 .. Len(traded)
  <2>1. RequestOk(f) /\ f.answer # Unanswered
    BY DEF PastInv, AnswerArrives
  <2>2. QED
    BY <2>1 DEF RequestOk, Answers
<1>3. first \in Nat /\ n \in Nat /\ first >= 1 /\ first + n - 1 = last
  <2>1. RestTrades \in Nat /\ last \in Nat
    BY <1>1, <1>2, MarketDataAssumption
  <2>2. first = IF last > RestTrades THEN last - RestTrades + 1 ELSE 1
    BY DEF FirstTrade
  <2> HIDE DEF first, last
  <2>3. first \in Nat /\ first >= 1 /\ last - first + 1 \in Nat
    BY <2>1, <2>2
  <2>4. QED
    BY <2>1, <2>3
<1>4. cache' = ClearSourceError(d, "trades")
  BY DEF TradesArrive
<1> HIDE DEF first, n
<1>5. CacheOk(d) /\ KeepsPolls(cache, d)
  BY <1>3, TradesLeavePolls
<1> HIDE DEF d
<1>6. Kept(d, cache')
  BY <1>4, <1>5, ErrorsSet DEF Kept
<1>7. first = FirstTrade(f.answer.trades) /\ d = AddTrades(cache, first, n)
  BY DEF first, d
<1>8. QED
  BY <1>1, <1>2, <1>3, <1>4, <1>5, <1>6, <1>7

\* Statistics: the parts that did not fail are of the moment of this answer.
LEMMA StatisticsPolled ==
  ASSUME PastInv, CacheOk(cache), NEW f \in requests, AnswerArrives(f), StatisticsArrive(f)
  PROVE  /\ CacheOk(cache') /\ KeepsCounts(cache, cache')
         /\ PolledValuesHold => PolledValuesHold'
<1> DEFINE failed == f.answer.failed
           at == f.answer.at
           sentiment == [r \in Ratios |-> IF r \in failed THEN cache.sentiment[r] ELSE at]
           errors == (cache.errors \ Ratios) \cup failed
           Logs == Seq(Nat)
           Moments == [Ratios -> Int]
<1>1. at \in Int
  <2>1. RequestOk(f) /\ f.answer # Unanswered /\ now \in Nat
    BY DEF PastInv, AnswerArrives
  <2>2. f.answer \in [at : f.asked .. now, trades : 0 .. Len(traded), failed : SUBSET Ratios]
    BY <2>1 DEF RequestOk, Answers
  <2>3. f.asked \in Nat
    BY <2>1 DEF RequestOk
  <2>4. QED
    BY <2>1, <2>2, <2>3
<1>2. cache \in [closed : {cache.closed}, live : {cache.live}, tradeLog : Logs, sessionCvd : Nat,
                 sentiment : Moments, errors : {cache.errors}, offset : Int, roundTrip : Int]
  BY DEF CacheOk
<1>3. sentiment \in Moments
  BY <1>1, <1>2
<1>4. cache' = [cache EXCEPT !.sentiment = sentiment, !.errors = errors]
  BY DEF StatisticsArrive
<1>5. \A r \in Ratios \ errors : sentiment[r] = at
  OBVIOUS
<1> HIDE DEF sentiment, errors, Logs, Moments
<1>6. /\ cache' \in [closed : {cache.closed}, live : {cache.live}, tradeLog : Logs,
                     sessionCvd : Nat, sentiment : Moments, errors : {errors}, offset : Int,
                     roundTrip : Int]
      /\ cache'.closed = cache.closed /\ cache'.live = cache.live
      /\ KeepsCounts(cache, cache') /\ cache'.sentiment = sentiment /\ cache'.errors = errors
      /\ cache'.offset = cache.offset /\ cache'.roundTrip = cache.roundTrip
  BY <1>2, <1>3, <1>4 DEF KeepsCounts
<1>7. CacheOk(cache')
  BY <1>6 DEF CacheOk, Logs, Moments
<1>8. RatiosAgree'
  BY <1>5, <1>6 DEF RatiosAgree
<1>9. OffsetIsClose => OffsetIsClose'
  BY <1>6 DEF OffsetIsClose
<1>10. QED
  BY <1>6, <1>7, <1>8, <1>9 DEF PolledValuesHold

\* The clock: whenever it was read, it was read within the round trip.
LEMMA ServerTimePolled ==
  ASSUME PastInv, CacheOk(cache), NEW f \in requests, AnswerArrives(f), ServerTimeArrives(f)
  PROVE  /\ CacheOk(cache') /\ KeepsCounts(cache, cache')
         /\ PolledValuesHold => PolledValuesHold'
<1> DEFINE at == f.answer.at
           half == (f.asked + now + 1) \div 2
           offset == at + ClockOffset - half
           roundTrip == now - f.asked
           errors == cache.errors \ {"serverTime"}
           Logs == Seq(Nat)
           Moments == [Ratios -> Int]
<1>1. now \in Nat /\ f.asked \in Nat /\ at \in f.asked .. now
  <2>1. RequestOk(f) /\ f.answer # Unanswered /\ now \in Nat
    BY DEF PastInv, AnswerArrives
  <2>2. f.answer \in [at : f.asked .. now, trades : 0 .. Len(traded), failed : SUBSET Ratios]
    BY <2>1 DEF RequestOk, Answers
  <2>3. f.asked \in Nat
    BY <2>1 DEF RequestOk
  <2>4. QED
    BY <2>1, <2>2, <2>3
<1>2. half \in Int /\ 2 * half \in f.asked + now .. f.asked + now + 1
  BY <1>1
<1> HIDE DEF at, half
<1>3. /\ offset \in Int /\ roundTrip \in Int
      /\ 2 * (offset - ClockOffset) \in -(roundTrip + 1) .. roundTrip
  BY <1>1, <1>2, MarketDataAssumption
<1>4. cache' = [cache EXCEPT !.offset = offset, !.roundTrip = roundTrip, !.errors = errors]
  BY DEF ServerTimeArrives, ClearSourceError, half, at
<1>5. cache \in [closed : {cache.closed}, live : {cache.live}, tradeLog : Logs, sessionCvd : Nat,
                 sentiment : Moments, errors : {cache.errors}, offset : Int, roundTrip : Int]
  BY DEF CacheOk
<1>6. \A r \in Ratios : r \in errors <=> r \in cache.errors
  BY MarketDataAssumption
<1> HIDE DEF offset, roundTrip, errors, Logs, Moments
<1>7. /\ cache' \in [closed : {cache.closed}, live : {cache.live}, tradeLog : Logs,
                     sessionCvd : Nat, sentiment : Moments, errors : {errors}, offset : Int,
                     roundTrip : Int]
      /\ cache'.closed = cache.closed /\ cache'.live = cache.live
      /\ KeepsCounts(cache, cache') /\ cache'.sentiment = cache.sentiment
      /\ cache'.errors = errors /\ cache'.offset = offset /\ cache'.roundTrip = roundTrip
  BY <1>3, <1>4, <1>5 DEF KeepsCounts
<1>8. CacheOk(cache')
  BY <1>7 DEF CacheOk, Logs, Moments
<1>9. RatiosAgree => RatiosAgree'
  BY <1>6, <1>7 DEF RatiosAgree
<1>10. OffsetIsClose'
  BY <1>3, <1>7 DEF OffsetIsClose
<1>11. QED
  BY <1>7, <1>8, <1>9, <1>10 DEF PolledValuesHold

\* A cache of nothing is in order.
LEMMA EmptyCacheOk ==
  /\ CacheOk(EmptyCache) /\ LogOk(EmptyCache)
  /\ \A r \in Ratios : EmptyCache.sentiment[r] = Never
  /\ EmptyCache.roundTrip = Never
<1> DEFINE moments == [r \in Ratios |-> Never]
           c == EmptyCache
           Logs == Seq(Nat)
           Moments == [Ratios -> Int]
<1>1. moments \in Moments /\ \A r \in Ratios : moments[r] = Never
  BY DEF Never
<1>2. <<>> \in Logs
  OBVIOUS
<1>3. /\ c.sentiment = moments /\ c.roundTrip = Never /\ c.tradeLog = <<>>
      /\ c.sessionCvd = 0
  BY DEF EmptyCache
<1> HIDE DEF moments, Logs, Moments
<1>4. CacheOk(c)
  <2>1. c \in [closed : {c.closed}, live : {c.live}, tradeLog : Logs, sessionCvd : Nat,
               sentiment : Moments, errors : {c.errors}, offset : Int, roundTrip : Int]
    BY <1>1, <1>2 DEF EmptyCache, Never, moments
  <2>2. QED
    BY <2>1 DEF CacheOk, Logs, Moments
<1> HIDE DEF c
<1>5. LogOk(c)
  <2>1. Range(<<>>) = {} /\ Distinct(<<>>)
    BY DEF Range, Distinct
  <2>2. Cardinality({}) = 0
    BY FS_EmptySet
  <2>3. CountedIn(c, {})
    BY <1>3, <2>1, <2>2 DEF CountedIn
  <2>4. QED
    BY <1>3, <2>1, <2>3 DEF LogOk
<1>6. QED
  BY <1>1, <1>3, <1>4, <1>5 DEF c

\* The first message, unless it is a candle, is a trade that was made.
LEMMA HeadIsTrade ==
  ASSUME PastInv, market.queue # <<>>, Head(market.queue).kind # "kline"
  PROVE  /\ 1 \in DOMAIN market.queue /\ Head(market.queue) = market.queue[1]
         /\ Head(market.queue).kind = "aggTrade" /\ Head(market.queue).id \in 1 .. Len(traded)
         /\ Head(market.queue).id \in Nat
<1>1. market.queue \in Seq(Messages)
  BY DEF PastInv, MarketOk
<1>2. Head(market.queue) \in Messages /\ Head(market.queue) = market.queue[1]
      /\ 1 \in DOMAIN market.queue
  BY <1>1
<1>3. Len(traded) \in Nat
  BY DEF PastInv
<1>4. Head(market.queue).kind = "aggTrade" /\ Head(market.queue).id \in 1 .. Len(traded)
  BY <1>2 DEF Messages
<1>5. QED
  BY <1>2, <1>3, <1>4

\* The first state is in order.
LEMMA InitIsInOrder ==
  ASSUME Init
  PROVE  PastInv /\ CacheOk(cache) /\ LogOk(cache) /\ PolledValuesHold
<1>1. CacheOk(cache) /\ LogOk(cache)
  BY EmptyCacheOk DEF Init
<1>2. PolledValuesHold
  BY EmptyCacheOk DEF Init, PolledValuesHold, RatiosAgree, OffsetIsClose
<1>3. MarketOk
  BY DEF Init, NoStream, MarketOk
<1>4. QED
  BY <1>1, <1>2, <1>3 DEF Init, PastInv

\* The polled values are right in every state.
LEMMA PolledStep ==
  ASSUME PolledInv, [Next]_vars
  PROVE  PolledInv'
<1>1. PastInv /\ CacheOk(cache) /\ PolledValuesHold /\ PastInv'
  BY PastStays DEF PolledInv
<1>2. CASE Aside
  BY <1>1, <1>2, AsideKeeps, PolledValuesStay DEF Kept, PolledInv
<1>3. CASE Crash
  <2>1. cache' = EmptyCache
    BY <1>3 DEF Crash
  <2>2. RatiosAgree' /\ OffsetIsClose'
    BY <2>1, EmptyCacheOk DEF RatiosAgree, OffsetIsClose
  <2>3. QED
    BY <1>1, <2>1, <2>2, EmptyCacheOk DEF PolledInv, PolledValuesHold
<1>4. CASE SocketDelivers /\ Head(market.queue).kind # "kline"
  <2> DEFINE m == Head(market.queue)
  <2>1. m.id \in Nat /\ cache' = AddTrade(cache, m.id)
    BY <1>1, <1>4, HeadIsTrade DEF SocketDelivers, PastInv
  <2> HIDE DEF m
  <2>2. AddedTo(cache, m.id, cache')
    BY <1>1, <2>1, AddTradeIs
  <2>3. KeepsPolls(cache, cache') /\ CacheOk(cache')
    BY <2>2, MarketDataAssumption DEF AddedTo, KeepsPolls
  <2>4. QED
    BY <1>1, <2>3, PolledValuesStay DEF PolledInv
<1>5. ASSUME NEW f \in requests, AnswerArrives(f), TradesArrive(f)
      PROVE  PolledInv'
  <2>1. PICK first \in Nat, n \in Nat :
          /\ Kept(AddTrades(cache, first, n), cache')
          /\ KeepsPolls(cache, AddTrades(cache, first, n))
    BY <1>1, <1>5, TradesArriveIs
  <2>2. KeepsPolls(cache, cache') /\ CacheOk(cache')
    BY <2>1, KeepsOn DEF Kept
  <2>3. QED
    BY <1>1, <2>2, PolledValuesStay DEF PolledInv
<1>6. ASSUME NEW f \in requests, AnswerArrives(f), StatisticsArrive(f) \/ ServerTimeArrives(f)
      PROVE  PolledInv'
  BY <1>1, <1>6, StatisticsPolled, ServerTimePolled DEF PolledInv
<1>7. QED
  BY <1>2, <1>3, <1>4, <1>5, <1>6, StepIs

\* The ratios without an error are of one refresh, and the clock offset is off by
\* no more than half of its round trip, in every state (refreshStatistics,
\* refreshServerTime).
THEOREM PolledValuesAreRight == Spec => []PolledValuesHold
<1>1. Init => PolledInv
  BY InitIsInOrder DEF PolledInv
<1>2. PolledInv /\ [Next]_vars => PolledInv'
  BY PolledStep
<1>3. PolledInv => PolledValuesHold
  BY DEF PolledInv
<1>4. QED
  BY <1>1, <1>2, <1>3, PTL DEF Spec
-----------------------------------------------------------------------------
(***************************************************************************)
(* Steps: what was counted.                                                *)
(***************************************************************************)
CountInv == PastInv /\ CacheOk(cache) /\ LogOk(cache)

\* What is not remembered never is again, so a log stays in order.
LEMMA LogStays ==
  ASSUME PastInv, GoesOn, NEW c, LogOk(c), cache' = c
  PROVE  LogOk(cache)'
<1>1. PICK C : CountedIn(c, C)
  BY DEF LogOk
<1>2. Len(traded) \in Nat /\ Len(traded') \in Nat /\ now \in Nat /\ now' \in Nat
  BY DEF PastInv, GoesOn
<1>3. C \subseteq 1 .. Len(traded) /\ C \subseteq 1 .. Len(traded')
  BY <1>1, <1>2 DEF CountedIn, GoesOn
<1>4. \A id \in 1 .. Len(traded) : ~Remembered(id) => ~Remembered(id)'
  <2>1. SUFFICES ASSUME NEW id \in 1 .. Len(traded), ~Remembered(id)
                 PROVE  ~Remembered(id)'
    OBVIOUS
  <2>2. traded'[id] = traded[id] /\ now' >= now
    BY DEF GoesOn
  <2>3. traded[id] \in Nat
    BY DEF PastInv
  <2>4. TradeHistory \in Nat
    BY MarketDataAssumption
  <2>5. traded[id] < now - TradeHistory
    BY <1>2, <2>1, <2>3, <2>4 DEF Remembered
  <2>6. traded'[id] < now' - TradeHistory
    BY <1>2, <2>2, <2>3, <2>4, <2>5
  <2>7. QED
    BY <1>2, <2>2, <2>3, <2>4, <2>6 DEF Remembered
<1>5. Distinct(cache'.tradeLog)
  BY DEF LogOk
<1>6. CountedIn(cache, C)'
  BY <1>1, <1>3, <1>4 DEF CountedIn
<1>7. QED
  BY <1>5, <1>6 DEF LogOk

\* What keeps the counts keeps their log.
LEMMA CountsKept ==
  ASSUME NEW c, NEW d, LogOk(c), KeepsCounts(c, d)
  PROVE  LogOk(d)
BY DEF LogOk, CountedIn, KeepsCounts

\* No trade is counted twice by a step, when nothing old is under way.
LEMMA CountStep ==
  ASSUME CountInv, NothingOldUnderWay, [Next]_vars
  PROVE  CountInv'
<1>1. PastInv /\ CacheOk(cache) /\ LogOk(cache) /\ PastInv' /\ GoesOn
  BY PastStays, PastGoesOn DEF CountInv
<1>2. ASSUME NEW c, CacheOk(c), LogOk(c), cache' = c
      PROVE  CountInv'
  BY <1>1, <1>2, LogStays DEF CountInv
<1>3. CASE Aside
  BY <1>1, <1>2, <1>3, AsideKeeps, CountsKept DEF Kept
<1>4. CASE Crash
  BY <1>2, <1>4, EmptyCacheOk DEF Crash
<1>5. CASE SocketDelivers /\ Head(market.queue).kind # "kline"
  <2> DEFINE m == Head(market.queue)
  <2>1. m.kind = "aggTrade" /\ m.id \in 1 .. Len(traded) /\ Remembered(m.id)
    BY <1>1, <1>5, HeadIsTrade DEF NothingOldUnderWay, SocketDelivers, PastInv
  <2>2. cache' = AddTrade(cache, m.id)
    BY <1>5 DEF SocketDelivers
  <2> HIDE DEF m
  <2>3. m.id \in Nat /\ traded \in Seq(Nat)
    BY <1>1, <2>1 DEF PastInv
  <2>4. CacheOk(cache')
    BY <1>1, <2>2, <2>3, AddTradeIs DEF AddedTo
  <2>5. LogOk(cache')
    BY <1>1, <2>1, <2>2, <2>3, AddTradeCounts
  <2>6. QED
    BY <1>2, <2>4, <2>5
<1>6. ASSUME NEW f \in requests, AnswerArrives(f), TradesArrive(f)
      PROVE  CountInv'
  <2>1. PICK first \in Nat, n \in Nat :
          /\ first >= 1 /\ first + n - 1 <= Len(traded)
          /\ first = FirstTrade(f.answer.trades) /\ first + n - 1 = f.answer.trades
          /\ Kept(AddTrades(cache, first, n), cache')
          /\ CacheOk(AddTrades(cache, first, n))
    BY <1>1, <1>6, TradesArriveIs
  <2>2. \A id \in first .. first + n - 1 : Remembered(id)
    BY <1>6, <2>1 DEF NothingOldUnderWay, TradesArrive
  <2>3. LogOk(AddTrades(cache, first, n))
    <3>1. traded \in Seq(Nat)
      BY <1>1 DEF PastInv
    <3>2. QED
      BY <1>1, <2>1, <2>2, <3>1, AddTradesCount
  <2>4. CacheOk(cache') /\ LogOk(cache')
    BY <2>1, <2>3, CountsKept DEF Kept
  <2>5. QED
    BY <1>2, <2>4
<1>7. ASSUME NEW f \in requests, AnswerArrives(f), StatisticsArrive(f) \/ ServerTimeArrives(f)
      PROVE  CountInv'
  BY <1>1, <1>2, <1>7, StatisticsPolled, ServerTimePolled, CountsKept
<1>8. QED
  BY <1>3, <1>4, <1>5, <1>6, <1>7, StepIs

\* No trade counts twice in the session's delta, in every state that is reached
\* while no trade comes later than it is remembered (addTrade, pruneEvents).
THEOREM TradesCountOnce == Spec /\ []NothingOldUnderWay => []TradeCountsOnce
<1>1. Init => CountInv
  BY InitIsInOrder DEF CountInv
<1>2. CountInv /\ NothingOldUnderWay /\ [Next]_vars => CountInv'
  BY CountStep
<1>3. CountInv => TradeCountsOnce
  BY CountedOnce DEF CountInv, PastInv
<1>4. QED
  BY <1>1, <1>2, <1>3, PTL DEF Spec
=============================================================================
