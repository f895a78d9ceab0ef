------------------------- MODULE ExternalContextProofs -------------------------
(***************************************************************************)
(* Proofs about CrossMarket, ContextUpload, ExternalContext and what       *)
(* MCExternalContext makes of them, for any number of uploaders, uploads,  *)
(* requests, sockets, sources and statements that fail, and any limits of  *)
(* age: what the relay serves of items and of prices only advances, is     *)
(* what was acknowledged or newer, and what is shown of the sources is     *)
(* true of them.                                                           *)
(***************************************************************************)
EXTENDS MCExternalContext, FiniteSetTheorems, WellFoundedInduction, TLAPS
-----------------------------------------------------------------------------
(***************************************************************************)
(* The prices of other venues: the invariant.                              *)
(***************************************************************************)
Contexts == Prices!Context \cup {Null}
AskTypes ==
  [phase : {"idle", "loading", "fetching", "saving", "answered"}, now : Nat,
   cached : Contexts, since : Nat \cup {Null}, began : Nat, answer : Contexts,
   isCached : BOOLEAN]

\* A context that was stored has a price, and is of the past.
StoredBy(context, moment) ==
  context # Null => ~Prices!IsEmpty(context) /\ context.at <= moment

PricesTyped ==
  /\ time \in 0 .. LastMoment /\ dbFaults \in Nat
  /\ row \in Contexts /\ shown \in Nat \cup {Null}
  /\ asked \in [Askers -> AskTypes]

\* A request is of the past, and has read what was stored.
AskOk(q, moment) ==
  /\ q.now <= moment /\ (q.since # Null => q.since <= q.now)
  /\ StoredBy(q.cached, moment)
  /\ q.phase = "saving" =>
       q.answer # Null /\ q.answer.at = q.now /\ ~Prices!IsEmpty(q.answer)

\* As long as the database has not failed, the row is as new as what had been shown
\* when a request began, and as the row that it has read, which was as new as well.
AskHonest(q, stored) ==
  /\ q.since # Null => stored # Null /\ stored.at >= q.since
  /\ q.phase = "fetching" /\ q.since # Null => q.cached # Null /\ q.cached.at >= q.since
  /\ q.cached # Null => stored # Null /\ stored.at >= q.cached.at

\* A request is answered as AnswersAdvance and AnswersAreLabelled say of all.
AnswerAdvances(q, faults) ==
  faults = 0 /\ ~Prices!IsEmpty(q.answer) /\ q.since # Null => q.answer.at >= q.since

AnswerLabelled(q) ==
  /\ q.answer # Null
  /\ q.now - q.answer.at <= FallbackAge
  /\ q.answer.at # q.now => q.isCached
  /\ Prices!IsEmpty(q.answer) => q.cached = Null \/ q.now - q.cached.at > FallbackAge

AskInv(r) ==
  /\ AskOk(asked[r], time)
  /\ dbFaults = 0 => AskHonest(asked[r], row)
  /\ asked[r].phase = "answered" => AnswerAdvances(asked[r], dbFaults) /\ AnswerLabelled(asked[r])

PricesInv ==
  /\ PricesTyped
  /\ StoredBy(row, time) /\ (shown # Null => shown <= time)
  /\ dbFaults = 0 /\ shown # Null => row # Null /\ row.at >= shown
  /\ \A r \in Askers : AskInv(r)
-----------------------------------------------------------------------------
(***************************************************************************)
(* The prices of other venues: the steps of a request.                     *)
(***************************************************************************)
\* A stored context is not taken for nothing, nor a time.
LEMMA NullIsNothing ==
  /\ \A c \in Prices!Context : c # Null /\ c.at \in 0 .. LastMoment /\ c.at \in Nat
  /\ \A c \in Prices!Context : c.quotes \in [Prices!Venues -> SUBSET Assets]
  /\ \A n \in Nat : n # Null
BY CrossMarketAssumption DEF Prices!Context

\* What the relay keeps is as new as before, and has prices.
LEMMA StoredAdvances ==
  ASSUME NEW old \in Contexts, NEW fresh \in Prices!Context, NEW moment \in Nat,
         StoredBy(old, moment), ~Prices!IsEmpty(fresh), fresh.at <= moment
  PROVE  LET kept == Prices!Stored(old, fresh)
         IN  /\ kept \in Prices!Context /\ StoredBy(kept, moment) /\ kept.at >= fresh.at
             /\ old # Null => kept.at >= old.at
BY NullIsNothing DEF Contexts, StoredBy, Prices!Stored

\* What has been shown is the later of two, if any.
LEMMA LaterIsLater ==
  ASSUME NEW a \in Nat \cup {Null}, NEW b \in Nat
  PROVE  /\ Prices!Later(a, b) \in Nat
         /\ Prices!Later(a, b) = b \/ (a # Null /\ Prices!Later(a, b) = a)
BY NullIsNothing DEF Prices!Later

\* What a request may do to what is stored and shown
StoreMoves ==
  /\ time' = time /\ dbFaults' \in Nat /\ dbFaults' >= dbFaults
  /\ row' \in Contexts /\ StoredBy(row', time) /\ (row # Null => row' # Null /\ row'.at >= row.at)
  /\ shown' \in Nat \cup {Null} /\ (shown' # Null => shown' <= time)
  /\ dbFaults' = 0 /\ shown' # Null => row' # Null /\ row'.at >= shown'

\* One request goes on, and the others stand as before.
LEMMA AskMoves ==
  ASSUME PricesInv, StoreMoves, NEW r \in Askers, NEW q \in AskTypes,
         asked' = [asked EXCEPT ![r] = q],
         AskOk(q, time), dbFaults' = 0 => AskHonest(q, row'),
         q.phase = "answered" => AnswerAdvances(q, dbFaults') /\ AnswerLabelled(q)
  PROVE  PricesInv'
<1>1. asked' \in [Askers -> AskTypes] /\ asked'[r] = q
  BY DEF PricesInv, PricesTyped
<1>2. \A p \in Askers \ {r} : asked'[p] = asked[p]
  BY DEF PricesInv, PricesTyped
<1>3. dbFaults' = 0 => dbFaults = 0
  BY DEF PricesInv, PricesTyped, StoreMoves
<1>4. ASSUME NEW p \in Askers
      PROVE  AskInv(p)'
  <2>1. CASE p = r
    BY <1>1, <2>1 DEF AskInv, AskOk, StoredBy, StoreMoves, AnswerLabelled
  <2>2. CASE p # r
    <3>1. AskInv(p) /\ asked[p] \in AskTypes
      BY DEF PricesInv, PricesTyped
    <3>2. AskOk(asked'[p], time')
      BY <1>2, <2>2, <3>1 DEF AskInv, AskOk, StoredBy, StoreMoves
    <3>3. dbFaults' = 0 => AskHonest(asked'[p], row')
      <4>1. row # Null => row.at \in Nat
        BY NullIsNothing DEF PricesInv, PricesTyped, Contexts
      <4>2. row' # Null => row'.at \in Nat
        BY NullIsNothing DEF StoreMoves, Contexts
      <4>3. /\ asked[p].since # Null => asked[p].since \in Nat
            /\ asked[p].cached # Null => asked[p].cached.at \in Nat
        BY <3>1, NullIsNothing DEF AskTypes, Contexts
      <4>4. QED
        BY <1>2, <1>3, <2>2, <3>1, <4>1, <4>2, <4>3 DEF AskInv, AskHonest, StoreMoves
    <3>4. asked'[p].phase = "answered" =>
            AnswerAdvances(asked'[p], dbFaults') /\ AnswerLabelled(asked'[p])
      BY <1>2, <1>3, <2>2, <3>1 DEF AskInv, AnswerAdvances
    <3>5. QED
      BY <3>2, <3>3, <3>4 DEF AskInv, AnswerLabelled
  <2>3. QED
    BY <2>1, <2>2
<1>5. PricesTyped'
  BY <1>1 DEF PricesInv, PricesTyped, StoreMoves
<1>6. StoredBy(row, time)' /\ (shown' # Null => shown' <= time')
  BY DEF StoreMoves, StoredBy
<1>7. QED
  BY <1>4, <1>5, <1>6 DEF PricesInv, StoreMoves

\* Nothing is stored or shown.
LEMMA StoreStays ==
  ASSUME PricesInv, UNCHANGED <<time, row, shown>>, dbFaults' \in Nat, dbFaults' >= dbFaults
  PROVE  StoreMoves
<1>1. row' \in Contexts /\ StoredBy(row', time) /\ shown' \in Nat \cup {Null}
  BY DEF PricesInv, PricesTyped
<1>2. row # Null => row'.at >= row.at
  <2>1. row # Null => row.at \in Nat
    BY NullIsNothing DEF PricesInv, PricesTyped, Contexts
  <2>2. QED
    BY <2>1
<1>3. dbFaults' = 0 => dbFaults = 0
  BY DEF PricesInv, PricesTyped
<1>4. QED
  BY <1>1, <1>2, <1>3 DEF PricesInv, StoreMoves

\* A response, of what is stored, or of nothing
LEMMA AnswerIs ==
  ASSUME PricesInv, NEW r \in Askers, NEW context \in Prices!Context, NEW cached \in BOOLEAN,
         Prices!Answer(r, context, cached)
  PROVE  \E q \in AskTypes :
           /\ asked' = [asked EXCEPT ![r] = q] /\ q.phase = "answered"
           /\ q.answer = context /\ q.isCached = cached
           /\ q.now = asked[r].now /\ q.since = asked[r].since /\ q.cached = asked[r].cached
<1> DEFINE q == [asked[r] EXCEPT !.phase = "answered", !.answer = context,
                                 !.isCached = cached, !.began = 0]
<1>1. asked[r] \in AskTypes /\ asked \in [Askers -> AskTypes] /\ context \in Contexts
  BY DEF PricesInv, PricesTyped, Contexts
<1>2. /\ q \in AskTypes /\ q.phase = "answered" /\ q.answer = context /\ q.isCached = cached
      /\ q.now = asked[r].now /\ q.since = asked[r].since /\ q.cached = asked[r].cached
  BY <1>1 DEF AskTypes
<1>3. asked' = [asked EXCEPT ![r] = q]
  BY <1>1 DEF Prices!Answer
<1>4. QED
  BY <1>2, <1>3

LEMMA ShownMoves ==
  ASSUME PricesInv, NEW r \in Askers, NEW context \in Prices!Context, NEW cached \in BOOLEAN,
         Prices!Answer(r, context, cached),
         time' = time, dbFaults' \in Nat, dbFaults' >= dbFaults,
         row' \in Contexts, StoredBy(row', time), row # Null => row' # Null /\ row'.at >= row.at,
         \/ Prices!IsEmpty(context)
         \/ context.at <= time /\ (dbFaults' = 0 => row' # Null /\ row'.at >= context.at)
  PROVE  StoreMoves
<1>1. shown \in Nat \cup {Null} /\ context.at \in Nat
  BY NullIsNothing DEF PricesInv, PricesTyped
<1>2. shown' = IF Prices!IsEmpty(context) THEN shown ELSE Prices!Later(shown, context.at)
  BY DEF Prices!Answer
<1>3. shown # Null => shown <= time /\ (dbFaults' = 0 => row' # Null /\ row'.at >= shown)
  <2>1. dbFaults' = 0 => dbFaults = 0
    BY DEF PricesInv, PricesTyped
  <2>2. /\ row # Null => row.at \in Nat
        /\ row' # Null => row'.at \in Nat
    BY NullIsNothing DEF PricesInv, PricesTyped, Contexts
  <2>3. QED
    BY <1>1, <2>1, <2>2 DEF PricesInv
<1>4. CASE Prices!IsEmpty(context)
  BY <1>1, <1>2, <1>3, <1>4 DEF StoreMoves
<1>5. CASE ~Prices!IsEmpty(context)
  <2>1. /\ shown' \in Nat
        /\ shown' = context.at \/ (shown # Null /\ shown' = shown)
    BY <1>1, <1>2, <1>5, LaterIsLater
  <2>2. QED
    BY <1>3, <1>5, <2>1 DEF StoreMoves
<1>6. QED
  BY <1>4, <1>5
\* Ask takes the time and what was shown by then.
LEMMA AskKeeps ==
  ASSUME PricesInv, NEW r \in Askers, Prices!Ask(r)
  PROVE  PricesInv'
<1> DEFINE q == [Prices!Idle EXCEPT !.phase = "loading", !.now = time, !.since = shown]
<1>1. asked' = [asked EXCEPT ![r] = q] /\ UNCHANGED <<time, row, shown, dbFaults>>
  BY DEF Prices!Ask
<1>2. time \in Nat /\ dbFaults \in Nat /\ shown \in Nat \cup {Null}
  BY CrossMarketAssumption DEF PricesInv, PricesTyped
<1>3. /\ q \in AskTypes /\ q.phase = "loading" /\ q.now = time /\ q.since = shown /\ q.cached = Null
  <2>1. Prices!Idle \in AskTypes /\ Prices!Idle.cached = Null
    BY DEF Prices!Idle, AskTypes, Contexts
  <2>2. QED
    BY <1>2, <2>1 DEF AskTypes
<1> HIDE DEF q
<1>4. AskOk(q, time)
  BY <1>2, <1>3 DEF PricesInv, AskOk, StoredBy
<1>5. dbFaults' = 0 => AskHonest(q, row')
  BY <1>1, <1>2, <1>3 DEF PricesInv, AskHonest
<1>6. StoreMoves
  BY <1>1, <1>2, StoreStays
<1>7. QED
  BY <1>1, <1>3, <1>4, <1>5, <1>6, AskMoves

\* The row that loadCached returns: what is stored, or nothing if that fails.
LEMMA LoadKeeps ==
  ASSUME PricesInv, NEW r \in Askers, Prices!Load(r)
  PROVE  PricesInv'
<1>1. PICK cached \in {row, Null} :
        /\ dbFaults' = IF cached # row THEN dbFaults + 1 ELSE dbFaults
        /\ IF cached # Null /\ asked[r].now - cached.at <= CacheTtl
           THEN Prices!Answer(r, cached, TRUE)
           ELSE /\ asked' = [asked EXCEPT ![r].phase = "fetching", ![r].cached = cached,
                                          ![r].began = time]
                /\ UNCHANGED shown
  BY DEF Prices!Load
<1>2. UNCHANGED <<time, row>>
  BY DEF Prices!Load
<1>3. /\ asked[r] \in AskTypes /\ asked \in [Askers -> AskTypes] /\ time \in Nat
      /\ dbFaults \in Nat /\ row \in Contexts /\ AskInv(r) /\ asked[r].phase = "loading"
  BY CrossMarketAssumption DEF PricesInv, PricesTyped, Prices!Load
<1>4. /\ cached \in Contexts /\ StoredBy(cached, time)
      /\ dbFaults' \in Nat /\ dbFaults' >= dbFaults
      /\ dbFaults' = 0 => dbFaults = 0 /\ cached = row
  BY <1>1, <1>3 DEF Contexts, PricesInv, StoredBy
<1>5. /\ asked[r].now \in Nat /\ asked[r].now <= time
      /\ asked[r].since # Null => asked[r].since \in Nat /\ asked[r].since <= asked[r].now
      /\ asked[r].since # Null /\ dbFaults' = 0 => cached # Null /\ cached.at >= asked[r].since
      /\ asked[r].since # Null /\ dbFaults' = 0 => row # Null /\ row.at >= asked[r].since
      /\ asked[r].cached # Null /\ dbFaults' = 0 => row # Null /\ row.at >= asked[r].cached.at
      /\ cached # Null /\ dbFaults' = 0 => row # Null /\ row.at >= cached.at
      /\ StoredBy(asked[r].cached, time)
  <2>1. cached # Null => cached.at \in Nat
    BY <1>4, NullIsNothing DEF Contexts
  <2>2. QED
    BY <1>3, <1>4, <2>1 DEF AskTypes, AskInv, AskOk, AskHonest
<1>6. CASE cached # Null /\ asked[r].now - cached.at <= CacheTtl
  <2>0. Prices!Answer(r, cached, TRUE)
    BY <1>1, <1>6
  <2>1. /\ cached \in Prices!Context /\ ~Prices!IsEmpty(cached) /\ cached.at <= time
        /\ cached.at \in Nat /\ Prices!Answer(r, cached, TRUE)
    <3>1. cached \in Prices!Context
      BY <1>4, <1>6 DEF Contexts
    <3>2. cached.at \in Nat
      BY <3>1, NullIsNothing
    <3>3. QED
      BY <2>0, <1>4, <1>6, <3>1, <3>2 DEF StoredBy
  <2>2. PICK q \in AskTypes :
           /\ asked' = [asked EXCEPT ![r] = q] /\ q.phase = "answered"
           /\ q.answer = cached /\ q.isCached = TRUE
           /\ q.now = asked[r].now /\ q.since = asked[r].since /\ q.cached = asked[r].cached
    BY <2>1, AnswerIs
  <2>3. dbFaults' = 0 => row' # Null /\ row'.at >= cached.at
    BY <1>2, <1>4, <1>6, <2>1
  <2>4. /\ row' \in Contexts /\ StoredBy(row', time)
        /\ row # Null => row' # Null /\ row'.at >= row.at
    BY <1>2, <1>3, <1>4, NullIsNothing DEF PricesInv, Contexts
  <2>5. StoreMoves
    BY <1>2, <1>4, <2>1, <2>3, <2>4, ShownMoves
  <2>6. AskOk(q, time)
    BY <1>5, <2>2 DEF AskOk
  <2>7. dbFaults' = 0 => AskHonest(q, row')
    BY <1>2, <1>5, <2>2 DEF AskHonest
  <2>8. AnswerAdvances(q, dbFaults')
    BY <1>5, <2>2 DEF AnswerAdvances
  <2>9. AnswerLabelled(q)
    BY <1>5, <1>6, <2>1, <2>2, CrossMarketAssumption DEF AnswerLabelled
  <2>10. QED
    BY <2>2, <2>5, <2>6, <2>7, <2>8, <2>9, AskMoves
<1>7. CASE ~(cached # Null /\ asked[r].now - cached.at <= CacheTtl)
  <2> DEFINE q == [asked[r] EXCEPT !.phase = "fetching", !.cached = cached, !.began = time]
  <2>1. asked' = [asked EXCEPT ![r] = q] /\ UNCHANGED shown
    BY <1>1, <1>3, <1>7
  <2>2. /\ q \in AskTypes /\ q.phase = "fetching" /\ q.cached = cached
        /\ q.now = asked[r].now /\ q.since = asked[r].since
    BY <1>3, <1>4 DEF AskTypes
  <2> HIDE DEF q
  <2>3. StoreMoves
    BY <1>2, <1>4, <2>1, StoreStays
  <2>4. AskOk(q, time)
    BY <1>4, <1>5, <2>2 DEF AskOk
  <2>5. dbFaults' = 0 => AskHonest(q, row')
    BY <1>2, <1>5, <2>2 DEF AskHonest
  <2>6. QED
    BY <2>1, <2>2, <2>3, <2>4, <2>5, AskMoves
<1>8. QED
  BY <1>6, <1>7

\* What the venues have answered for is saved; without anything, the row that was
\* read is the answer, unless it is too old.
LEMMA FetchEndsKeeps ==
  ASSUME PricesInv, NEW r \in Askers, Prices!FetchEnds(r)
  PROVE  PricesInv'
<1>1. PICK quotes \in Outcomes :
        LET fresh == [at |-> asked[r].now, quotes |-> quotes]
        IN  IF Prices!IsEmpty(fresh) THEN Prices!FallBack(r, fresh)
            ELSE /\ asked' = [asked EXCEPT ![r].phase = "saving", ![r].answer = fresh]
                 /\ UNCHANGED shown
  BY DEF Prices!FetchEnds
<1>2. UNCHANGED <<time, row, dbFaults>>
  BY DEF Prices!FetchEnds
<1>3. /\ asked[r] \in AskTypes /\ asked \in [Askers -> AskTypes] /\ time \in 0 .. LastMoment
      /\ dbFaults \in Nat /\ row \in Contexts /\ AskInv(r) /\ asked[r].phase = "fetching"
      /\ dbFaults' \in Nat /\ dbFaults' >= dbFaults
  BY <1>2 DEF PricesInv, PricesTyped, Prices!FetchEnds
<1> DEFINE cached == asked[r].cached
           fresh == [at |-> asked[r].now, quotes |-> quotes]
<1>4. /\ asked[r].now \in Nat /\ asked[r].now <= time /\ cached \in Contexts
      /\ asked[r].since # Null => asked[r].since \in Nat /\ asked[r].since <= asked[r].now
      /\ asked[r].since # Null /\ dbFaults = 0 =>
           cached # Null /\ cached.at >= asked[r].since /\ row # Null /\ row.at >= asked[r].since
      /\ dbFaults = 0 /\ cached # Null => row # Null /\ row.at >= cached.at
      /\ StoredBy(cached, time)
  BY <1>3 DEF AskTypes, AskInv, AskOk, AskHonest
<1>5. /\ fresh \in Prices!Context /\ fresh.at = asked[r].now
  BY <1>3, <1>4, CrossMarketAssumption DEF Prices!Context
<1>6. /\ row' \in Contexts /\ StoredBy(row', time)
      /\ row # Null => row' # Null /\ row'.at >= row.at
  BY <1>2, <1>3, NullIsNothing DEF PricesInv, Contexts
<1> HIDE DEF fresh
<1>7. CASE ~Prices!IsEmpty(fresh)
  <2> DEFINE q == [asked[r] EXCEPT !.phase = "saving", !.answer = fresh]
  <2>1. asked' = [asked EXCEPT ![r] = q] /\ UNCHANGED shown
    BY <1>1, <1>3, <1>7 DEF fresh
  <2>2. /\ q \in AskTypes /\ q.phase = "saving" /\ q.answer = fresh /\ q.cached = cached
        /\ q.now = asked[r].now /\ q.since = asked[r].since
    BY <1>3, <1>5 DEF AskTypes, Contexts
  <2> HIDE DEF q, cached
  <2>3. StoreMoves
    BY <1>2, <1>3, <2>1, StoreStays
  <2>4. AskOk(q, time)
    BY <1>4, <1>5, <1>7, <2>2, NullIsNothing DEF AskOk
  <2>5. dbFaults' = 0 => AskHonest(q, row')
    BY <1>2, <1>4, <2>2 DEF AskHonest
  <2>6. QED
    BY <2>1, <2>2, <2>3, <2>4, <2>5, AskMoves
<1>8. CASE Prices!IsEmpty(fresh) /\ cached # Null /\ asked[r].now - cached.at <= FallbackAge
  <2>0. Prices!Answer(r, cached, TRUE)
    BY <1>1, <1>8 DEF Prices!FallBack, fresh
  <2>1. /\ cached \in Prices!Context /\ ~Prices!IsEmpty(cached) /\ cached.at <= time
        /\ cached.at \in Nat /\ Prices!Answer(r, cached, TRUE)
    <3>1. cached \in Prices!Context
      BY <1>4, <1>8 DEF Contexts
    <3>2. cached.at \in Nat
      BY <3>1, NullIsNothing
    <3>3. QED
      BY <2>0, <1>4, <1>8, <3>1, <3>2 DEF StoredBy
  <2>2. PICK q \in AskTypes :
           /\ asked' = [asked EXCEPT ![r] = q] /\ q.phase = "answered"
           /\ q.answer = cached /\ q.isCached = TRUE
           /\ q.now = asked[r].now /\ q.since = asked[r].since /\ q.cached = cached
    BY <2>1, AnswerIs
  <2> HIDE DEF cached
  <2>3. dbFaults' = 0 => row' # Null /\ row'.at >= cached.at
    BY <1>2, <1>4, <1>8, <2>1
  <2>4. StoreMoves
    BY <1>2, <1>3, <1>6, <2>1, <2>3, ShownMoves
  <2>5. AskOk(q, time)
    BY <1>4, <2>2 DEF AskOk
  <2>6. dbFaults' = 0 => AskHonest(q, row')
    BY <1>2, <1>4, <2>2 DEF AskHonest
  <2>7. AnswerAdvances(q, dbFaults')
    BY <1>2, <1>4, <2>2 DEF AnswerAdvances
  <2>8. AnswerLabelled(q)
    BY <1>4, <1>8, <2>1, <2>2, CrossMarketAssumption DEF AnswerLabelled
  <2>9. QED
    BY <2>2, <2>4, <2>5, <2>6, <2>7, <2>8, AskMoves
<1>9. CASE Prices!IsEmpty(fresh) /\ ~(cached # Null /\ asked[r].now - cached.at <= FallbackAge)
  <2>1. Prices!Answer(r, fresh, FALSE)
    BY <1>1, <1>9 DEF Prices!FallBack, fresh
  <2>2. PICK q \in AskTypes :
           /\ asked' = [asked EXCEPT ![r] = q] /\ q.phase = "answered"
           /\ q.answer = fresh /\ q.isCached = FALSE
           /\ q.now = asked[r].now /\ q.since = asked[r].since /\ q.cached = cached
    BY <1>5, <2>1, AnswerIs
  <2> HIDE DEF cached
  <2>3. StoreMoves
    BY <1>2, <1>3, <1>5, <1>6, <1>9, <2>1, ShownMoves
  <2>4. AskOk(q, time)
    BY <1>4, <2>2 DEF AskOk
  <2>5. dbFaults' = 0 => AskHonest(q, row')
    BY <1>2, <1>4, <2>2 DEF AskHonest
  <2>6. AnswerAdvances(q, dbFaults')
    BY <1>9, <2>2 DEF AnswerAdvances
  <2>7. AnswerLabelled(q)
    <3>1. cached # Null => cached.at \in Nat
      BY <1>4, NullIsNothing DEF Contexts
    <3>2. fresh # Null
      BY <1>5, NullIsNothing
    <3>3. QED
      BY <1>4, <1>5, <1>9, <2>2, <3>1, <3>2, CrossMarketAssumption DEF AnswerLabelled
  <2>8. QED
    BY <2>2, <2>3, <2>4, <2>5, <2>6, <2>7, AskMoves
<1>10. QED
  BY <1>7, <1>8, <1>9
\* saveCached, of an answer with prices; a failure leaves the row as it was.
LEMMA SaveStores ==
  ASSUME PricesInv, NEW r \in Askers, Prices!Save(r)
  PROVE  /\ asked[r].answer \in Prices!Context /\ asked[r].answer.at = asked[r].now
         /\ ~Prices!IsEmpty(asked[r].answer) /\ asked[r].answer.at <= time
         /\ asked[r].answer.at \in Nat
         /\ row' \in Contexts /\ StoredBy(row', time)
         /\ row # Null => row' # Null /\ row'.at >= row.at
         /\ dbFaults' \in Nat /\ dbFaults' >= dbFaults
         /\ dbFaults' = 0 => row' # Null /\ row'.at >= asked[r].answer.at
<1> DEFINE answer == asked[r].answer
<1>1. /\ asked[r] \in AskTypes /\ AskInv(r) /\ asked[r].phase = "saving" /\ time \in Nat
      /\ dbFaults \in Nat /\ row \in Contexts /\ StoredBy(row, time)
  BY CrossMarketAssumption DEF PricesInv, PricesTyped, Prices!Save
<1>2. /\ answer \in Prices!Context /\ answer.at = asked[r].now /\ ~Prices!IsEmpty(answer)
      /\ answer.at <= time
  BY <1>1 DEF AskInv, AskOk, AskTypes, Contexts
<1>3. answer.at \in Nat
  BY <1>2, NullIsNothing
<1> HIDE DEF answer
<1>4. CASE row' = Prices!Stored(row, answer) /\ UNCHANGED dbFaults
  <2>1. /\ row' \in Prices!Context /\ StoredBy(row', time) /\ row'.at >= answer.at
        /\ row # Null => row'.at >= row.at
    BY <1>1, <1>2, <1>4, StoredAdvances
  <2>2. row' # Null
    BY <2>1, NullIsNothing
  <2>3. QED
    BY <1>1, <1>2, <1>3, <1>4, <2>1, <2>2 DEF Contexts, answer
<1>5. CASE dbFaults' = dbFaults + 1 /\ UNCHANGED row
  <2>1. row # Null => row.at \in Nat
    BY <1>1, NullIsNothing DEF Contexts
  <2>2. QED
    BY <1>1, <1>2, <1>3, <1>5, <2>1 DEF answer
<1>6. QED
  BY <1>4, <1>5 DEF Prices!Save, answer

LEMMA SaveKeeps ==
  ASSUME PricesInv, NEW r \in Askers, Prices!Save(r)
  PROVE  PricesInv'
<1> DEFINE answer == asked[r].answer
<1>1. /\ answer \in Prices!Context /\ answer.at = asked[r].now
      /\ ~Prices!IsEmpty(answer) /\ answer.at <= time
      /\ answer.at \in Nat
      /\ row' \in Contexts /\ StoredBy(row', time)
      /\ row # Null => row' # Null /\ row'.at >= row.at
      /\ dbFaults' \in Nat /\ dbFaults' >= dbFaults
      /\ dbFaults' = 0 => row' # Null /\ row'.at >= answer.at
  BY SaveStores
<1>2. time' = time /\ Prices!Answer(r, answer, FALSE)
  BY DEF Prices!Save
<1>3. /\ asked[r] \in AskTypes /\ AskInv(r) /\ dbFaults \in Nat /\ row \in Contexts
  BY DEF PricesInv, PricesTyped
<1> HIDE DEF answer
<1>4. PICK q \in AskTypes :
         /\ asked' = [asked EXCEPT ![r] = q] /\ q.phase = "answered"
         /\ q.answer = answer /\ q.isCached = FALSE
         /\ q.now = asked[r].now /\ q.since = asked[r].since /\ q.cached = asked[r].cached
  BY <1>1, <1>2, AnswerIs
<1>5. StoreMoves
  BY <1>1, <1>2, ShownMoves
<1>6. AskOk(q, time)
  BY <1>3, <1>4 DEF AskInv, AskOk
<1>7. dbFaults' = 0 => AskHonest(q, row')
  <2>1. /\ row # Null => row.at \in Nat
        /\ row' # Null => row'.at \in Nat
        /\ q.cached # Null => q.cached.at \in Nat
        /\ q.since # Null => q.since \in Nat
    BY <1>1, <1>3, NullIsNothing DEF Contexts, AskTypes
  <2>2. dbFaults' = 0 => dbFaults = 0
    BY <1>1, <1>3
  <2>3. QED
    BY <1>1, <1>3, <1>4, <2>1, <2>2 DEF AskInv, AskHonest
<1>8. AnswerAdvances(q, dbFaults')
  BY <1>1, <1>3, <1>4 DEF AskInv, AskOk, AskTypes, AnswerAdvances
<1>9. AnswerLabelled(q)
  <2>1. answer # Null
    BY <1>1, NullIsNothing
  <2>2. QED
    BY <1>1, <1>4, <2>1, CrossMarketAssumption DEF AnswerLabelled
<1>10. QED
  BY <1>4, <1>5, <1>6, <1>7, <1>8, <1>9, AskMoves

LEMMA TimeKeepsPrices ==
  ASSUME PricesInv, Prices!TimePasses
  PROVE  PricesInv'
<1>1. /\ time \in 0 .. LastMoment /\ time' = time + 1 /\ time < LastMoment
      /\ UNCHANGED <<row, asked, shown, dbFaults>>
  BY DEF PricesInv, PricesTyped, Prices!TimePasses
<1>2. time' \in 0 .. LastMoment
  BY <1>1, CrossMarketAssumption
<1>3. ASSUME NEW context \in Contexts, StoredBy(context, time)
      PROVE  StoredBy(context, time')
  <2>1. context # Null => context.at \in Nat
    BY NullIsNothing DEF Contexts
  <2>2. QED
    BY <1>1, <1>3, <2>1 DEF StoredBy
<1>4. ASSUME NEW r \in Askers
      PROVE  AskInv(r)'
  <2>1. asked[r] \in AskTypes /\ AskInv(r)
    BY DEF PricesInv, PricesTyped
  <2>2. AskOk(asked[r], time')
    BY <1>1, <1>3, <2>1 DEF AskInv, AskOk, AskTypes
  <2>3. QED
    BY <1>1, <2>1, <2>2 DEF AskInv, AnswerLabelled
<1>5. StoredBy(row', time') /\ (shown' # Null => shown' <= time')
  BY <1>1, <1>3 DEF PricesInv, PricesTyped
<1>6. PricesTyped'
  BY <1>1, <1>2 DEF PricesInv, PricesTyped
<1>7. QED
  BY <1>1, <1>4, <1>5, <1>6 DEF PricesInv

LEMMA PricesInitially == Prices!Init => PricesInv
<1> SUFFICES ASSUME Prices!Init PROVE PricesInv
  OBVIOUS
<1>1. /\ time = 0 /\ row = Null /\ shown = Null /\ dbFaults = 0
      /\ asked = [r \in Askers |-> Prices!Idle]
  BY DEF Prices!Init
<1>2. /\ Prices!Idle \in AskTypes /\ Prices!Idle.phase = "idle" /\ Prices!Idle.now = 0
      /\ Prices!Idle.since = Null /\ Prices!Idle.cached = Null
  BY DEF Prices!Idle, AskTypes, Contexts
<1>3. PricesTyped
  BY <1>1, <1>2, CrossMarketAssumption DEF PricesTyped, Contexts
<1>4. \A r \in Askers : AskInv(r)
  BY <1>1, <1>2 DEF AskInv, AskOk, AskHonest, StoredBy
<1>5. QED
  BY <1>1, <1>3, <1>4 DEF PricesInv, StoredBy

LEMMA PricesKept ==
  ASSUME PricesInv, Prices!Next
  PROVE  PricesInv'
BY AskKeeps, LoadKeeps, FetchEndsKeeps, SaveKeeps, TimeKeepsPrices DEF Prices!Next
-----------------------------------------------------------------------------
(***************************************************************************)
(* The prices of other venues: what the properties say.                    *)
(***************************************************************************)
\* A venue that answered for something is told to have.
LEMMA StatusIs ==
  ASSUME NEW context, NEW venue, context.quotes[venue] # {}
  PROVE  Prices!SourceStatus(context, venue, FALSE) \in {"NORMAL", "PARTIAL"}
<1>1. CASE context.quotes[venue] = Assets
  BY <1>1 DEF Prices!SourceStatus
<1>2. CASE context.quotes[venue] # Assets
  BY <1>2 DEF Prices!SourceStatus
<1>3. QED
  BY <1>1, <1>2

\* A spread needs both venues, and a relative return the venue it is of.
LEMMA ShownHasSources ==
  ASSUME NEW context, NEW base \in Assets
  PROVE  /\ Prices!Spreads(context) # {} =>
              \A v \in Prices!Venues : Prices!SourceStatus(context, v, FALSE) # "UNAVAILABLE"
         /\ \A pair \in Prices!RelativeReturns(context, base) :
              Prices!SourceStatus(context, pair[1], FALSE) \in {"NORMAL", "PARTIAL"}
<1>1. ASSUME Prices!Spreads(context) # {}, NEW v \in Prices!Venues
      PROVE  Prices!SourceStatus(context, v, FALSE) # "UNAVAILABLE"
  <2>1. context.quotes[v] # {}
    BY <1>1 DEF Prices!Spreads
  <2>2. QED
    BY <2>1, StatusIs
<1>2. ASSUME NEW pair \in Prices!RelativeReturns(context, base)
      PROVE  Prices!SourceStatus(context, pair[1], FALSE) \in {"NORMAL", "PARTIAL"}
  <2>1. context.quotes[pair[1]] # {}
    BY <1>2 DEF Prices!RelativeReturns
  <2>2. QED
    BY <2>1, StatusIs
<1>3. QED
  BY <1>1, <1>2

LEMMA PricesAnswered ==
  ASSUME PricesInv
  PROVE  Prices!AnswersAdvance /\ Prices!AnswersAreLabelled
<1>1. ASSUME NEW r \in Askers, Prices!Answered(r)
      PROVE  AnswerAdvances(asked[r], dbFaults) /\ AnswerLabelled(asked[r])
  BY <1>1 DEF PricesInv, AskInv, Prices!Answered
<1>2. Prices!AnswersAdvance
  BY <1>1 DEF Prices!AnswersAdvance, AnswerAdvances
<1>3. ASSUME NEW r \in Askers, Prices!Answered(r)
      PROVE  /\ asked[r].answer.at # asked[r].now =>
                  \A v \in Prices!Venues :
                    Prices!SourceStatus(asked[r].answer, v, asked[r].isCached) = "CACHED"
             /\ \A base \in Assets : ~asked[r].isCached =>
                  /\ Prices!Spreads(asked[r].answer) # {} => \A v \in Prices!Venues :
                       Prices!SourceStatus(asked[r].answer, v, asked[r].isCached) # "UNAVAILABLE"
                  /\ \A pair \in Prices!RelativeReturns(asked[r].answer, base) :
                       Prices!SourceStatus(asked[r].answer, pair[1], asked[r].isCached)
                         \in {"NORMAL", "PARTIAL"}
  <2>1. AnswerLabelled(asked[r]) /\ asked[r].isCached \in BOOLEAN
    BY <1>1, <1>3 DEF PricesInv, PricesTyped, AskTypes
  <2>2. CASE asked[r].isCached = TRUE
    BY <2>2 DEF Prices!SourceStatus
  <2>3. CASE asked[r].isCached = FALSE
    BY <2>1, <2>3, ShownHasSources DEF AnswerLabelled
  <2>4. QED
    BY <2>1, <2>2, <2>3
<1>4. Prices!AnswersAreLabelled
  BY <1>1, <1>3 DEF Prices!AnswersAreLabelled, AnswerLabelled
<1>5. QED
  BY <1>2, <1>4

LEMMA RowMoves ==
  ASSUME PricesInv, Prices!Next
  PROVE  row # Null => row' # Null /\ row'.at >= row.at
<1>1. CASE UNCHANGED row
  <2>1. row # Null => row.at \in Nat
    BY NullIsNothing DEF PricesInv, PricesTyped, Contexts
  <2>2. QED
    BY <1>1, <2>1
<1>2. ASSUME NEW r \in Askers, Prices!Save(r)
      PROVE  row # Null => row' # Null /\ row'.at >= row.at
  BY <1>2, SaveStores
<1>3. QED
  BY <1>1, <1>2 DEF Prices!Next, Prices!TimePasses, Prices!Ask, Prices!Load, Prices!FetchEnds
-----------------------------------------------------------------------------
(***************************************************************************)
(* The uploads of items: the invariant.                                    *)
(***************************************************************************)
UploadType == [step : {0, 1, 2, 3}, at : Nat, contents : Contents, digest : Contents, completed : Nat]
RelayType == [rows : [Names -> Row], summary : Row]

\* An upload has reached its first horizons, and with them the summary.
Reached(served, at, n) ==
  \A j \in 1 .. n : at <= served.rows[Horizons[j]].at /\ at <= served.summary.at

\* What was completed has reached all horizons; what is under way, those before.
UploadOk(u, served) ==
  /\ Reached(served, u.completed, 3)
  /\ u.step # 0 => Reached(served, u.at, u.step - 1)

\* A request that is half or wholly saved is in the row, or something newer is.
RequestOk(r, served) ==
  /\ r.state = "half" => r.step = 1 /\ r.row.at <= served.rows["INTRADAY"].at
  /\ r.state = "saved" => /\ r.row.at <= served.rows[Horizons[r.step]].at
                          /\ r.step = 1 => r.row.at <= served.summary.at

UploadsOk(all, served) ==
  /\ all \in [1 .. Uploaders -> UploadType]
  /\ \A u \in 1 .. Uploaders : UploadOk(all[u], served)

RequestsOk(all, served) ==
  /\ all \in SUBSET Request /\ IsFiniteSet(all)
  /\ \A r \in all : RequestOk(r, served)

RelayOk(served) == served \in RelayType /\ served.summary.at <= served.rows["INTRADAY"].at

UploadInv ==
  /\ items \in SUBSET Items /\ current \in 1 .. Uploaders
  /\ UploadsOk(upload, relay) /\ RequestsOk(requests, relay) /\ RelayOk(relay)

\* No row is replaced by an older one.
Grows(old, new) ==
  /\ \A h \in Names : new.rows[h].at >= old.rows[h].at
  /\ new.summary.at >= old.summary.at
-----------------------------------------------------------------------------
(***************************************************************************)
(* The uploads of items: steps.                                            *)
(***************************************************************************)
\* The horizons are three, and INTRADAY is the first.
LEMMA HorizonsAre ==
  /\ DOMAIN Horizons = 1 .. 3 /\ Len(Horizons) = 3
  /\ \A n \in 1 .. 3 : Horizons[n] \in Names /\ (Horizons[n] = "INTRADAY" <=> n = 1)
  /\ \A h \in Names : \E n \in 1 .. 3 : Horizons[n] = h
BY DEF Horizons, Names

\* The times of a relay are numbers.
LEMMA RelayTimes ==
  ASSUME NEW served \in RelayType
  PROVE  /\ \A h \in Names : served.rows[h] \in Row /\ served.rows[h].at \in Nat
         /\ served.summary \in Row /\ served.summary.at \in Nat
         /\ "INTRADAY" \in Names
BY DEF RelayType, Row, Names

\* What has reached the relay stays reached when it grows.
LEMMA ReachedStays ==
  ASSUME NEW old \in RelayType, NEW new \in RelayType, Grows(old, new),
         NEW at \in Nat, NEW n \in 0 .. 3, Reached(old, at, n)
  PROVE  Reached(new, at, n)
<1> SUFFICES ASSUME NEW j \in 1 .. n
             PROVE  at <= new.rows[Horizons[j]].at /\ at <= new.summary.at
  BY DEF Reached
<1>1. Horizons[j] \in Names
  BY HorizonsAre
<1>2. /\ old.rows[Horizons[j]].at \in Nat /\ new.rows[Horizons[j]].at \in Nat
      /\ old.summary.at \in Nat /\ new.summary.at \in Nat
  BY <1>1, RelayTimes
<1>3. QED
  BY <1>1, <1>2 DEF Grows, Reached

LEMMA GrowthKeeps ==
  ASSUME NEW old \in RelayType, NEW new \in RelayType, Grows(old, new)
  PROVE  /\ \A u \in UploadType : UploadOk(u, old) => UploadOk(u, new)
         /\ \A r \in Request : RequestOk(r, old) => RequestOk(r, new)
<1>1. ASSUME NEW u \in UploadType, UploadOk(u, old)
      PROVE  UploadOk(u, new)
  <2>1. u.completed \in Nat /\ u.at \in Nat /\ u.step \in 0 .. 3
    BY DEF UploadType
  <2>2. Reached(new, u.completed, 3)
    BY <1>1, <2>1, ReachedStays DEF UploadOk
  <2>3. ASSUME u.step # 0
        PROVE  Reached(new, u.at, u.step - 1)
    <3>1. u.step - 1 \in 0 .. 3 /\ Reached(old, u.at, u.step - 1)
      BY <1>1, <2>1, <2>3 DEF UploadOk
    <3>2. QED
      BY <2>1, <3>1, ReachedStays
  <2>4. QED
    BY <2>2, <2>3 DEF UploadOk
<1>2. ASSUME NEW r \in Request, RequestOk(r, old)
      PROVE  RequestOk(r, new)
  <2>1. r.row.at \in Nat /\ Horizons[r.step] \in Names
    BY HorizonsAre DEF Request, Row
  <2>2. /\ old.rows[Horizons[r.step]].at \in Nat /\ new.rows[Horizons[r.step]].at \in Nat
        /\ old.rows["INTRADAY"].at \in Nat /\ new.rows["INTRADAY"].at \in Nat
        /\ old.summary.at \in Nat /\ new.summary.at \in Nat /\ "INTRADAY" \in Names
    BY <2>1, RelayTimes
  <2>3. QED
    BY <1>2, <2>1, <2>2 DEF Grows, RequestOk
<1>3. QED
  BY <1>1, <1>2

\* One upload goes on, the others stand as before.
LEMMA UploadMoves ==
  ASSUME UploadsOk(upload, relay), NEW u \in 1 .. Uploaders, NEW q \in UploadType,
         UploadOk(q, relay), upload' = [upload EXCEPT ![u] = q]
  PROVE  UploadsOk(upload', relay)
BY DEF UploadsOk

\* Requests go, and one may come in the place of another.
LEMMA RequestsMove ==
  ASSUME NEW all, NEW served, RequestsOk(all, served),
         NEW some \in SUBSET all, NEW r \in Request, RequestOk(r, served)
  PROVE  RequestsOk(some, served) /\ RequestsOk(some \cup {r}, served)
<1>1. IsFiniteSet(some)
  BY FS_Subset DEF RequestsOk
<1>2. IsFiniteSet(some \cup {r})
  BY <1>1, FS_AddElement
<1>3. QED
  BY <1>1, <1>2 DEF RequestsOk

LEMMA RequestsGo ==
  ASSUME NEW all, NEW served, RequestsOk(all, served), NEW some \in SUBSET all
  PROVE  RequestsOk(some, served)
BY FS_Subset DEF RequestsOk

\* A set of numbers that is not empty has a least one: what an argument by
\* smallest counterexample rests on.
LEMMA LeastNumber ==
  ASSUME NEW T \in SUBSET Nat, T # {}
  PROVE  \E x \in T : \A y \in T : x <= y
<1> DEFINE R == OpToRel(<, Nat)
<1>1. IsWellFoundedOn(R, Nat)
  BY NatLessThanWellFounded
<1>2. \A x, y \in Nat : x < y => <<x, y>> \in R
  BY DEF OpToRel
<1> HIDE DEF R
<1>3. PICK x \in T : \A y \in T : ~ (<<y, x>> \in R)
  BY <1>1, WFMin
<1>4. ASSUME NEW y \in T
      PROVE  x <= y
  <2>1. x \in Nat /\ y \in Nat
    BY <1>3
  <2>2. ~ (y < x)
    BY <1>2, <1>3, <2>1
  <2>3. QED
    BY <2>1, <2>2
<1>5. QED
  BY <1>3, <1>4

\* Max is what its name says: a smallest set without a maximum would have one
\* after all, the larger of an element and the maximum of the rest.
LEMMA MaxOfFinite ==
  ASSUME NEW S \in SUBSET Nat, S # {}, IsFiniteSet(S)
  PROVE  Max(S) \in S /\ \A x \in S : x <= Max(S)
<1> DEFINE Unbounded(T) == T # {} /\ IsFiniteSet(T) /\ ~ \E m \in T : \A x \in T : m >= x
           sizes == {Cardinality(T) : T \in {U \in SUBSET Nat : Unbounded(U)}}
<1>1. SUFFICES ASSUME Unbounded(S)
               PROVE  FALSE
  BY DEF Max
<1>2. sizes \in SUBSET Nat /\ sizes # {}
  BY <1>1, FS_CardinalityType
<1>3. PICK n \in sizes : \A k \in sizes : n <= k
  BY <1>2, LeastNumber
<1>4. PICK T \in SUBSET Nat : Unbounded(T) /\ Cardinality(T) = n
  BY <1>3
<1>5. PICK t \in T : TRUE
  BY <1>4
<1> DEFINE U == T \ {t}
<1>6. IsFiniteSet(U) /\ Cardinality(U) = Cardinality(T) - 1
  BY <1>4, <1>5, FS_RemoveElement
<1>7. U # {}
  BY <1>4, <1>5
<1>8. ~Unbounded(U)
  <2>1. SUFFICES ASSUME Unbounded(U)
                 PROVE  FALSE
    OBVIOUS
  <2>2. Cardinality(U) \in sizes
    BY <1>4, <2>1
  <2>3. n \in Nat /\ n <= n - 1
    BY <1>2, <1>3, <1>4, <1>6, <2>2
  <2>4. QED
    BY <2>3
<1>9. PICK m \in U : \A x \in U : m >= x
  BY <1>6, <1>7, <1>8
<1>10. m >= t \/ t >= m
  BY <1>5, <1>9
<1>11. \E k \in T : \A x \in T : k >= x
  BY <1>5, <1>9, <1>10
<1>12. QED
  BY <1>4, <1>11
\* The time of an upload is later than that of all others.
LEMMA NowIsNumber ==
  ASSUME UploadInv
  PROVE  Now \in Nat
<1> DEFINE rows == {relay.rows[h].at : h \in Names}
           sent == {r.row.at : r \in requests}
           S == {0} \cup rows \cup sent
<1>1. relay \in RelayType /\ requests \in SUBSET Request /\ IsFiniteSet(requests)
  BY DEF UploadInv, RelayOk, RequestsOk
<1>2. rows \in SUBSET Nat
  BY <1>1, RelayTimes
<1>3. sent \in SUBSET Nat
  BY <1>1 DEF Request, Row
<1>4. IsFiniteSet({0})
  BY FS_Singleton
<1>5. IsFiniteSet(rows)
  <2> DEFINE f == [h \in Names |-> relay.rows[h].at]
  <2>1. IsFiniteSet(Names)
    <3>1. Names = {"INTRADAY"} \cup {"SWING"} \cup {"MACRO"}
      BY DEF Names
    <3>2. QED
      BY <3>1, FS_Singleton, FS_Union
  <2>2. f \in Surjection(Names, rows)
    BY DEF Surjection
  <2>3. QED
    BY <2>1, <2>2, FS_Surjection
<1>6. IsFiniteSet(sent)
  <2> DEFINE f == [r \in requests |-> r.row.at]
  <2>1. f \in Surjection(requests, sent)
    BY DEF Surjection
  <2>2. QED
    BY <1>1, <2>1, FS_Surjection
<1> HIDE DEF rows, sent
<1>7. IsFiniteSet(S)
  BY <1>4, <1>5, <1>6, FS_Union
<1>8. S \in SUBSET Nat /\ S # {}
  BY <1>2, <1>3
<1>9. Max(S) \in Nat
  <2> HIDE DEF S
  <2>1. QED
    BY <1>7, <1>8, MaxOfFinite
<1>10. QED
  BY <1>9 DEF Now, rows, sent

\* Begin sends the first horizon: nothing has been reached, and nothing need be.
LEMMA BeginKeeps ==
  ASSUME UploadInv, NEW u \in 1 .. Uploaders, Begin(u)
  PROVE  UploadInv'
<1> DEFINE contents == [h \in Names |-> Snapshot(h)]
           q == [upload[u] EXCEPT !.step = 1, !.at = Now, !.contents = contents]
           r == RequestOf(u, 1, Now, contents)
<1>1. contents \in Contents
  BY DEF UploadInv, Snapshot, Contents
<1>2. Now \in Nat
  BY NowIsNumber
<1>3. upload[u] \in UploadType /\ UploadOk(upload[u], relay)
  BY DEF UploadInv, UploadsOk
<1>4. /\ upload' = [upload EXCEPT ![u] = q] /\ requests' = requests \cup {r}
      /\ UNCHANGED <<items, current, relay>>
  BY DEF Begin, UploadInv, UploadsOk
<1> HIDE DEF contents
<1>5. q \in UploadType /\ q.step = 1 /\ q.completed = upload[u].completed
  BY <1>1, <1>2, <1>3 DEF UploadType
<1>6. r \in Request /\ r.state = "sent"
  <2>1. contents[Horizons[1]] \in SUBSET Items /\ 1 \in DOMAIN Horizons
    BY <1>1, HorizonsAre DEF Contents
  <2>2. QED
    BY <1>2, <2>1 DEF RequestOf, Request, Row
<1> HIDE DEF q, r
<1>7. UploadOk(q, relay)
  BY <1>3, <1>5 DEF UploadOk, Reached
<1>8. RequestOk(r, relay)
  BY <1>6 DEF RequestOk
<1>9. UploadsOk(upload', relay)
  BY <1>4, <1>5, <1>7, UploadMoves DEF UploadInv
<1>10. RequestsOk(requests', relay)
  BY <1>4, <1>6, <1>8, RequestsMove DEF UploadInv
<1>11. QED
  BY <1>4, <1>9, <1>10 DEF UploadInv

\* Abandon leaves what was completed as it was.
LEMMA AbandonIs ==
  ASSUME UploadInv, NEW u \in 1 .. Uploaders
  PROVE  UploadsOk(Abandon(u)[1], relay) /\ Abandon(u)[2] = {}
<1> DEFINE q == [upload[u] EXCEPT !.step = 0, !.at = 0, !.contents = Nothing]
<1>1. upload[u] \in UploadType /\ UploadOk(upload[u], relay) /\ UploadsOk(upload, relay)
  BY DEF UploadInv, UploadsOk
<1>2. Nothing \in Contents
  BY DEF Nothing, Contents
<1>3. q \in UploadType /\ q.step = 0 /\ q.completed = upload[u].completed
  BY <1>1, <1>2 DEF UploadType
<1>4. Abandon(u)[1] = [upload EXCEPT ![u] = q] /\ Abandon(u)[2] = {}
  BY <1>1 DEF Abandon, UploadsOk
<1> HIDE DEF q
<1>5. UploadOk(q, relay)
  BY <1>1, <1>3 DEF UploadOk
<1>6. UploadsOk([upload EXCEPT ![u] = q], relay)
  BY <1>1, <1>3, <1>5 DEF UploadsOk
<1>7. QED
  BY <1>4, <1>6

\* Advance, once a request is saved: its horizon is reached, and all are at last.
LEMMA AdvanceIs ==
  ASSUME UploadInv, NEW r \in requests, Awaited(r), r.state = "saved"
  PROVE  /\ UploadsOk(Advance(r.by)[1], relay)
         /\ \A x \in Advance(r.by)[2] :
              x \in Request /\ x.state = "sent" /\ Advance(r.by)[2] = {x}
<1> DEFINE u == r.by
           now == upload[u]
<1>1. /\ r \in Request /\ RequestOk(r, relay) /\ u \in 1 .. Uploaders
      /\ now \in UploadType /\ UploadOk(now, relay)
      /\ relay \in RelayType /\ relay.summary.at <= relay.rows["INTRADAY"].at
      /\ upload \in [1 .. Uploaders -> UploadType] /\ UploadsOk(upload, relay)
  BY DEF UploadInv, RequestsOk, UploadsOk, RelayOk, Request
<1>2. now.step = r.step /\ now.at = r.row.at /\ r.step \in 1 .. 3
  BY <1>1, HorizonsAre DEF Awaited, Request
<1>3. /\ now.at \in Nat /\ now.completed \in Nat /\ now.contents \in Contents
      /\ now.step \in 1 .. 3 /\ now.step - 1 \in 0 .. 3
  BY <1>1, <1>2 DEF UploadType
<1>4. Reached(relay, now.at, now.step)
  <2> SUFFICES ASSUME NEW j \in 1 .. now.step
               PROVE  now.at <= relay.rows[Horizons[j]].at /\ now.at <= relay.summary.at
    BY DEF Reached
  <2>1. CASE j < now.step
    <3>1. j \in 1 .. (now.step - 1) /\ now.step # 0
      BY <1>3, <2>1
    <3>2. Reached(relay, now.at, now.step - 1)
      BY <1>1, <3>1 DEF UploadOk
    <3>3. QED
      BY <3>1, <3>2 DEF Reached
  <2>2. CASE j = now.step
    <3>1. now.at <= relay.rows[Horizons[j]].at
      BY <1>1, <1>2, <2>2 DEF RequestOk
    <3>2. now.at <= relay.summary.at
      <4>1. CASE now.step = 1
        BY <1>1, <1>2, <4>1 DEF RequestOk
      <4>2. CASE now.step # 1
        <5>1. 1 \in 1 .. (now.step - 1) /\ now.step # 0
          BY <1>3, <4>2
        <5>2. Reached(relay, now.at, now.step - 1)
          BY <1>1, <5>1 DEF UploadOk
        <5>3. QED
          BY <5>1, <5>2 DEF Reached
      <4>3. QED
        BY <4>1, <4>2
    <3>3. QED
      BY <3>1, <3>2
  <2>3. QED
    BY <1>3, <2>1, <2>2
<1>5. CASE now.step < 3
  <2> DEFINE q == [now EXCEPT !.step = @ + 1]
             x == RequestOf(u, now.step + 1, now.at, now.contents)
  <2>1. Advance(u)[1] = [upload EXCEPT ![u] = q] /\ Advance(u)[2] = {x}
    BY <1>1, <1>5, HorizonsAre DEF Advance
  <2>2. /\ q \in UploadType /\ q.step = now.step + 1 /\ q.at = now.at
        /\ q.completed = now.completed
    BY <1>1, <1>3, <1>5 DEF UploadType
  <2>3. x \in Request /\ x.state = "sent"
    <3>1. now.step + 1 \in DOMAIN Horizons
      BY <1>3, <1>5, HorizonsAre
    <3>2. now.contents[Horizons[now.step + 1]] \in SUBSET Items
      BY <1>3, <3>1, HorizonsAre DEF Contents
    <3>3. QED
      BY <1>1, <1>3, <3>1, <3>2 DEF RequestOf, Request, Row
  <2> HIDE DEF q, x, now
  <2>4. q.step - 1 = now.step
    BY <1>3, <2>2
  <2>5. UploadOk(q, relay)
    BY <1>1, <1>4, <2>2, <2>4 DEF UploadOk
  <2>6. UploadsOk([upload EXCEPT ![u] = q], relay)
    BY <1>1, <2>2, <2>5 DEF UploadsOk
  <2>7. QED
    BY <2>1, <2>3, <2>6
<1>6. CASE now.step = 3
  <2> DEFINE q == [now EXCEPT !.step = 0, !.at = 0, !.contents = Nothing,
                              !.digest = now.contents, !.completed = now.at]
  <2>1. Advance(u)[1] = [upload EXCEPT ![u] = q] /\ Advance(u)[2] = {}
    <3>1. ~(now.step < Len(Horizons))
      BY <1>6, HorizonsAre
    <3>2. Advance(u) = <<[upload EXCEPT ![u].step = 0, ![u].at = 0, ![u].contents = Nothing,
                                        ![u].digest = now.contents, ![u].completed = now.at], {}>>
      BY <3>1 DEF Advance
    <3>3. [upload EXCEPT ![u].step = 0, ![u].at = 0, ![u].contents = Nothing,
                         ![u].digest = now.contents, ![u].completed = now.at]
            = [upload EXCEPT ![u] = q]
      <4>1. /\ upload \in [1 .. Uploaders -> UploadType] /\ u \in 1 .. Uploaders
        BY <1>1
      <4>2. QED
        BY <4>1
    <3>4. QED
      BY <3>2, <3>3
  <2>2. q \in UploadType /\ q.step = 0 /\ q.completed = now.at
    <3>1. Nothing \in Contents
      BY DEF Nothing, Contents
    <3>2. QED
      BY <1>1, <1>3, <3>1 DEF UploadType
  <2> HIDE DEF q
  <2>3. UploadOk(q, relay)
    BY <1>4, <1>6, <2>2 DEF UploadOk
  <2>4. UploadsOk([upload EXCEPT ![u] = q], relay)
    BY <1>1, <2>2, <2>3 DEF UploadsOk
  <2>5. QED
    BY <2>1, <2>4
<1>7. QED
  BY <1>3, <1>5, <1>6

LEMMA AnsweredKeeps ==
  ASSUME UploadInv, NEW r \in requests, Answered(r)
  PROVE  UploadInv'
<1>1. /\ Awaited(r) /\ r.state \in {"saved", "failed"}
      /\ upload' = AfterAnswer(r)[1]
      /\ requests' = (requests \ {r}) \cup AfterAnswer(r)[2]
      /\ UNCHANGED <<items, current, relay>>
  BY DEF Answered
<1>2. r.by \in 1 .. Uploaders /\ RequestsOk(requests, relay)
  BY DEF UploadInv, RequestsOk, Request
<1>3. CASE r.state = "saved"
  <2>1. AfterAnswer(r) = Advance(r.by)
    BY <1>3 DEF AfterAnswer
  <2>2. /\ UploadsOk(upload', relay)
        /\ \A x \in Advance(r.by)[2] :
             x \in Request /\ x.state = "sent" /\ Advance(r.by)[2] = {x}
    BY <1>1, <1>3, <2>1, AdvanceIs
  <2>3. RequestsOk(requests', relay)
    <3>1. CASE Advance(r.by)[2] = {}
      BY <1>1, <1>2, <2>1, <3>1, RequestsGo
    <3>2. ASSUME NEW x \in Advance(r.by)[2]
          PROVE  RequestsOk(requests', relay)
      <4>1. x \in Request /\ RequestOk(x, relay) /\ Advance(r.by)[2] = {x}
        BY <2>2 DEF RequestOk
      <4>2. requests' = (requests \ {r}) \cup {x} /\ requests \ {r} \in SUBSET requests
        BY <1>1, <2>1, <4>1
      <4>3. QED
        BY <1>2, <4>1, <4>2, RequestsMove
    <3>3. QED
      BY <3>1, <3>2
  <2>4. QED
    BY <1>1, <2>2, <2>3 DEF UploadInv
<1>4. CASE r.state = "failed"
  <2>1. AfterAnswer(r) = Abandon(r.by)
    BY <1>4 DEF AfterAnswer
  <2>2. UploadsOk(upload', relay) /\ requests' = requests \ {r}
    BY <1>1, <1>2, <2>1, AbandonIs
  <2>3. RequestsOk(requests', relay)
    BY <1>2, <2>2, RequestsGo
  <2>4. QED
    BY <1>1, <2>2, <2>3 DEF UploadInv
<1>5. QED
  BY <1>1, <1>3, <1>4

LEMMA TimesOutKeeps ==
  ASSUME UploadInv, NEW r \in requests, TimesOut(r)
  PROVE  UploadInv'
<1>1. upload' = Abandon(r.by)[1] /\ UNCHANGED <<items, current, requests, relay>>
  BY DEF TimesOut
<1>2. r.by \in 1 .. Uploaders
  BY DEF UploadInv, RequestsOk, Request
<1>3. UploadsOk(upload', relay)
  BY <1>1, <1>2, AbandonIs
<1>4. QED
  BY <1>1, <1>3 DEF UploadInv
\* The worker stores a row, and the request that asked for it comes to its next state.
LEMMA RelayMoves ==
  ASSUME UploadInv, NEW r \in requests, NEW state \in {"sent", "half", "saved", "failed"},
         NEW served \in RelayType, relay' = served, Grows(relay, served), RelayOk(served),
         RequestOk([r EXCEPT !.state = state], served), Becomes(r, state),
         UNCHANGED <<items, current, upload>>
  PROVE  UploadInv'
<1>1. /\ relay \in RelayType /\ UploadsOk(upload, relay) /\ RequestsOk(requests, relay)
      /\ r \in Request
  BY DEF UploadInv, RelayOk, RequestsOk
<1>2. UploadsOk(upload, served)
  BY <1>1, GrowthKeeps DEF UploadsOk
<1>3. RequestsOk(requests, served)
  BY <1>1, GrowthKeeps DEF RequestsOk
<1> DEFINE x == [r EXCEPT !.state = state]
<1>4. x \in Request
  BY <1>1 DEF Request
<1>5. requests' = (requests \ {r}) \cup {x} /\ requests \ {r} \in SUBSET requests
  BY DEF Becomes
<1> HIDE DEF x
<1>6. RequestsOk(requests', served)
  BY <1>3, <1>4, <1>5, RequestsMove DEF x
<1>7. QED
  BY <1>2, <1>6 DEF UploadInv

\* Upsert keeps the later of two.
LEMMA UpsertIsLater ==
  ASSUME NEW old \in Row, NEW new \in Row
  PROVE  /\ Upsert(old, new) \in Row
         /\ Upsert(old, new).at >= old.at /\ Upsert(old, new).at >= new.at
         /\ Upsert(old, new).at \in {old.at, new.at}
BY DEF Upsert, Row

\* Receive stores the row of one horizon.
LEMMA ReceiveGrows ==
  ASSUME UploadInv, NEW r \in requests, NEW served,
         served = [relay EXCEPT !.rows[Horizons[r.step]] = Upsert(@, r.row)]
  PROVE  /\ served \in RelayType /\ Grows(relay, served) /\ RelayOk(served)
         /\ served.rows[Horizons[r.step]].at >= r.row.at
<1> DEFINE h == Horizons[r.step]
           new == Upsert(relay.rows[h], r.row)
<1>1. /\ relay \in RelayType /\ r \in Request /\ relay.summary.at <= relay.rows["INTRADAY"].at
  BY DEF UploadInv, RelayOk, RequestsOk
<1>2. h \in Names /\ r.row \in Row
  BY <1>1, HorizonsAre DEF Request
<1>3. /\ \A g \in Names : relay.rows[g] \in Row /\ relay.rows[g].at \in Nat
      /\ relay.summary \in Row /\ relay.summary.at \in Nat /\ "INTRADAY" \in Names
  BY <1>1, RelayTimes
<1>4. new \in Row /\ new.at >= relay.rows[h].at /\ new.at >= r.row.at
  BY <1>2, <1>3, UpsertIsLater
<1>5. new.at \in Nat
  BY <1>4 DEF Row
<1> HIDE DEF h, new
<1>6. served = [relay EXCEPT !.rows[h] = new]
  BY DEF h, new
<1>7. /\ served \in RelayType /\ served.rows[h] = new /\ served.summary = relay.summary
      /\ \A g \in Names \ {h} : served.rows[g] = relay.rows[g]
  BY <1>1, <1>2, <1>4, <1>6 DEF RelayType
<1>8. \A g \in Names : served.rows[g].at >= relay.rows[g].at /\ served.rows[g].at \in Nat
  BY <1>2, <1>3, <1>4, <1>5, <1>7
<1>9. Grows(relay, served)
  BY <1>3, <1>7, <1>8 DEF Grows
<1>10. RelayOk(served)
  BY <1>1, <1>3, <1>7, <1>8 DEF RelayOk
<1>11. QED
  BY <1>4, <1>7, <1>9, <1>10 DEF h

LEMMA ReceiveKeeps ==
  ASSUME UploadInv, NEW r \in requests, Receive(r)
  PROVE  UploadInv' /\ (relay' # relay => Grows(relay, relay'))
<1>1. /\ relay \in RelayType /\ r \in Request /\ RelayOk(relay)
  BY DEF UploadInv, RelayOk, RequestsOk
<1>2. /\ UNCHANGED <<items, current, upload>> /\ r.state = "sent"
      /\ IF \E i \in r.row.items : i > clock
         THEN Becomes(r, "failed") /\ UNCHANGED relay
         ELSE /\ relay' = [relay EXCEPT !.rows[Horizons[r.step]] = Upsert(@, r.row)]
              /\ Becomes(r, IF Horizons[r.step] = "INTRADAY" THEN "half" ELSE "saved")
  BY DEF Receive
<1>3. CASE \E i \in r.row.items : i > clock
  <2>1. Grows(relay, relay)
    BY <1>1, RelayTimes DEF Grows
  <2>2. RequestOk([r EXCEPT !.state = "failed"], relay)
    BY <1>1 DEF RequestOk, Request
  <2>3. QED
    BY <1>1, <1>2, <1>3, <2>1, <2>2, RelayMoves
<1>4. CASE ~ \E i \in r.row.items : i > clock
  <2> DEFINE served == [relay EXCEPT !.rows[Horizons[r.step]] = Upsert(@, r.row)]
             state == IF Horizons[r.step] = "INTRADAY" THEN "half" ELSE "saved"
             x == [r EXCEPT !.state = state]
  <2>1. relay' = served /\ Becomes(r, state)
    BY <1>2, <1>4
  <2>2. /\ served \in RelayType /\ Grows(relay, served) /\ RelayOk(served)
        /\ served.rows[Horizons[r.step]].at >= r.row.at
    BY ReceiveGrows
  <2> HIDE DEF served
  <2>3. /\ r.step \in 1 .. 3 /\ Horizons[r.step] \in Names /\ r.row.at \in Nat
        /\ Horizons[r.step] = "INTRADAY" <=> r.step = 1
    BY <1>1, HorizonsAre DEF Request, Row
  <2>4. served.rows[Horizons[r.step]].at \in Nat
    BY <2>2, <2>3, RelayTimes
  <2>5. /\ state \in {"half", "saved"} /\ (state = "half" <=> r.step = 1)
        /\ state = "half" => Horizons[r.step] = "INTRADAY"
    BY <2>3
  <2> HIDE DEF state
  <2>6. x.state = state /\ x.step = r.step /\ x.row = r.row
    BY <1>1 DEF Request
  <2> HIDE DEF x
  <2>7. RequestOk(x, served)
    BY <2>2, <2>3, <2>4, <2>5, <2>6 DEF RequestOk
  <2>8. QED
    BY <1>2, <2>1, <2>2, <2>5, <2>7, RelayMoves DEF x
<1>5. QED
  BY <1>3, <1>4

LEMMA SummarizeKeeps ==
  ASSUME UploadInv, NEW r \in requests, Summarize(r)
  PROVE  UploadInv' /\ Grows(relay, relay')
<1> DEFINE new == Upsert(relay.summary, r.row)
           served == [relay EXCEPT !.summary = new]
           x == [r EXCEPT !.state = "saved"]
<1>1. /\ relay \in RelayType /\ r \in Request /\ RequestOk(r, relay)
      /\ relay.summary.at <= relay.rows["INTRADAY"].at
  BY DEF UploadInv, RelayOk, RequestsOk
<1>2. /\ relay' = served /\ Becomes(r, "saved") /\ r.state = "half"
      /\ UNCHANGED <<items, current, upload>>
  BY DEF Summarize
<1>3. /\ \A g \in Names : relay.rows[g] \in Row /\ relay.rows[g].at \in Nat
      /\ relay.summary \in Row /\ relay.summary.at \in Nat /\ "INTRADAY" \in Names
  BY <1>1, RelayTimes
<1>4. r.step = 1 /\ r.row.at <= relay.rows["INTRADAY"].at /\ r.row \in Row /\ r.row.at \in Nat
  BY <1>1, <1>2 DEF RequestOk, Request, Row
<1>5. /\ new \in Row /\ new.at >= relay.summary.at /\ new.at >= r.row.at
      /\ new.at \in {relay.summary.at, r.row.at}
  BY <1>3, <1>4, UpsertIsLater
<1> HIDE DEF new
<1>6. served \in RelayType /\ served.summary = new /\ served.rows = relay.rows
  BY <1>1, <1>5 DEF RelayType
<1>7. x.state = "saved" /\ x.step = r.step /\ x.row = r.row
  BY <1>1 DEF Request
<1> HIDE DEF served, x
<1>8. Grows(relay, served)
  BY <1>3, <1>5, <1>6 DEF Grows
<1>9. RelayOk(served)
  BY <1>1, <1>3, <1>4, <1>5, <1>6 DEF RelayOk
<1>10. Horizons[r.step] = "INTRADAY"
  BY <1>4, HorizonsAre
<1>11. RequestOk(x, served)
  BY <1>3, <1>4, <1>5, <1>6, <1>7, <1>10 DEF RequestOk
<1>12. QED
  BY <1>2, <1>6, <1>8, <1>9, <1>11, RelayMoves DEF x

LEMMA FailsKeeps ==
  ASSUME UploadInv, NEW r \in requests, Fails(r)
  PROVE  UploadInv'
<1>1. relay \in RelayType /\ r \in Request /\ RelayOk(relay)
  BY DEF UploadInv, RelayOk, RequestsOk
<1>2. relay' = relay /\ Becomes(r, "failed") /\ UNCHANGED <<items, current, upload>>
  BY DEF Fails
<1>3. Grows(relay, relay)
  BY <1>1, RelayTimes DEF Grows
<1>4. RequestOk([r EXCEPT !.state = "failed"], relay)
  BY <1>1 DEF RequestOk, Request
<1>5. QED
  BY <1>1, <1>2, <1>3, <1>4, RelayMoves

LEMMA ForgetKeeps ==
  ASSUME UploadInv, NEW r \in requests, Forget(r)
  PROVE  UploadInv'
<1>1. requests' = requests \ {r} /\ UNCHANGED <<items, current, upload, relay>>
  BY DEF Forget
<1>2. RequestsOk(requests', relay)
  BY <1>1, RequestsGo DEF UploadInv
<1>3. QED
  BY <1>1, <1>2 DEF UploadInv

\* What happens to the items, the time and the configuration sends nothing.
LEMMA OthersKeep ==
  ASSUME UploadInv, (\E i \in Items : Merge(i)) \/ TimePasses \/ Configure
  PROVE  UploadInv'
<1>1. UNCHANGED <<upload, requests, relay>>
  BY DEF Merge, TimePasses, Configure
<1>2. items' \in SUBSET Items
  BY DEF UploadInv, Merge, Limited, TimePasses, Configure
<1>3. current' \in 1 .. Uploaders
  <2>1. Uploaders \in Nat /\ current \in 1 .. Uploaders
    BY ContextUploadAssumption DEF UploadInv
  <2>2. current' = current \/ (current < Uploaders /\ current' = current + 1)
    BY DEF Merge, TimePasses, Configure
  <2>3. QED
    BY <2>1, <2>2
<1>4. QED
  BY <1>1, <1>2, <1>3 DEF UploadInv

LEMMA UploadInitially == Init => UploadInv
<1> SUFFICES ASSUME Init PROVE UploadInv
  OBVIOUS
<1> DEFINE q == [step |-> 0, at |-> 0, contents |-> Nothing, digest |-> Nothing, completed |-> 0]
<1>1. /\ items = {} /\ current = 1 /\ requests = {}
      /\ upload = [u \in 1 .. Uploaders |-> q]
      /\ relay = [rows |-> [h \in Names |-> NoRow], summary |-> NoRow]
  BY DEF Init
<1>2. NoRow \in Row /\ NoRow.at = 0 /\ Nothing \in Contents
  BY DEF NoRow, Row, Nothing, Contents
<1>3. q \in UploadType /\ q.step = 0 /\ q.completed = 0
  BY <1>2 DEF UploadType
<1> HIDE DEF q
<1>4. relay \in RelayType /\ (\A h \in Names : relay.rows[h] = NoRow) /\ relay.summary = NoRow
  BY <1>1, <1>2 DEF RelayType
<1>5. RelayOk(relay)
  BY <1>2, <1>4 DEF RelayOk, Names
<1>6. UploadOk(q, relay)
  BY <1>2, <1>3, <1>4, HorizonsAre DEF UploadOk, Reached
<1>7. UploadsOk(upload, relay)
  BY <1>1, <1>3, <1>6 DEF UploadsOk
<1>8. RequestsOk(requests, relay)
  BY <1>1, FS_EmptySet DEF RequestsOk
<1>9. QED
  BY <1>1, <1>5, <1>7, <1>8, ContextUploadAssumption DEF UploadInv

LEMMA UploadKept ==
  ASSUME UploadInv, Next
  PROVE  UploadInv'
BY BeginKeeps, AnsweredKeeps, TimesOutKeeps, ForgetKeeps, ReceiveKeeps, SummarizeKeeps,
   FailsKeeps, OthersKeep DEF Next

LEMMA ServedGrows ==
  ASSUME UploadInv, Next
  PROVE  Grows(relay, relay')
<1>1. CASE UNCHANGED relay
  <2>1. Grows(relay, relay)
    BY RelayTimes DEF UploadInv, RelayOk, Grows
  <2>2. QED
    BY <1>1, <2>1
<1>2. ASSUME NEW r \in requests, Receive(r) \/ Summarize(r)
      PROVE  Grows(relay, relay')
  <2>1. CASE relay' = relay
    BY <1>1, <2>1
  <2>2. CASE relay' # relay
    BY <1>2, <2>2, ReceiveKeeps, SummarizeKeeps
  <2>3. QED
    BY <2>1, <2>2
<1>3. QED
  BY <1>1, <1>2
  DEF Next, Merge, TimePasses, Begin, Answered, TimesOut, Forget, Fails, Configure

LEMMA CompletedServed ==
  ASSUME UploadInv
  PROVE  CompletedUploadIsServed
<1>1. ASSUME NEW u \in 1 .. Uploaders, NEW h \in Names
      PROVE  upload[u].completed <= relay.rows[h].at /\ upload[u].completed <= relay.summary.at
  <2>1. Reached(relay, upload[u].completed, 3)
    BY DEF UploadInv, UploadsOk, UploadOk
  <2>2. PICK n \in 1 .. 3 : Horizons[n] = h
    BY HorizonsAre
  <2>3. QED
    BY <2>1, <2>2 DEF Reached
<1>2. QED
  BY <1>1 DEF CompletedUploadIsServed, UploadInv, RelayOk
-----------------------------------------------------------------------------
(***************************************************************************)
(* Both, in what MCExternalContext composes.                               *)
(***************************************************************************)
LEMMA UploadStays == ASSUME UploadInv, UNCHANGED vars PROVE UploadInv' /\ Grows(relay, relay')
<1>1. UNCHANGED <<items, current, upload, requests, relay>>
  BY DEF vars
<1>2. Grows(relay, relay)
  BY RelayTimes DEF UploadInv, RelayOk, Grows
<1>3. QED
  BY <1>1, <1>2 DEF UploadInv

LEMMA PricesStay == ASSUME PricesInv, UNCHANGED prices PROVE PricesInv'
BY DEF prices, PricesInv, PricesTyped, AskInv, AskOk, AnswerAdvances, AnswerLabelled

LEMMA ServedKept ==
  ASSUME UploadInv /\ PricesInv, [MCNext]_<<vars, service, prices, part>>
  PROVE  (UploadInv /\ PricesInv)'
<1>1. CASE Following
  BY <1>1, UploadStays, PricesStay DEF Following
<1>2. CASE Serving
  BY <1>2, UploadKept, PricesStay DEF Serving
<1>3. CASE Quoting
  BY <1>3, UploadStays, PricesKept DEF Quoting
<1>4. CASE UNCHANGED <<vars, service, prices, part>>
  BY <1>4, UploadStays, PricesStay
<1>5. QED
  BY <1>1, <1>2, <1>3, <1>4 DEF MCNext

\* The rows of the relay, and that of the prices of other venues, never go back.
LEMMA ServedAdvances ==
  ASSUME UploadInv /\ PricesInv, [MCNext]_<<vars, service, prices, part>>
  PROVE  /\ [/\ \A h \in Names : relay'.rows[h].at >= relay.rows[h].at
             /\ relay'.summary.at >= relay.summary.at]_vars
         /\ [row # Null => row' # Null /\ row'.at >= row.at]_Prices!vars
<1>1. Serving \/ UNCHANGED vars
  BY DEF MCNext, Following, Quoting
<1>2. Quoting \/ UNCHANGED prices
  BY DEF MCNext, Following, Serving
<1>3. ASSUME Serving
      PROVE  Grows(relay, relay')
  BY <1>3, ServedGrows DEF Serving
<1>4. ASSUME Quoting
      PROVE  row # Null => row' # Null /\ row'.at >= row.at
  BY <1>4, RowMoves DEF Quoting
<1>5. UNCHANGED prices => UNCHANGED Prices!vars
  BY DEF prices, Prices!vars
<1>6. QED
  BY <1>1, <1>2, <1>3, <1>4, <1>5 DEF Grows

\* What the relay serves of items and of prices only advances; an upload that was
\* answered as done is served, in all horizons and in the summary; and a request
\* for prices is answered with what is as new as all that was shown before it,
\* with prices that are told to be cached when they are: ServedInOrder, for any
\* number of uploaders, of requests that are lost or late, of requests at a time
\* and of statements that fail.
THEOREM WhatIsServedAdvances == MCSpec => ServedInOrder
<1>1. MCInit => UploadInv /\ PricesInv
  BY UploadInitially, PricesInitially DEF MCInit
<1>2. UploadInv /\ PricesInv => CompletedUploadIsServed
  BY CompletedServed
<1>3. UploadInv /\ PricesInv => Prices!AnswersAdvance /\ Prices!AnswersAreLabelled
  BY PricesAnswered
<1>4. QED
  BY <1>1, <1>2, <1>3, ServedKept, ServedAdvances, PTL
  DEF MCSpec, ServedInOrder, ServedContextOnlyAdvances, Prices!RowAdvances
-----------------------------------------------------------------------------
(***************************************************************************)
(* The sources: the invariant.                                             *)
(***************************************************************************)
Sockets == [SocketIds -> Service!Phases]
ChainType == [status : Service!Statuses, timer : BOOLEAN, strays : Nat, collecting : Nat]
NoticesType ==
  [status : Service!Statuses, current : SocketIds \cup {NoSocket}, retry : BOOLEAN,
   strays : Nat, pinged : SocketIds \cup {NoSocket}]

\* Before the service is started, nothing is asked and no socket is made.
Quiet(cs, ss, n) ==
  /\ n.status # "NORMAL" /\ n.current = NoSocket
  /\ \A s \in SocketIds : ss[s] = "none"
  /\ \A p \in Service!Polled :
       /\ cs[p].status \in {"DISABLED", "INITIALIZING"}
       /\ cs[p].timer = FALSE /\ cs[p].strays = 0 /\ cs[p].collecting = 0

\* The announcements come over an open socket, or wait for one.
AnnouncedOk(n, ss) ==
  /\ n.status = "NORMAL" => \E s \in SocketIds : ss[s] = "open"
  /\ n.status = "INITIALIZING" => \E s \in SocketIds : ss[s] \in {"connecting", "open"}

\* A source that is followed, or about to be, has a request or a timer.
ChainOk(c) == c.status \in {"NORMAL", "INITIALIZING"} => Service!Length(c) > 0

ServiceInv ==
  /\ life \in {"constructed", "running", "stopped"}
  /\ chain \in [Service!Polled -> ChainType] /\ sockets \in Sockets /\ notices \in NoticesType
  /\ life = "constructed" => Quiet(chain, sockets, notices)
  /\ life = "running" => /\ AnnouncedOk(notices, sockets)
                         /\ \A p \in Service!Polled : ChainOk(chain[p])
-----------------------------------------------------------------------------
(***************************************************************************)
(* The sources: steps.                                                     *)
(***************************************************************************)
\* connectAnnouncements leaves a socket to wait for, or none if there is no need.
LEMMA ConnectedIs ==
  ASSUME NEW n \in NoticesType, NEW ss \in Sockets, NEW given \in BOOLEAN,
         Service!Connected(n, ss, given),
         n.status = "NORMAL" => \E s \in SocketIds : ss[s] = "open"
  PROVE  sockets' \in Sockets /\ notices' \in NoticesType /\ AnnouncedOk(notices', sockets')
<1>1. CASE given = FALSE
  <2>1. sockets' = ss /\ notices' = [n EXCEPT !.status = "DISABLED"]
    BY <1>1 DEF Service!Connected
  <2>2. notices' \in NoticesType /\ notices'.status = "DISABLED"
    BY <2>1 DEF NoticesType, Service!Statuses
  <2>3. QED
    BY <2>1, <2>2 DEF AnnouncedOk
<1>2. CASE given = TRUE
  <2>1. PICK s \in SocketIds :
           /\ ss[s] = "none" /\ sockets' = [ss EXCEPT ![s] = "connecting"]
           /\ notices' = [n EXCEPT !.current = s]
    BY <1>2 DEF Service!Connected
  <2>2. /\ sockets' \in Sockets /\ sockets'[s] = "connecting"
        /\ \A t \in SocketIds : ss[t] = "open" => sockets'[t] = "open"
    BY <2>1 DEF Sockets, Service!Phases
  <2>3. notices' \in NoticesType /\ notices'.status = n.status
    BY <2>1 DEF NoticesType
  <2>4. QED
    BY <2>2, <2>3 DEF AnnouncedOk
<1>3. QED
  BY <1>1, <1>2

\* A socket that is to be closed is still to say so.
LEMMA ClosingIs ==
  ASSUME NEW ss \in Sockets, NEW s
  PROVE  Service!Closing(ss, s) \in Sockets
BY DEF Sockets, Service!Closing, Service!Phases

\* Without a current socket none is closed.
LEMMA ClosingNone ==
  ASSUME NEW ss \in Sockets
  PROVE  Service!Closing(ss, NoSocket) = ss
BY ExternalContextAssumption DEF Sockets, Service!Closing

\* What a chain may become: its requests and timers are numbers.
LEMMA ChainSteps ==
  ASSUME NEW c \in ChainType
  PROVE  /\ Service!Collect(c) \in ChainType /\ Service!Length(Service!Collect(c)) > 0
         /\ Service!Collect(c).status = c.status
         /\ Service!SetTimer(c) \in ChainType /\ Service!Length(Service!SetTimer(c)) > 0
         /\ Service!SetTimer(c).status = c.status
<1>1. c.collecting \in Nat /\ c.strays \in Nat /\ c.timer \in BOOLEAN
  BY DEF ChainType
<1> DEFINE collected == Service!Collect(c)
           timed == Service!SetTimer(c)
<1>2. /\ collected \in ChainType /\ collected.collecting = c.collecting + 1
      /\ collected.strays = c.strays /\ collected.timer = c.timer /\ collected.status = c.status
  BY DEF ChainType, Service!Collect
<1>3. /\ timed \in ChainType /\ timed.collecting = c.collecting /\ timed.strays >= c.strays
      /\ timed.timer = TRUE /\ timed.status = c.status /\ timed.strays \in Nat
  <2> DEFINE n == IF c.timer THEN c.strays + 1 ELSE c.strays
  <2>1. n \in Nat /\ n >= c.strays
    BY <1>1
  <2>2. timed = [c EXCEPT !.timer = TRUE, !.strays = n]
    BY DEF Service!SetTimer
  <2> HIDE DEF n, timed
  <2>3. QED
    BY <2>1, <2>2 DEF ChainType
<1> HIDE DEF collected, timed
<1>4. Service!Length(collected) > 0
  BY <1>1, <1>2 DEF Service!Length
<1>5. Service!Length(timed) > 0
  BY <1>1, <1>3 DEF Service!Length
<1>6. QED
  BY <1>2, <1>3, <1>4, <1>5 DEF collected, timed

\* One chain goes on while the service runs, or has stopped.
LEMMA ChainMoves ==
  ASSUME ServiceInv, NEW p \in Service!Polled, NEW c \in ChainType,
         chain' = [chain EXCEPT ![p] = c], UNCHANGED <<life, sockets, notices>>,
         life # "constructed", life = "running" => ChainOk(c)
  PROVE  ServiceInv'
<1>1. chain' \in [Service!Polled -> ChainType]
  BY DEF ServiceInv
<1>2. life = "running" => \A q \in Service!Polled : ChainOk(chain'[q])
  BY DEF ServiceInv
<1>3. QED
  BY <1>1, <1>2 DEF ServiceInv

LEMMA CollectEndsKeeps ==
  ASSUME ServiceInv, NEW p \in Service!Polled, NEW status \in {"NORMAL", "DISCONNECTED"},
         Service!CollectEnds(p, status)
  PROVE  ServiceInv'
<1> DEFINE done == [chain[p] EXCEPT !.collecting = @ - 1, !.status = status]
           c == IF Service!Running THEN Service!SetTimer(done) ELSE done
<1>1. chain[p] \in ChainType /\ chain[p].collecting > 0 /\ chain[p].collecting \in Nat
  BY DEF ServiceInv, Service!CollectEnds, ChainType
<1>2. done \in ChainType
  <2> DEFINE n == chain[p].collecting - 1
  <2>1. n \in Nat /\ status \in Service!Statuses
    BY <1>1 DEF Service!Statuses
  <2>2. done = [chain[p] EXCEPT !.collecting = n, !.status = status]
    OBVIOUS
  <2> HIDE DEF n, done
  <2>3. QED
    BY <1>1, <2>1, <2>2 DEF ChainType
<1>3. chain' = [chain EXCEPT ![p] = c] /\ UNCHANGED <<life, sockets, notices>>
  BY DEF Service!CollectEnds
<1> HIDE DEF done
<1>4. c \in ChainType /\ (life = "running" => ChainOk(c))
  BY <1>2, ChainSteps DEF Service!Running, ChainOk
<1>5. life # "constructed"
  BY <1>1 DEF ServiceInv, Quiet
<1> HIDE DEF c
<1>6. QED
  BY <1>3, <1>4, <1>5, ChainMoves

LEMMA TimerFiresKeeps ==
  ASSUME ServiceInv, NEW p \in Service!Polled, Service!TimerFires(p)
  PROVE  ServiceInv'
<1>1. chain[p] \in ChainType /\ UNCHANGED <<life, sockets, notices>>
  BY DEF ServiceInv, Service!TimerFires
<1>2. ASSUME NEW fired \in ChainType, life # "constructed",
             chain' = [chain EXCEPT ![p] =
                         IF Service!Running THEN Service!Collect(fired) ELSE fired]
      PROVE  ServiceInv'
  <2> DEFINE c == IF Service!Running THEN Service!Collect(fired) ELSE fired
  <2>1. c \in ChainType /\ (life = "running" => ChainOk(c))
    BY <1>2, ChainSteps DEF Service!Running, ChainOk
  <2>2. chain' = [chain EXCEPT ![p] = c]
    BY <1>2
  <2> HIDE DEF c
  <2>3. QED
    BY <1>1, <1>2, <2>1, <2>2, ChainMoves
<1>3. CASE chain[p].timer /\ LET fired == [chain[p] EXCEPT !.timer = FALSE]
                             IN  chain' = [chain EXCEPT ![p] =
                                  IF Service!Running THEN Service!Collect(fired) ELSE fired]
  <2>1. [chain[p] EXCEPT !.timer = FALSE] \in ChainType
    BY <1>1 DEF ChainType
  <2>2. life # "constructed"
    BY <1>3 DEF ServiceInv, Quiet
  <2>3. QED
    BY <1>2, <1>3, <2>1, <2>2
<1>4. CASE chain[p].strays > 0 /\ LET fired == [chain[p] EXCEPT !.strays = @ - 1]
                                  IN  chain' = [chain EXCEPT ![p] =
                                       IF Service!Running THEN Service!Collect(fired) ELSE fired]
  <2>1. [chain[p] EXCEPT !.strays = @ - 1] \in ChainType
    BY <1>1, <1>4 DEF ChainType
  <2>2. life # "constructed"
    BY <1>4 DEF ServiceInv, Quiet
  <2>3. QED
    BY <1>2, <1>4, <2>1, <2>2
<1>5. QED
  BY <1>3, <1>4 DEF Service!TimerFires

LEMMA ReloadNaverKeeps ==
  ASSUME ServiceInv, Service!ReloadNaver
  PROVE  ServiceInv'
<1>1. PICK given \in BOOLEAN :
        LET fresh == [chain[Naver] EXCEPT !.timer = FALSE, !.status = Service!Initially(given)]
        IN  chain' = [chain EXCEPT ![Naver] =
                        IF given /\ Service!Running THEN Service!Collect(fresh) ELSE fresh]
  BY DEF Service!ReloadNaver
<1> DEFINE fresh == [chain[Naver] EXCEPT !.timer = FALSE, !.status = Service!Initially(given)]
           c == IF given /\ Service!Running THEN Service!Collect(fresh) ELSE fresh
<1>2. /\ UNCHANGED <<life, sockets, notices>> /\ Naver \in Service!Polled
      /\ chain[Naver] \in ChainType /\ chain' = [chain EXCEPT ![Naver] = c]
  BY <1>1 DEF ServiceInv, Service!ReloadNaver, Service!Polled
<1>3. /\ fresh \in ChainType /\ fresh.timer = FALSE
      /\ fresh.status = (IF given THEN "INITIALIZING" ELSE "DISABLED")
      /\ fresh.strays = chain[Naver].strays /\ fresh.collecting = chain[Naver].collecting
  BY <1>2 DEF ChainType, Service!Initially, Service!Statuses
<1> HIDE DEF fresh
<1>4. c \in ChainType /\ (life = "running" => ChainOk(c))
  BY <1>3, ChainSteps DEF Service!Running, ChainOk
<1>5. CASE life = "constructed"
  <2>1. c = fresh
    BY <1>5 DEF Service!Running
  <2>2. Quiet(chain', sockets', notices')
    BY <1>2, <1>3, <1>5, <2>1 DEF ServiceInv, Quiet
  <2> HIDE DEF c
  <2>3. QED
    BY <1>2, <1>4, <1>5, <2>2 DEF ServiceInv
<1>6. CASE life # "constructed"
  <2> HIDE DEF c
  <2>1. QED
    BY <1>2, <1>4, <1>6, ChainMoves
<1>7. QED
  BY <1>5, <1>6

LEMMA StartKeeps ==
  ASSUME ServiceInv, Service!Start
  PROVE  ServiceInv'
<1>1. /\ life = "constructed" /\ life' = "running" /\ Quiet(chain, sockets, notices)
      /\ chain \in [Service!Polled -> ChainType] /\ sockets \in Sockets /\ notices \in NoticesType
      /\ Service!Connected(notices, sockets, "exchange" \in keys)
      /\ chain' = [p \in Service!Polled |-> IF chain[p].status = "DISABLED" THEN chain[p]
                                            ELSE Service!Collect(chain[p])]
  BY DEF ServiceInv, Service!Start
<1>2. sockets' \in Sockets /\ notices' \in NoticesType /\ AnnouncedOk(notices', sockets')
  <2>1. notices.status # "NORMAL" /\ ("exchange" \in keys) \in BOOLEAN
    BY <1>1 DEF Quiet
  <2>2. QED
    BY <1>1, <2>1, ConnectedIs
<1>3. ASSUME NEW p \in Service!Polled
      PROVE  chain'[p] \in ChainType /\ ChainOk(chain'[p])
  <2>1. chain[p] \in ChainType
    BY <1>1
  <2>2. CASE chain[p].status = "DISABLED"
    BY <1>1, <2>1, <2>2 DEF ChainOk
  <2>3. CASE chain[p].status # "DISABLED"
    BY <1>1, <2>1, <2>3, ChainSteps DEF ChainOk
  <2>4. QED
    BY <2>2, <2>3
<1>4. chain' \in [Service!Polled -> ChainType]
  BY <1>1, <1>3
<1>5. QED
  BY <1>1, <1>2, <1>3, <1>4 DEF ServiceInv

LEMMA StopKeeps ==
  ASSUME ServiceInv, Service!Stop
  PROVE  ServiceInv'
<1>1. /\ life' = "stopped"
      /\ chain' = [p \in Service!Polled |-> [chain[p] EXCEPT !.timer = FALSE]]
      /\ sockets' = Service!Closing(sockets, notices.current)
      /\ notices' = [notices EXCEPT !.retry = FALSE, !.current = NoSocket, !.pinged = NoSocket]
  BY DEF Service!Stop
<1>2. sockets' \in Sockets
  BY <1>1, ClosingIs DEF ServiceInv
<1>3. notices' \in NoticesType
  BY <1>1 DEF ServiceInv, NoticesType
<1>4. chain' \in [Service!Polled -> ChainType]
  BY <1>1 DEF ServiceInv, ChainType
<1>5. QED
  BY <1>1, <1>2, <1>3, <1>4 DEF ServiceInv

LEMMA ReloadAnnouncementsKeeps ==
  ASSUME ServiceInv, Service!ReloadAnnouncements
  PROVE  ServiceInv'
<1>1. PICK given \in BOOLEAN :
        LET fresh == [notices EXCEPT !.retry = FALSE, !.pinged = NoSocket,
                                     !.current = NoSocket, !.status = Service!Initially(given)]
            ss    == Service!Closing(sockets, notices.current)
        IN  IF Service!Running THEN Service!Connected(fresh, ss, given)
            ELSE sockets' = ss /\ notices' = fresh
  BY DEF Service!ReloadAnnouncements
<1> DEFINE fresh == [notices EXCEPT !.retry = FALSE, !.pinged = NoSocket,
                                    !.current = NoSocket, !.status = Service!Initially(given)]
           ss == Service!Closing(sockets, notices.current)
<1>2. UNCHANGED <<life, chain>> /\ sockets \in Sockets /\ notices \in NoticesType
  BY DEF ServiceInv, Service!ReloadAnnouncements
<1>3. fresh \in NoticesType /\ fresh.status # "NORMAL" /\ fresh.current = NoSocket
  BY <1>2 DEF NoticesType, Service!Initially, Service!Statuses
<1>4. ss \in Sockets
  BY <1>2, ClosingIs
<1> HIDE DEF fresh
<1>5. CASE life = "running"
  <2>1. Service!Connected(fresh, ss, given)
    BY <1>1, <1>5 DEF Service!Running, fresh
  <2>2. sockets' \in Sockets /\ notices' \in NoticesType /\ AnnouncedOk(notices', sockets')
    BY <1>3, <1>4, <2>1, ConnectedIs
  <2>3. QED
    BY <1>2, <1>5, <2>2 DEF ServiceInv
<1>6. CASE life # "running"
  <2>1. sockets' = ss /\ notices' = fresh
    BY <1>1, <1>6 DEF Service!Running, fresh
  <2>2. CASE life = "constructed"
    <3>1. Quiet(chain, sockets, notices) /\ ss = sockets
      BY <1>2, <2>2, ClosingNone DEF ServiceInv, Quiet
    <3>2. Quiet(chain', sockets', notices')
      BY <1>2, <1>3, <2>1, <3>1 DEF Quiet
    <3>3. QED
      BY <1>2, <1>3, <1>4, <1>6, <2>1, <3>2 DEF ServiceInv
  <2>3. CASE life # "constructed"
    BY <1>2, <1>3, <1>4, <1>6, <2>1, <2>3 DEF ServiceInv
  <2>4. QED
    BY <2>2, <2>3
<1>7. QED
  BY <1>5, <1>6

LEMMA OpensKeeps ==
  ASSUME ServiceInv, NEW s \in SocketIds, Service!Opens(s)
  PROVE  ServiceInv'
<1>1. /\ sockets[s] = "connecting" /\ sockets' = [sockets EXCEPT ![s] = "open"]
      /\ notices' = [notices EXCEPT !.status = "NORMAL", !.pinged = s]
      /\ UNCHANGED <<life, chain>>
  BY DEF Service!Opens
<1>2. sockets' \in Sockets /\ sockets'[s] = "open"
  BY <1>1 DEF ServiceInv, Sockets, Service!Phases
<1>3. notices' \in NoticesType /\ notices'.status = "NORMAL"
  BY <1>1 DEF ServiceInv, NoticesType, Service!Statuses
<1>4. life # "constructed"
  BY <1>1 DEF ServiceInv, Quiet
<1>5. AnnouncedOk(notices', sockets')
  BY <1>2, <1>3 DEF AnnouncedOk
<1>6. QED
  BY <1>1, <1>2, <1>3, <1>4, <1>5 DEF ServiceInv

LEMMA ClosesKeeps ==
  ASSUME ServiceInv, NEW s \in SocketIds, Service!Closes(s)
  PROVE  ServiceInv'
<1>1. /\ sockets[s] # "none" /\ sockets' = [sockets EXCEPT ![s] = "none"]
      /\ notices' = IF Service!Running THEN Service!AfterClose(notices, s)
                    ELSE [notices EXCEPT !.pinged = NoSocket]
      /\ UNCHANGED <<life, chain>>
  BY DEF Service!Closes
<1>2. sockets' \in Sockets /\ notices \in NoticesType
  BY <1>1 DEF ServiceInv, Sockets, Service!Phases
<1>3. life # "constructed"
  BY <1>1 DEF ServiceInv, Quiet
<1>4. CASE life = "running"
  <2>1. notices' = Service!AfterClose(notices, s)
    BY <1>1, <1>4 DEF Service!Running
  <2>2. notices' \in NoticesType /\ notices'.status = "DISCONNECTED"
    <3> DEFINE socket == IF notices.current = s THEN NoSocket ELSE notices.current
               strays == IF notices.retry THEN notices.strays + 1 ELSE notices.strays
    <3>1. socket \in SocketIds \cup {NoSocket} /\ strays \in Nat
      BY <1>2 DEF NoticesType
    <3>2. notices' = [notices EXCEPT !.pinged = NoSocket, !.status = "DISCONNECTED",
                                     !.current = socket, !.retry = TRUE, !.strays = strays]
      BY <2>1 DEF Service!AfterClose
    <3> HIDE DEF socket, strays
    <3>3. QED
      BY <1>2, <3>1, <3>2 DEF NoticesType, Service!Statuses
  <2>3. QED
    BY <1>1, <1>2, <1>4, <2>2 DEF ServiceInv, AnnouncedOk
<1>5. CASE life # "running"
  <2>1. notices' = [notices EXCEPT !.pinged = NoSocket]
    BY <1>1, <1>5 DEF Service!Running
  <2>2. notices' \in NoticesType
    BY <1>2, <2>1 DEF NoticesType
  <2>3. QED
    BY <1>1, <1>2, <1>3, <1>5, <2>2 DEF ServiceInv
<1>6. QED
  BY <1>4, <1>5

LEMMA RetryKeeps ==
  ASSUME ServiceInv, Service!Retry
  PROVE  ServiceInv'
<1>1. PICK fired \in {[notices EXCEPT !.retry = FALSE], [notices EXCEPT !.strays = @ - 1]} :
        /\ fired # notices /\ fired.strays >= 0
        /\ IF Service!Running THEN Service!Connected(fired, sockets, "exchange" \in keys)
           ELSE sockets' = sockets /\ notices' = fired
  BY DEF Service!Retry
<1>2. UNCHANGED <<life, chain>> /\ sockets \in Sockets /\ notices \in NoticesType
  BY DEF ServiceInv, Service!Retry
<1>3. fired \in NoticesType /\ fired.status = notices.status /\ fired.current = notices.current
  <2>1. CASE fired = [notices EXCEPT !.retry = FALSE]
    BY <1>2, <2>1 DEF NoticesType
  <2>2. CASE fired = [notices EXCEPT !.strays = @ - 1]
    <3>1. notices.strays \in Nat /\ fired.strays = notices.strays - 1
      BY <1>2, <2>2 DEF NoticesType
    <3>2. notices.strays - 1 \in Nat
      BY <1>1, <3>1
    <3>3. QED
      BY <1>2, <2>2, <3>2 DEF NoticesType
  <2>3. QED
    BY <1>1, <2>1, <2>2
<1>4. CASE life = "running"
  <2>1. Service!Connected(fired, sockets, "exchange" \in keys) /\ ("exchange" \in keys) \in BOOLEAN
    BY <1>1, <1>4 DEF Service!Running
  <2>2. fired.status = "NORMAL" => \E s \in SocketIds : sockets[s] = "open"
    BY <1>3, <1>4 DEF ServiceInv, AnnouncedOk
  <2>3. sockets' \in Sockets /\ notices' \in NoticesType /\ AnnouncedOk(notices', sockets')
    BY <1>2, <1>3, <2>1, <2>2, ConnectedIs
  <2>4. QED
    BY <1>2, <1>4, <2>3 DEF ServiceInv
<1>5. CASE life # "running"
  <2>1. sockets' = sockets /\ notices' = fired
    BY <1>1, <1>5 DEF Service!Running
  <2>2. QED
    BY <1>2, <1>3, <1>5, <2>1 DEF ServiceInv, Quiet
<1>6. QED
  BY <1>4, <1>5

LEMMA ServiceInitially == Service!Init => ServiceInv
<1> SUFFICES ASSUME Service!Init PROVE ServiceInv
  OBVIOUS
<1>1. /\ life = "constructed"
      /\ chain = [p \in Service!Polled |->
           [status |-> Service!Initially(p = Naver => "naver" \in keys),
            timer |-> FALSE, strays |-> 0, collecting |-> 0]]
      /\ sockets = [s \in SocketIds |-> "none"]
      /\ notices = [status |-> Service!Initially("exchange" \in keys), current |-> NoSocket,
                    retry |-> FALSE, strays |-> 0, pinged |-> NoSocket]
  BY DEF Service!Init
<1>2. \A given \in BOOLEAN : Service!Initially(given) \in {"DISABLED", "INITIALIZING"}
  BY DEF Service!Initially
<1>3. notices \in NoticesType /\ notices.status # "NORMAL" /\ notices.current = NoSocket
  <2> DEFINE status == Service!Initially("exchange" \in keys)
  <2>1. status \in {"DISABLED", "INITIALIZING"}
    BY DEF Service!Initially
  <2>2. notices = [status |-> status, current |-> NoSocket, retry |-> FALSE, strays |-> 0,
                   pinged |-> NoSocket]
    BY <1>1
  <2> HIDE DEF status
  <2>3. QED
    BY <2>1, <2>2 DEF NoticesType, Service!Statuses
<1>4. sockets \in Sockets /\ \A s \in SocketIds : sockets[s] = "none"
  BY <1>1 DEF Sockets, Service!Phases
<1>5. /\ chain \in [Service!Polled -> ChainType]
      /\ \A p \in Service!Polled : /\ chain[p].status \in {"DISABLED", "INITIALIZING"}
                                   /\ chain[p].timer = FALSE /\ chain[p].strays = 0
                                   /\ chain[p].collecting = 0
  BY <1>1, <1>2 DEF ChainType, Service!Statuses
<1>6. QED
  BY <1>1, <1>3, <1>4, <1>5 DEF ServiceInv, Quiet

LEMMA ServiceKept ==
  ASSUME ServiceInv, Service!Next
  PROVE  ServiceInv'
<1>1. ASSUME NEW p \in Service!Polled, Service!CollectSucceeds(p) \/ Service!CollectFails(p)
      PROVE  ServiceInv'
  BY <1>1, CollectEndsKeeps DEF Service!CollectSucceeds, Service!CollectFails
<1>2. QED
  BY <1>1, TimerFiresKeeps, ReloadNaverKeeps, StartKeeps, StopKeeps, ReloadAnnouncementsKeeps,
     OpensKeeps, ClosesKeeps, RetryKeeps DEF Service!Next
-----------------------------------------------------------------------------
(***************************************************************************)
(* The sources: what is shown of them.                                     *)
(***************************************************************************)
\* A source that is shown as normal, or as one that has yet to answer, is what
\* its chain or its socket makes of it.
LEMMA ShownIsAsked ==
  ASSUME ServiceInv, life = "running", NEW overdue, NEW p \in Service!Polled \cup {Service!Announcements},
         Service!CurrentHealth(overdue)[p] \in {"NORMAL", "INITIALIZING"}
  PROVE  IF p = Service!Announcements
         THEN \E s \in SocketIds : sockets[s] \in {"connecting", "open"}
         ELSE Service!Length(chain[p]) > 0
<1>1. CASE p = Service!Announcements
  <2>1. notices.status \in {"NORMAL", "INITIALIZING"}
    BY <1>1 DEF Service!CurrentHealth
  <2>2. QED
    BY <1>1, <2>1 DEF ServiceInv, AnnouncedOk
<1>2. CASE p # Service!Announcements
  <2>1. p \in Service!Polled /\ chain[p].status \in {"NORMAL", "INITIALIZING"}
    BY <1>2 DEF Service!CurrentHealth
  <2>2. QED
    BY <1>2, <2>1 DEF ServiceInv, ChainOk
<1>3. QED
  BY <1>1, <1>2

LEMMA HealthIs ==
  ASSUME ServiceInv, NEW overdue, NEW p \in Service!Polled \cup {Service!Announcements}
  PROVE  /\ DOMAIN Service!CurrentHealth(overdue) = Service!Polled \cup {Service!Announcements}
         /\ Service!CurrentHealth(overdue)[p] \in Service!Statuses \cup {"STALE"}
BY DEF ServiceInv, ChainType, NoticesType, Service!CurrentHealth

\* All is normal only if nothing is stale or disconnected, and unless a source is
\* warned of, nothing else is said.
LEMMA OverallIs ==
  ASSUME NEW health
  PROVE  /\ Service!OverallStatus(health) = "NORMAL" =>
              \A p \in DOMAIN health : health[p] \notin {"STALE", "DISCONNECTED"}
         /\ Service!SourceWarnings(health) = {} =>
              Service!OverallStatus(health) \in {"NORMAL", "UNAVAILABLE"}
<1> DEFINE seen == {health[p] : p \in DOMAIN health} \ {"DISABLED"}
<1>1. /\ seen = {} => Service!OverallStatus(health) = "UNAVAILABLE"
      /\ seen = {"INITIALIZING"} => Service!OverallStatus(health) = "INITIALIZING"
      /\ seen = {"DISCONNECTED"} => Service!OverallStatus(health) = "DISCONNECTED"
      /\ "STALE" \in seen => Service!OverallStatus(health) = "STALE"
      /\ "DISCONNECTED" \in seen /\ seen # {"DISCONNECTED"} /\ "STALE" \notin seen =>
           Service!OverallStatus(health) = "DELAYED"
      /\ seen # {} /\ seen # {"INITIALIZING"} /\ "STALE" \notin seen /\ "DISCONNECTED" \notin seen =>
           Service!OverallStatus(health) = "NORMAL"
  BY DEF Service!OverallStatus
<1>2. \A p \in DOMAIN health : health[p] # "DISABLED" => health[p] \in seen
  OBVIOUS
<1>3. Service!SourceWarnings(health) = {} => seen \in SUBSET {"NORMAL"}
  BY DEF Service!SourceWarnings
<1> HIDE DEF seen
<1>4. Service!OverallStatus(health) = "NORMAL" => "STALE" \notin seen /\ "DISCONNECTED" \notin seen
  BY <1>1
<1>5. Service!SourceWarnings(health) = {} =>
        Service!OverallStatus(health) \in {"NORMAL", "UNAVAILABLE"}
  BY <1>1, <1>3
<1>6. QED
  BY <1>2, <1>4, <1>5

LEMMA HealthShown ==
  ASSUME ServiceInv
  PROVE  Service!NormalIsConnected /\ Service!HealthIsTrue
<1>1. Service!NormalIsConnected
  BY DEF ServiceInv, AnnouncedOk, Service!NormalIsConnected, Service!Running
<1> DEFINE health(overdue) == Service!CurrentHealth(overdue)
           asking(p) == IF p = Service!Announcements
                        THEN \E s \in SocketIds : sockets[s] \in {"connecting", "open"}
                        ELSE Service!Length(chain[p]) > 0
<1>2. ASSUME Service!Running, NEW overdue
      PROVE  /\ \A p \in DOMAIN health(overdue) : health(overdue)[p] # "DISABLED" =>
                  asking(p) \/ p \in Service!SourceWarnings(health(overdue))
             /\ Service!OverallStatus(health(overdue)) = "NORMAL" =>
                  \A p \in DOMAIN health(overdue) \ overdue :
                    \/ health(overdue)[p] \in {"NORMAL", "DISABLED"}
                    \/ health(overdue)[p] = "INITIALIZING" /\ asking(p)
             /\ Service!SourceWarnings(health(overdue)) = {} =>
                  Service!OverallStatus(health(overdue)) \in {"NORMAL", "UNAVAILABLE"}
  <2>1. life = "running"
    BY <1>2 DEF Service!Running
  <2>2. ASSUME NEW p \in DOMAIN health(overdue), health(overdue)[p] \in {"NORMAL", "INITIALIZING"}
        PROVE  asking(p)
    BY <2>1, <2>2, HealthIs, ShownIsAsked
  <2> HIDE DEF asking
  <2>3. ASSUME NEW p \in DOMAIN health(overdue), health(overdue)[p] # "DISABLED"
        PROVE  asking(p) \/ p \in Service!SourceWarnings(health(overdue))
    BY <2>2, <2>3 DEF Service!SourceWarnings
  <2>4. ASSUME Service!OverallStatus(health(overdue)) = "NORMAL",
               NEW p \in DOMAIN health(overdue) \ overdue
        PROVE  \/ health(overdue)[p] \in {"NORMAL", "DISABLED"}
               \/ health(overdue)[p] = "INITIALIZING" /\ asking(p)
    <3>1. health(overdue)[p] \in Service!Statuses \cup {"STALE"}
      BY HealthIs
    <3>2. health(overdue)[p] \notin {"STALE", "DISCONNECTED"}
      BY <2>4, OverallIs
    <3>3. QED
      BY <2>2, <3>1, <3>2 DEF Service!Statuses
  <2>5. QED
    BY <2>3, <2>4, OverallIs
<1>3. Service!HealthIsTrue
  BY <1>2 DEF Service!HealthIsTrue
<1>4. QED
  BY <1>1, <1>3

LEMMA ServiceStays == ASSUME ServiceInv, UNCHANGED service PROVE ServiceInv'
BY DEF service, ServiceInv, Quiet, AnnouncedOk

\* What is shown of the sources is true of them: the announcements are reported as
\* followed only over an open connection, and all is reported as normal only while
\* every source has an answer or is being asked for its first.  This is what
\* SourcesFollowed says but for its liveness, for any number of feeds, sockets and
\* timers, however late answers and close events are.
THEOREM HealthIsTold == MCSpec => [](Service!NormalIsConnected /\ Service!HealthIsTrue)
<1>1. MCInit => ServiceInv
  BY ServiceInitially DEF MCInit
<1>2. ServiceInv /\ [MCNext]_<<vars, service, prices, part>> => ServiceInv'
  BY ServiceKept, ServiceStays DEF MCNext, Following, Serving, Quoting
<1>3. ServiceInv => Service!NormalIsConnected /\ Service!HealthIsTrue
  BY HealthShown
<1>4. QED
  BY <1>1, <1>2, <1>3, PTL DEF MCSpec
=============================================================================
