---------------------------- MODULE DynamicBasket ----------------------------
(***************************************************************************)
(* Which symbols the alt collector follows besides its core                *)
(* (market/multicoin/alt-binance-rest.ts and dynamic-basket.ts): the       *)
(* candidates a scan of the exchange finds, their scores, and the basket   *)
(* that replaces the one before.  A basket is a set of members; scores are *)
(* percentiles in units of 1/Scale, weighted in hundredths.                *)
(***************************************************************************)
EXTENDS Integers, FiniteSets, Sequences

CONSTANTS
  TargetSize,      \* DYNAMIC_BASKET_TARGET_SIZE
  MinResidence,    \* DYNAMIC_BASKET_MIN_RESIDENCE_MS
  MinListingAge,   \* MIN_LISTING_AGE_MS
  SymbolOrder      \* the symbols in the order of localeCompare

Null == -1
Scale == 12   \* every percentile among up to four symbols is whole
Margin == 3 * Scale   \* REPLACEMENT_SCORE_MARGIN
MaxElectiveReplacements ==
  IF TargetSize \div 4 > 1 THEN TargetSize \div 4 ELSE 1

Comes(s, t) ==
  \E i, j \in DOMAIN SymbolOrder : i < j /\ SymbolOrder[i] = s /\ SymbolOrder[j] = t

\* eligibleDynamicSymbols: `listing` is a row of the exchange info; `traded`
\* stands for its contract type, status, assets and exclusions.
Eligible(listing, now) ==
  listing.traded /\ (listing.onboard = Null \/ now - listing.onboard >= MinListingAge)

\* scanDynamicBasketCandidates, when the three lists have been read: a row per
\* eligible symbol, complete if it has a ticker, a book and an open interest.
\* A ticker is one number, which stands for volume and trade count.
ScanDynamicBasketCandidates(listings, answered, now) ==
  LET notional(l) ==
        IF l.ticker = Null \/ l.symbol \notin answered THEN Null ELSE l.openInterest
  IN  {[symbol       |-> l.symbol,
        quoteVolume  |-> IF l.ticker = Null THEN 0 ELSE l.ticker,
        openInterest |-> notional(l),
        spread       |-> l.book,
        tradeCount   |-> IF l.ticker = Null THEN 0 ELSE l.ticker,
        dataComplete |-> l.ticker # Null /\ l.book # Null /\ notional(l) # Null]
       : l \in {l \in listings : Eligible(l, now)}}

\* percentileMap, and 0 for a symbol without a value: the average rank among
\* those that have one.
Percentile(values, symbol, higherIsBetter) ==
  LET finite == {s \in DOMAIN values : values[s] # Null}
      lower  == {s \in finite : values[s] < values[symbol]}
      equal  == {s \in finite : values[s] = values[symbol]}
      others == Cardinality(finite) - 1
      rank   == ((2 * Cardinality(lower) + Cardinality(equal) - 1) * Scale) \div (2 * others)
  IN  IF symbol \notin finite THEN 0
      ELSE IF others = 0 THEN Scale
      ELSE IF higherIsBetter THEN rank ELSE Scale - rank

\* scoreDynamicBasketCandidates
Score(candidates, c) ==
  LET symbols == {d.symbol : d \in candidates}
      row(s)  == CHOOSE d \in candidates : d.symbol = s
  IN  40 * Percentile([s \in symbols |-> row(s).quoteVolume], c.symbol, TRUE)
        + 30 * Percentile([s \in symbols |-> row(s).openInterest], c.symbol, TRUE)
        + 15 * Percentile([s \in symbols |-> row(s).spread], c.symbol, FALSE)
        + 10 * Percentile([s \in symbols |-> row(s).tradeCount], c.symbol, TRUE)
        + 5 * (IF c.dataComplete THEN Scale ELSE 0)

Better(m, n) == m.score > n.score \/ (m.score = n.score /\ Comes(m.symbol, n.symbol))

\* How many are better, and the first ones when the best comes first
Rank(members, m) == Cardinality({n \in members : Better(n, m)})
Slice(members, count) == {m \in members : Rank(members, m) < count}
Nth(members, n) == CHOOSE m \in members : Rank(members, m) = n - 1

Outside(basket, m) == \A n \in basket : n.symbol # m.symbol

\* Mutant: residence counts for nothing.
ReplaceAnyone(retained, challenger, now) ==
  LET worst == {m \in retained : \A n \in retained \ {m} : Better(n, m)}
  IN  IF \E m \in worst : challenger.score >= m.score + Margin
      THEN (retained \ worst) \cup {challenger}
      ELSE retained

\* One elective replacement: the worst of the members that have stayed long
\* enough gives way to a challenger that is better by the margin.
Challenged(retained, challenger, now) ==
  LET settled == {m \in retained : now - m.selectedAt >= MinResidence}
      worst   == {m \in settled : \A n \in settled \ {m} : Better(n, m)}
  IN  IF \E m \in worst : challenger.score >= m.score + Margin
      THEN (retained \ worst) \cup {challenger}
      ELSE retained

\* The basket is filled up from the best member to the worst.
Filled(members, retained) ==
  LET basket[n \in 0 .. Cardinality(members)] ==
        IF n = 0 THEN retained
        ELSE LET m == Nth(members, n)
             IN  IF Cardinality(basket[n - 1]) < TargetSize /\ Outside(basket[n - 1], m)
                 THEN basket[n - 1] \cup {m} ELSE basket[n - 1]
  IN  basket[Cardinality(members)]

Challenge(state, m, now) ==
  LET after == Challenged(state.basket, m, now)
  IN  IF state.replaced < MaxElectiveReplacements /\ Outside(state.basket, m)
         /\ after # state.basket
      THEN [basket |-> after, replaced |-> state.replaced + 1]
      ELSE state

\* Every other member challenges the basket, the best first.
Replaced(members, filled, now) ==
  LET state[n \in 0 .. Cardinality(members)] ==
        IF n = 0 THEN [basket |-> filled, replaced |-> 0]
        ELSE Challenge(state[n - 1], Nth(members, n), now)
  IN  state[Cardinality(members)].basket

Scored(candidates, now) ==
  {[symbol |-> c.symbol, score |-> Score(candidates, c), selectedAt |-> now] : c \in candidates}

Retained(members, previous) ==
  UNION {{[m EXCEPT !.selectedAt = p.selectedAt]
            : p \in {p \in previous : p.symbol = m.symbol}} : m \in members}

\* selectDynamicBasket
SelectDynamicBasket(now, candidates, previous) ==
  LET members == Scored(candidates, now)
      filled  == Filled(members, Retained(members, previous))
  IN  IF previous = {} THEN Slice(members, TargetSize)
      ELSE Slice(Replaced(members, filled, now), TargetSize)
=============================================================================
