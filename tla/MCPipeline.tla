----------------------------- MODULE MCPipeline -----------------------------
(* Instances of Pipeline for TLC: a stock at 50 dollars and one at 90      *)
(* cents, an account of 100000 dollars, and what may differ from that.     *)
EXTENDS Pipeline

Around(mid, half) == [bid |-> mid - half, ask |-> mid + half]
Even == 10000
Cheap == 180

MCMarket(quote, last) == [quote |-> quote, last |-> last, volume |-> 2000, quality |-> "GOOD"]
AtPar == MCMarket(Around(Even, 10), Even)
AtCents == MCMarket(Around(Cheap, 1), Cheap)

MCAccount == [readable |-> TRUE, equity |-> 100000 * Dollar]
Base(direction, market) ==
  [direction |-> direction, proposes |-> TRUE, confidence |-> 850, market |-> market,
   atr |-> market.last \div 50, volatility |-> 20, account |-> MCAccount, portfolio |-> EmptyPortfolio]

Bases == {Base(d, m) : d \in Directions, m \in {AtPar, AtCents}}

(* One reading gone wrong, each hard gate among them. *)
Spoiled(c) ==
  {[c EXCEPT !.proposes = FALSE]} \cup {[c EXCEPT !.confidence = x] : x \in {0, 599, 600, 799}}
  \cup {[c EXCEPT !.market = MCMarket(q, p)] :
          q \in {NoQuote, Around(Even, -2), Around(Even, 251), Around(Even, 250), [bid |-> 0, ask |-> 2]},
          p \in {0, Even}}
  \cup {[c EXCEPT !.atr = a] : a \in {None, 1, Even}}
  \cup {[c EXCEPT !.volatility = v] : v \in {None, 31, 800, 3000}}
  \cup {[c EXCEPT !.market.volume = v] : v \in {None, 0, 19}}
  \cup {[c EXCEPT !.account = [readable |-> r, equity |-> e * Dollar]] :
          r \in BOOLEAN, e \in {-1, 0, 5, 20000}}

(* A portfolio read, or not, or lossy. *)
Held(held, gross, net, count, pnl) ==
  [readable |-> TRUE, held |-> held * Dollar, gross |-> gross * Dollar, net |-> net * Dollar,
   count |-> count, pnl |-> pnl * Dollar]
MCPortfolios ==
  {Held(h, g, n, k, l) : h \in {0, 2501, 9000}, g \in {9000, 80001}, n \in {-50000, 9000},
                         k \in {7, 8}, l \in {-3000, -3001}}
  \cup {[EmptyPortfolio EXCEPT !.readable = FALSE]}

MCContexts ==
  Bases \cup UNION {Spoiled(c) : c \in Bases}
    \cup {[Base("BULLISH", AtPar) EXCEPT !.portfolio = f, !.confidence = x] :
            f \in MCPortfolios, x \in {700, 850}}

MCMarkets ==
  {AtPar, AtCents, MCMarket(Around(Even + 300, 10), Even), MCMarket(NoQuote, 0),
   [MCMarket(Around(Even, 200), Even) EXCEPT !.quality = "STALE", !.volume = None]}

MCOption(type, price, bid, ask) ==
  [type |-> type, dte |-> 45, strike |-> price, bid |-> bid, ask |-> ask,
   bidSize |-> 70, askSize |-> 50, delta |-> 550, iv |-> 300, parses |-> TRUE, quoted |-> TRUE]

AtTheMoney == {MCOption(t, Even, 390, 400) : t \in {"CALL", "PUT"}}
InCents == {MCOption(t, Cheap, 38, 40) : t \in {"CALL", "PUT"}}
Poor == {[o EXCEPT !.dte = 90, !.strike = 172, !.bidSize = 1, !.askSize = 1, !.delta = None, !.iv = None, !.bid = 36]
          : o \in InCents}
Unfit == {[o EXCEPT !.dte = 6] : o \in InCents} \cup {[o EXCEPT !.bidSize = 0] : o \in InCents} \cup {[o EXCEPT !.ask = 2200, !.bid = 2190] : o \in AtTheMoney}
Unparsed == {[o EXCEPT !.parses = FALSE] : o \in InCents}

MCChains == {AtTheMoney, InCents, Poor \cup InCents, Poor, Unfit, Unparsed, AtTheMoney \cup InCents}

MCQuotes ==
  {Around(Even, 10), Around(Even + 50, 10), Around(Even + 51, 10), Around(Even + 300, 10), Around(Even, 101), Around(Even, 0),
   Around(Cheap, 1), Around(Cheap, -1), [bid |-> 0, ask |-> 2]}

MCPermissions == {[execution |-> TRUE, paper |-> TRUE], [execution |-> TRUE, paper |-> FALSE]}
=============================================================================
