------------------------------ MODULE MCMarket ------------------------------
(***************************************************************************)
(* A small instance of PoolMarket: seven ticks two by two, words of two    *)
(* bits, three ranges that begin and end at the same ticks.                *)
(***************************************************************************)
EXTENDS PoolMarket

Table == [t \in -3 .. 3 |-> <<7, 9, 12, 16, 21, 27, 36>>[t + 4]]
Ranges == {<<-2, 2>>, <<-2, 0>>, <<0, 2>>}

\* Three pools and the ways they may be described, listed up to four times.
Chains == <<1, 1, 2>>
Listed(id, token, quoteable) ==
  [id |-> id, token |-> token, quoteAsset |-> "USD", currency0 |-> "USD",
   currency1 |-> token, quoteable |-> quoteable]
Descriptors ==
  {Listed(1, "X", TRUE), Listed(1, "X", FALSE), Listed(2, "X", TRUE), Listed(2, "Y", TRUE),
   Listed(3, "X", TRUE), [Listed(2, "X", TRUE) EXCEPT !.quoteAsset = "EUR"]}
Listings == UNION {[1 .. n -> Descriptors] : n \in 0 .. 4}

\* Pools inside and at the ends of their words, with the quote asset on either side.
PoolAt(price, liquidity, quoteIsZero) ==
  [price |-> price, liquidity |-> liquidity, lpFee |-> 0, protocolFee |-> 0,
   tick |-> CHOOSE t \in Tick : /\ SqrtAtTick[t] <= price
                                /\ t < MaxTick => price < SqrtAtTick[t + 1],
   verification |-> "Supported", bitmap |-> [w \in Word |-> {}],
   quoteIsZero |-> quoteIsZero]
Pools == {PoolAt(price, liquidity, zero) :
            price \in 8 .. 26, liquidity \in {12, 30}, zero \in BOOLEAN}
Markets == [buy : Pools, sell : Pools]

Converted(numerator, current) ==
  [amount |-> 1, asset |-> "ETH",
   conversion |-> [numerator |-> numerator, denominator |-> 2, current |-> current]]
Costs ==
  {[amount |-> 1, asset |-> "USD", conversion |-> None],
   [amount |-> None, asset |-> "ETH", conversion |-> None],
   Converted(3, TRUE), Converted(3, FALSE), Converted(0, TRUE)}

=============================================================================
