---------------------------- MODULE MCRetrieval ----------------------------
EXTENDS Retrieval
Prop(price, int, inc, unseal, funds) ==
  [PricePerByte |-> price, PaymentInterval |-> int, PaymentIntervalIncrease |-> inc,
   UnsealPrice |-> unseal, TotalFunds |-> funds]
MCBlocks == <<2, 2, 2>>
MCProposals == {Prop(1, 3, 1, 0, 6), Prop(1, 2, 0, 0, 6), Prop(0, 3, 1, 0, 0), Prop(1, 4, 1, 0, 6)}
MCOne == <<2>>
MCSmall == {Prop(1, 1, 0, 0, 6)}
MCAsk == [MinPricePerByte |-> 0, MaxPaymentInterval |-> 3, MaxPaymentIntervalIncrease |-> 1]
MCBalances == {0, 6}
=============================================================================
