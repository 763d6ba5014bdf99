------------------------------ MODULE WireTypes ------------------------------
(***************************************************************************)
(* What the generated MarshalCBOR and UnmarshalCBOR methods write and read *)
(* (the *_cbor_gen.go files).  A type is a map from the names of its fields *)
(* or a tuple.  MarshalT is the header, its count and the fields in the    *)
(* order in which they are written; UnmarshalT has the fields that the     *)
(* reader knows: by name for a map, whose reader skips the names it does   *)
(* not know, and in order for a tuple, whose reader insists on the count.  *)
(***************************************************************************)

\* The kinds of fields.  A Deferred is any item, decoded by whoever uses it;
\* Ext is a type of another module, with a MarshalCBOR of its own.
Uint64 == <<"uint">>
Int64 == <<"int">>
Bool == <<"bool">>
Text == <<"text">>
ByteString == <<"bytes">>
Cid == <<"cid">>
Address == <<"address">>
BigInt == <<"big">>
Deferred == <<"any">>
Ext == <<"ext">>
Ptr(kind) == <<"ptr", kind>>
List(kind) == <<"list", kind>>
Struct(type) == <<"struct", type>>

Map(n, fields) == [as |-> "map", n |-> n, fields |-> fields]
Tuple(n, fields) == [as |-> "array", n |-> n, fields |-> fields]
-----------------------------------------------------------------------------
(* retrieval/deal: queries, offers, deals and their persisted states. *)

MarshalQueryParams ==
  Map(2, << <<"PieceCID", Ptr(Cid)>>, <<"Selector", Deferred>> >>)
UnmarshalQueryParams == [PieceCID |-> Ptr(Cid), Selector |-> Deferred]

MarshalQuery ==
  Map(2, << <<"PayloadCID", Cid>>, <<"QueryParams", Struct("QueryParams")>> >>)
UnmarshalQuery == [PayloadCID |-> Cid, QueryParams |-> Struct("QueryParams")]

MarshalQueryResponse ==
  Map(9, << <<"Status", Uint64>>, <<"PieceCIDFound", Uint64>>, <<"Size", Uint64>>,
            <<"PaymentAddress", Address>>, <<"MinPricePerByte", BigInt>>,
            <<"MaxPaymentInterval", Uint64>>, <<"MaxPaymentIntervalIncrease", Uint64>>,
            <<"Message", Text>>, <<"UnsealPrice", BigInt>> >>)
UnmarshalQueryResponse ==
  [Status |-> Uint64, PieceCIDFound |-> Uint64, Size |-> Uint64,
   PaymentAddress |-> Address, MinPricePerByte |-> BigInt,
   MaxPaymentInterval |-> Uint64, MaxPaymentIntervalIncrease |-> Uint64,
   Message |-> Text, UnsealPrice |-> BigInt]

MarshalProposal ==
  Map(3, << <<"PayloadCID", Cid>>, <<"ID", Uint64>>, <<"Params", Struct("Params")>> >>)
UnmarshalProposal == [PayloadCID |-> Cid, ID |-> Uint64, Params |-> Struct("Params")]

MarshalResponse ==
  Map(4, << <<"Status", Uint64>>, <<"ID", Uint64>>, <<"PaymentOwed", BigInt>>,
            <<"Message", Text>> >>)
UnmarshalResponse ==
  [Status |-> Uint64, ID |-> Uint64, PaymentOwed |-> BigInt, Message |-> Text]

MarshalParams ==
  Map(6, << <<"Selector", Deferred>>, <<"PieceCID", Ptr(Cid)>>, <<"PricePerByte", BigInt>>,
            <<"PaymentInterval", Uint64>>, <<"PaymentIntervalIncrease", Uint64>>,
            <<"UnsealPrice", BigInt>> >>)
UnmarshalParams ==
  [Selector |-> Deferred, PieceCID |-> Ptr(Cid), PricePerByte |-> BigInt,
   PaymentInterval |-> Uint64, PaymentIntervalIncrease |-> Uint64, UnsealPrice |-> BigInt]

MarshalPayment ==
  Map(3, << <<"ID", Uint64>>, <<"PaymentChannel", Address>>,
            <<"PaymentVoucher", Ptr(Ext)>> >>)
UnmarshalPayment ==
  [ID |-> Uint64, PaymentChannel |-> Address, PaymentVoucher |-> Ptr(Ext)]

MarshalClientState ==
  Map(20, << <<"Proposal", Struct("Proposal")>>, <<"StoreID", Ptr(Uint64)>>,
             <<"ChannelID", Ext>>, <<"LastPaymentRequested", Bool>>,
             <<"AllBlocksReceived", Bool>>, <<"TotalFunds", BigInt>>,
             <<"ClientWallet", Address>>, <<"MinerWallet", Address>>,
             <<"PaymentInfo", Ptr(Struct("PaymentInfo"))>>, <<"Status", Uint64>>,
             <<"Sender", Text>>, <<"TotalReceived", Uint64>>, <<"Message", Text>>,
             <<"BytesPaidFor", Uint64>>, <<"CurrentInterval", Uint64>>,
             <<"PaymentRequested", BigInt>>, <<"FundsSpent", BigInt>>,
             <<"UnsealFundsPaid", BigInt>>, <<"WaitMsgCID", Ptr(Cid)>>,
             <<"VoucherShortfall", BigInt>> >>)

\* Mutant: written before the last field was added to the type.
OldClientState ==
  [Proposal |-> Struct("Proposal"), StoreID |-> Ptr(Uint64), ChannelID |-> Ext,
   LastPaymentRequested |-> Bool, AllBlocksReceived |-> Bool, TotalFunds |-> BigInt,
   ClientWallet |-> Address, MinerWallet |-> Address,
   PaymentInfo |-> Ptr(Struct("PaymentInfo")), Status |-> Uint64, Sender |-> Text,
   TotalReceived |-> Uint64, Message |-> Text, BytesPaidFor |-> Uint64,
   CurrentInterval |-> Uint64, PaymentRequested |-> BigInt, FundsSpent |-> BigInt,
   UnsealFundsPaid |-> BigInt, WaitMsgCID |-> Ptr(Cid)]

UnmarshalClientState ==
  [Proposal |-> Struct("Proposal"), StoreID |-> Ptr(Uint64), ChannelID |-> Ext,
   LastPaymentRequested |-> Bool, AllBlocksReceived |-> Bool, TotalFunds |-> BigInt,
   ClientWallet |-> Address, MinerWallet |-> Address,
   PaymentInfo |-> Ptr(Struct("PaymentInfo")), Status |-> Uint64, Sender |-> Text,
   TotalReceived |-> Uint64, Message |-> Text, BytesPaidFor |-> Uint64,
   CurrentInterval |-> Uint64, PaymentRequested |-> BigInt, FundsSpent |-> BigInt,
   UnsealFundsPaid |-> BigInt, WaitMsgCID |-> Ptr(Cid), VoucherShortfall |-> BigInt]

MarshalProviderState ==
  Map(10, << <<"Proposal", Struct("Proposal")>>, <<"StoreID", Uint64>>,
             <<"ChannelID", Ext>>, <<"Status", Uint64>>, <<"Receiver", Text>>,
             <<"TotalSent", Uint64>>, <<"FundsReceived", BigInt>>, <<"Message", Text>>,
             <<"CurrentInterval", Uint64>>, <<"PayCh", Ptr(Address)>> >>)
UnmarshalProviderState ==
  [Proposal |-> Struct("Proposal"), StoreID |-> Uint64, ChannelID |-> Ext,
   Status |-> Uint64, Receiver |-> Text, TotalSent |-> Uint64, FundsReceived |-> BigInt,
   Message |-> Text, CurrentInterval |-> Uint64, PayCh |-> Ptr(Address)]

MarshalPaymentInfo == Map(2, << <<"PayCh", Address>>, <<"Lane", Uint64>> >>)
UnmarshalPaymentInfo == [PayCh |-> Address, Lane |-> Uint64]

MarshalOffer ==
  Map(9, << <<"ID", Text>>, <<"PeerAddr", ByteString>>, <<"PayloadCID", Cid>>,
            <<"Size", Uint64>>, <<"PaymentAddress", Address>>,
            <<"MinPricePerByte", BigInt>>, <<"MaxPaymentInterval", Uint64>>,
            <<"MaxPaymentIntervalIncrease", Uint64>>, <<"UnsealPrice", BigInt>> >>)
UnmarshalOffer ==
  [ID |-> Text, PeerAddr |-> ByteString, PayloadCID |-> Cid, Size |-> Uint64,
   PaymentAddress |-> Address, MinPricePerByte |-> BigInt,
   MaxPaymentInterval |-> Uint64, MaxPaymentIntervalIncrease |-> Uint64,
   UnsealPrice |-> BigInt]
-----------------------------------------------------------------------------
(* exchange: requests between peers and the records of the index. *)

MarshalDataRef ==
  Map(5, << <<"PayloadCID", Cid>>, <<"PayloadSize", Int64>>, <<"Keys", List(ByteString)>>,
            <<"Freq", Int64>>, <<"BucketID", Int64>> >>)
UnmarshalDataRef ==
  [PayloadCID |-> Cid, PayloadSize |-> Int64, Keys |-> List(ByteString), Freq |-> Int64,
   BucketID |-> Int64]

MarshalRequest ==
  Tuple(4, << <<"Method", Uint64>>, <<"PayloadCID", Cid>>, <<"Size", Uint64>>,
              <<"Seed", ByteString>> >>)
UnmarshalRequest ==
  Tuple(4, << <<"Method", Uint64>>, <<"PayloadCID", Cid>>, <<"Size", Uint64>>,
              <<"Seed", ByteString>> >>)

MarshalReplicationResponse == Tuple(1, << <<"Proof", Ptr(Cid)>> >>)
UnmarshalReplicationResponse == Tuple(1, << <<"Proof", Ptr(Cid)>> >>)

MarshalHey ==
  Tuple(2, << <<"Regions", List(Uint64)>>, <<"IndexRoot", Ptr(Cid)>> >>)
UnmarshalHey ==
  Tuple(2, << <<"Regions", List(Uint64)>>, <<"IndexRoot", Ptr(Cid)>> >>)
-----------------------------------------------------------------------------
(* node: records of the remote index. *)

MarshalRRecord ==
  Tuple(4, << <<"PeerAddr", ByteString>>, <<"PayAddr", Address>>,
              <<"Size", Int64>>, <<"Signature", Ptr(Ext)>> >>)
UnmarshalRRecord ==
  Tuple(4, << <<"PeerAddr", ByteString>>, <<"PayAddr", Address>>,
              <<"Size", Int64>>, <<"Signature", Ptr(Ext)>> >>)
-----------------------------------------------------------------------------
(* payments: the datastore of the channels. *)

MarshalVoucherInfo ==
  Tuple(3, << <<"Voucher", Ptr(Ext)>>, <<"Proof", ByteString>>,
              <<"Submitted", Bool>> >>)
UnmarshalVoucherInfo ==
  Tuple(3, << <<"Voucher", Ptr(Ext)>>, <<"Proof", ByteString>>,
              <<"Submitted", Bool>> >>)

MarshalChannelInfo ==
  Tuple(12, << <<"ChannelID", Text>>, <<"Channel", Ptr(Address)>>,
               <<"Control", Address>>, <<"Target", Address>>,
               <<"Direction", Uint64>>,
               <<"Vouchers", List(Struct("VoucherInfo"))>>,
               <<"NextLane", Uint64>>, <<"Amount", BigInt>>,
               <<"PendingAmount", BigInt>>, <<"CreateMsg", Ptr(Cid)>>,
               <<"AddFundsMsg", Ptr(Cid)>>, <<"Settling", Bool>> >>)
UnmarshalChannelInfo ==
  Tuple(12, << <<"ChannelID", Text>>, <<"Channel", Ptr(Address)>>,
               <<"Control", Address>>, <<"Target", Address>>,
               <<"Direction", Uint64>>,
               <<"Vouchers", List(Struct("VoucherInfo"))>>,
               <<"NextLane", Uint64>>, <<"Amount", BigInt>>,
               <<"PendingAmount", BigInt>>, <<"CreateMsg", Ptr(Cid)>>,
               <<"AddFundsMsg", Ptr(Cid)>>, <<"Settling", Bool>> >>)

MarshalMsgInfo ==
  Tuple(4, << <<"ChannelID", Text>>, <<"MsgCid", Cid>>, <<"Received", Bool>>,
              <<"Err", Text>> >>)
UnmarshalMsgInfo ==
  Tuple(4, << <<"ChannelID", Text>>, <<"MsgCid", Cid>>, <<"Received", Bool>>,
              <<"Err", Text>> >>)
-----------------------------------------------------------------------------
(* filecoin: what is read from and sent to the chain. *)

MarshalTicket == Tuple(1, << <<"VRFProof", ByteString>> >>)
UnmarshalTicket == Tuple(1, << <<"VRFProof", ByteString>> >>)

MarshalElectionProof ==
  Tuple(2, << <<"WinCount", Int64>>, <<"VRFProof", ByteString>> >>)
UnmarshalElectionProof ==
  Tuple(2, << <<"WinCount", Int64>>, <<"VRFProof", ByteString>> >>)

MarshalExpTipSet ==
  Tuple(3, << <<"Cids", List(Cid)>>,
              <<"Blocks", List(Struct("BlockHeader"))>>, <<"Height", Int64>> >>)
UnmarshalExpTipSet ==
  Tuple(3, << <<"Cids", List(Cid)>>,
              <<"Blocks", List(Struct("BlockHeader"))>>, <<"Height", Int64>> >>)

MarshalBeaconEntry ==
  Tuple(2, << <<"Round", Uint64>>, <<"Data", ByteString>> >>)
UnmarshalBeaconEntry ==
  Tuple(2, << <<"Round", Uint64>>, <<"Data", ByteString>> >>)

MarshalBlockHeader ==
  Tuple(16, << <<"Miner", Address>>, <<"Ticket", Ptr(Struct("Ticket"))>>,
               <<"ElectionProof", Ptr(Struct("ElectionProof"))>>,
               <<"BeaconEntries", List(Struct("BeaconEntry"))>>,
               <<"WinPoStProof", List(Ext)>>, <<"Parents", List(Cid)>>,
               <<"ParentWeight", BigInt>>, <<"Height", Int64>>,
               <<"ParentStateRoot", Cid>>, <<"ParentMessageReceipts", Cid>>,
               <<"Messages", Cid>>, <<"BLSAggregate", Ptr(Ext)>>,
               <<"Timestamp", Uint64>>, <<"BlockSig", Ptr(Ext)>>,
               <<"ForkSignaling", Uint64>>, <<"ParentBaseFee", BigInt>> >>)
UnmarshalBlockHeader ==
  Tuple(16, << <<"Miner", Address>>, <<"Ticket", Ptr(Struct("Ticket"))>>,
               <<"ElectionProof", Ptr(Struct("ElectionProof"))>>,
               <<"BeaconEntries", List(Struct("BeaconEntry"))>>,
               <<"WinPoStProof", List(Ext)>>, <<"Parents", List(Cid)>>,
               <<"ParentWeight", BigInt>>, <<"Height", Int64>>,
               <<"ParentStateRoot", Cid>>, <<"ParentMessageReceipts", Cid>>,
               <<"Messages", Cid>>, <<"BLSAggregate", Ptr(Ext)>>,
               <<"Timestamp", Uint64>>, <<"BlockSig", Ptr(Ext)>>,
               <<"ForkSignaling", Uint64>>, <<"ParentBaseFee", BigInt>> >>)

MarshalMessage ==
  Tuple(10, << <<"Version", Uint64>>, <<"To", Address>>, <<"From", Address>>,
               <<"Nonce", Uint64>>, <<"Value", BigInt>>, <<"GasLimit", Int64>>,
               <<"GasFeeCap", BigInt>>, <<"GasPremium", BigInt>>,
               <<"Method", Uint64>>, <<"Params", ByteString>> >>)
UnmarshalMessage ==
  Tuple(10, << <<"Version", Uint64>>, <<"To", Address>>, <<"From", Address>>,
               <<"Nonce", Uint64>>, <<"Value", BigInt>>, <<"GasLimit", Int64>>,
               <<"GasFeeCap", BigInt>>, <<"GasPremium", BigInt>>,
               <<"Method", Uint64>>, <<"Params", ByteString>> >>)

MarshalActor ==
  Tuple(4, << <<"Code", Cid>>, <<"Head", Cid>>, <<"Nonce", Uint64>>,
              <<"Balance", BigInt>> >>)
UnmarshalActor ==
  Tuple(4, << <<"Code", Cid>>, <<"Head", Cid>>, <<"Nonce", Uint64>>,
              <<"Balance", BigInt>> >>)

MarshalSignedMessage ==
  Tuple(2, << <<"Message", Struct("Message")>>, <<"Signature", Ext>> >>)
UnmarshalSignedMessage ==
  Tuple(2, << <<"Message", Struct("Message")>>, <<"Signature", Ext>> >>)
-----------------------------------------------------------------------------
\* The methods by type: of all types, and the readers of the two encodings.
WireWriters ==
  [QueryParams |-> MarshalQueryParams, Query |-> MarshalQuery,
   QueryResponse |-> MarshalQueryResponse, Proposal |-> MarshalProposal,
   Response |-> MarshalResponse, Params |-> MarshalParams,
   Payment |-> MarshalPayment, ClientState |-> MarshalClientState,
   ProviderState |-> MarshalProviderState, PaymentInfo |-> MarshalPaymentInfo,
   Offer |-> MarshalOffer, DataRef |-> MarshalDataRef,
   Request |-> MarshalRequest,
   ReplicationResponse |-> MarshalReplicationResponse, Hey |-> MarshalHey,
   RRecord |-> MarshalRRecord, VoucherInfo |-> MarshalVoucherInfo,
   ChannelInfo |-> MarshalChannelInfo, MsgInfo |-> MarshalMsgInfo,
   Ticket |-> MarshalTicket, ElectionProof |-> MarshalElectionProof,
   ExpTipSet |-> MarshalExpTipSet, BeaconEntry |-> MarshalBeaconEntry,
   BlockHeader |-> MarshalBlockHeader, Message |-> MarshalMessage,
   Actor |-> MarshalActor, SignedMessage |-> MarshalSignedMessage]
WireMapReaders ==
  [QueryParams |-> UnmarshalQueryParams, Query |-> UnmarshalQuery,
   QueryResponse |-> UnmarshalQueryResponse, Proposal |-> UnmarshalProposal,
   Response |-> UnmarshalResponse, Params |-> UnmarshalParams,
   Payment |-> UnmarshalPayment, ClientState |-> UnmarshalClientState,
   ProviderState |-> UnmarshalProviderState,
   PaymentInfo |-> UnmarshalPaymentInfo, Offer |-> UnmarshalOffer,
   DataRef |-> UnmarshalDataRef]
WireTupleReaders ==
  [Request |-> UnmarshalRequest,
   ReplicationResponse |-> UnmarshalReplicationResponse, Hey |-> UnmarshalHey,
   RRecord |-> UnmarshalRRecord, VoucherInfo |-> UnmarshalVoucherInfo,
   ChannelInfo |-> UnmarshalChannelInfo, MsgInfo |-> UnmarshalMsgInfo,
   Ticket |-> UnmarshalTicket, ElectionProof |-> UnmarshalElectionProof,
   ExpTipSet |-> UnmarshalExpTipSet, BeaconEntry |-> UnmarshalBeaconEntry,
   BlockHeader |-> UnmarshalBlockHeader, Message |-> UnmarshalMessage,
   Actor |-> UnmarshalActor, SignedMessage |-> UnmarshalSignedMessage]

\* The one exported field of these types that MarshalCBOR leaves out: it was
\* added to the type and not to the generated code.
WireUnwritten == [ChannelInfo |-> [SettlingAt |-> Int64]]
=============================================================================
