------------------------------- MODULE Protocol -------------------------------
(***************************************************************************)
(* The wire protocol of protocol.hpp and protocol.cpp, byte by byte: layout *)
(* of the payloads, codecs, and the checks of header and payload.           *)
(*                                                                         *)
(* The size of a byte and the width of a 64-bit field are parameters, and   *)
(* the layout scales with the latter; buffers are functions on 0 .. n - 1,  *)
(* and a reserved field or a check that a buffer is long enough is as in    *)
(* the code.                                                                *)
(***************************************************************************)
EXTENDS Integers, Sequences, FiniteSets, FiniteSetsExt

CONSTANTS Base,               \* values of a byte (256)
          Word,               \* bytes of a 64-bit field (8)
          kMagic,             \* 0x584C
          kMaxPayloadLength   \* 1024

ASSUME WidthAssumption == Base \in Nat \ 0 .. 23 /\ Word \in Nat \ 0 .. 3

kVersion == 1
kHeaderSize == 8

MessageType ==
    [new_order |-> 1, cancel_order |-> 2, replace_order |-> 3,
     order_accepted |-> 16, order_rejected |-> 17, execution |-> 18,
     cancel_accepted |-> 19, cancel_rejected |-> 20, replace_accepted |-> 21,
     replace_rejected |-> 22, protocol_error |-> 23]

Inbound == {"new_order", "cancel_order", "replace_order"}
Acknowledgement == {"order_accepted", "replace_accepted"}
Rejection == {"order_rejected", "cancel_rejected", "replace_rejected"}

Size(buffer) == Cardinality(DOMAIN buffer)
Slice(buffer, offset, size) == [i \in 0 .. size - 1 |-> buffer[offset + i]]

------------------------------------------------------------------------------
\* Layout

kSequenceOffset == 0
kOrderIdOffset == Word
kQuantityOffset == 2 * Word     \* kNewOrder..., kReplace..., kRemaining..., kCancelled...
kPriceOffset == 3 * Word        \* kNewOrder..., kReplace..., kExecution...
kNewOrderSideOffset == 4 * Word
kNewOrderTypeOffset == 4 * Word + 1
kNewOrderReserved == 4 * Word + 2 .. 5 * Word - 1
kExecutionIncomingIdOffset == 2 * Word
kExecutionQuantityOffset == 4 * Word
kRejectErrorCodeOffset == 2 * Word
kRejectReserved == 2 * Word + 2 .. 3 * Word - 1
kProtocolErrorCodeOffset == 0
kProtocolErrorTypeOffset == 2
kProtocolErrorReserved == 3 .. Word - 1

PayloadSize(type) ==
    CASE type \in {"new_order", "execution"} -> 5 * Word
      [] type = "replace_order" -> 4 * Word
      [] type = "cancel_order" -> 2 * Word
      [] type \in Acknowledgement \cup Rejection \cup {"cancel_accepted"} -> 3 * Word
      [] type = "protocol_error" -> Word

------------------------------------------------------------------------------
\* Integers of several bytes, least significant byte first

ReadUnsigned(in, offset, width) ==
    MapThenSumSet(LAMBDA i : in[offset + i] * Base ^ i, 0 .. width - 1)

ReadWord(in, offset) == ReadUnsigned(in, offset, Word)

\* read_i64_le: two's complement
ReadSigned(in, offset) ==
    LET v == ReadWord(in, offset) IN
    IF v < Base ^ Word \div 2 THEN v ELSE v - Base ^ Word

Field(offset, width, value) == [offset |-> offset, width |-> width, value |-> value]

\* The k-th byte of the buffer, where the field is written into it.
ByteOf(f, k) == (f.value \div Base ^ (k - f.offset)) % Base

\* A buffer with these fields written one after the other, zero elsewhere.
Write(size, fields) ==
    [k \in 0 .. size - 1 |->
        LET covering == {i \in DOMAIN fields :
                            k \in fields[i].offset .. fields[i].offset + fields[i].width - 1}
        IN  IF covering = {} THEN 0 ELSE ByteOf(fields[Max(covering)], k)]

------------------------------------------------------------------------------
\* Header

\* encode_header
EncodeHeader(h) ==
    Write(kHeaderSize, <<Field(0, 2, h.magic), Field(2, 1, h.version), Field(3, 1, h.type),
                         Field(4, 2, h.flags), Field(6, 2, h.payload_length)>>)

\* decode_header
DecodeHeader(in) ==
    [magic |-> ReadUnsigned(in, 0, 2), version |-> in[2], type |-> in[3],
     flags |-> ReadUnsigned(in, 4, 2), payload_length |-> ReadUnsigned(in, 6, 2)]

\* The outcome of the first check that fails, or the value.
Checked(checks, value) ==
    LET failing == {i \in DOMAIN checks : checks[i].fails} IN
    IF failing = {} THEN [error |-> "none", value |-> value]
    ELSE [error |-> checks[Min(failing)].error]

Check(fails, error) == [fails |-> fails, error |-> error]

TypesOf(code) == {t \in DOMAIN MessageType : MessageType[t] = code}

\* validate_header
ValidateHeader(h) ==
    Checked(<<Check(h.magic # kMagic, "malformed_frame"),
              Check(h.version # kVersion, "unsupported_version"),
              Check(h.payload_length > kMaxPayloadLength, "payload_too_large"),
              Check(h.flags \notin {0, 1}, "invalid_field"),
              Check(TypesOf(h.type) = {}, "unknown_message_type"),
              Check(\A t \in TypesOf(h.type) : h.payload_length # PayloadSize(t),
                    "payload_length_invalid")>>, h)

------------------------------------------------------------------------------
\* Commands

\* SequenceNumber, OrderId, Quantity and Price have no value for zero, nor
\* Price for a negative number.
Representable(v) == v > 0

NoPrice == 0

\* Fault: the type is written where the side is.
EncodeNewOrderTypeAtSide(o) ==
    Write(PayloadSize("new_order"),
          <<Field(kSequenceOffset, Word, o.sequence), Field(kOrderIdOffset, Word, o.order_id),
            Field(kQuantityOffset, Word, o.quantity), Field(kPriceOffset, Word, o.limit_price),
            Field(kNewOrderSideOffset, 1, IF o.type = "limit" THEN 0 ELSE 1)>>)

EncodeNewOrder(o) ==
    Write(PayloadSize("new_order"),
          <<Field(kSequenceOffset, Word, o.sequence), Field(kOrderIdOffset, Word, o.order_id),
            Field(kQuantityOffset, Word, o.quantity), Field(kPriceOffset, Word, o.limit_price),
            Field(kNewOrderSideOffset, 1, IF o.side = "buy" THEN 0 ELSE 1),
            Field(kNewOrderTypeOffset, 1, IF o.type = "limit" THEN 0 ELSE 1)>>)

\* Fault: reserved bytes are not looked at.
ReservedIgnored(in, reserved) == TRUE

ReservedClear(in, reserved) == \A k \in reserved : in[k] = 0

DecodeNewOrder(in) ==
    LET sequence == ReadWord(in, kSequenceOffset)
        id == ReadWord(in, kOrderIdOffset)
        quantity == ReadWord(in, kQuantityOffset)
        price == ReadSigned(in, kPriceOffset)
        side == in[kNewOrderSideOffset]
        type == in[kNewOrderTypeOffset]
    IN  Checked(<<Check(~ReservedClear(in, kNewOrderReserved), "invalid_field"),
                  Check(\/ \E v \in {sequence, id, quantity} : ~Representable(v)
                        \/ side > 1 \/ type > 1 \/ price < 0, "invalid_field"),
                  Check(type = 0 /\ price = 0, "limit_order_missing_price"),
                  Check(type # 0 /\ price # 0, "market_order_has_price")>>,
                [sequence |-> sequence, order_id |-> id, quantity |-> quantity,
                 side |-> IF side = 0 THEN "buy" ELSE "sell",
                 type |-> IF type = 0 THEN "limit" ELSE "market",
                 limit_price |-> price])

EncodeCancelOrder(o) ==
    Write(PayloadSize("cancel_order"),
          <<Field(kSequenceOffset, Word, o.sequence), Field(kOrderIdOffset, Word, o.order_id)>>)

DecodeCancelOrder(in) ==
    LET sequence == ReadWord(in, kSequenceOffset)
        id == ReadWord(in, kOrderIdOffset)
    IN  Checked(<<Check(\E v \in {sequence, id} : ~Representable(v), "invalid_field")>>,
                [sequence |-> sequence, order_id |-> id])

EncodeReplaceOrder(o) ==
    Write(PayloadSize("replace_order"),
          <<Field(kSequenceOffset, Word, o.sequence), Field(kOrderIdOffset, Word, o.order_id),
            Field(kQuantityOffset, Word, o.new_quantity), Field(kPriceOffset, Word, o.new_price)>>)

DecodeReplaceOrder(in) ==
    LET sequence == ReadWord(in, kSequenceOffset)
        id == ReadWord(in, kOrderIdOffset)
        quantity == ReadWord(in, kQuantityOffset)
        price == ReadSigned(in, kPriceOffset)
    IN  Checked(<<Check(\E v \in {sequence, id, quantity, price} : ~Representable(v),
                        "invalid_field")>>,
                [sequence |-> sequence, order_id |-> id, new_quantity |-> quantity,
                 new_price |-> price])

EncodeCommand(type, c) ==
    CASE type = "new_order" -> EncodeNewOrder(c)
      [] type = "cancel_order" -> EncodeCancelOrder(c)
      [] type = "replace_order" -> EncodeReplaceOrder(c)

\* The switch of TcpSession::do_read_payload and of decode_command.  Each
\* decoder first compares the length of the payload with the layout.
DecodeCommand(type, in) ==
    IF type \notin Inbound THEN [error |-> "unknown_message_type"]
    ELSE IF Size(in) # PayloadSize(type) THEN [error |-> "payload_length_invalid"]
    ELSE CASE type = "new_order" -> DecodeNewOrder(in)
           [] type = "cancel_order" -> DecodeCancelOrder(in)
           [] type = "replace_order" -> DecodeReplaceOrder(in)

------------------------------------------------------------------------------
\* Events

ErrorCode ==
    [malformed_frame |-> 1, unsupported_version |-> 2, unknown_message_type |-> 3,
     payload_length_invalid |-> 4, payload_too_large |-> 5, invalid_field |-> 6,
     limit_order_missing_price |-> 7, market_order_has_price |-> 8,
     invalid_order |-> 100, duplicate_order_id |-> 101, order_not_found |-> 102,
     session_overloaded |-> 200, sequence_out_of_order |-> 201]

\* encode_order_accepted, encode_order_rejected, encode_execution,
\* encode_cancel_accepted, encode_protocol_error
EncodeEvent(type, e) ==
    Write(PayloadSize(type),
          CASE type \in Acknowledgement ->
                  <<Field(kSequenceOffset, Word, e.sequence), Field(kOrderIdOffset, Word, e.order_id),
                    Field(kQuantityOffset, Word, e.remaining_quantity)>>
            [] type \in Rejection ->
                  <<Field(kSequenceOffset, Word, e.sequence), Field(kOrderIdOffset, Word, e.order_id),
                    Field(kRejectErrorCodeOffset, 2, e.error_code)>>
            [] type = "execution" ->
                  <<Field(kSequenceOffset, Word, e.sequence), Field(kOrderIdOffset, Word, e.resting_order_id),
                    Field(kExecutionIncomingIdOffset, Word, e.incoming_order_id),
                    Field(kPriceOffset, Word, e.price),
                    Field(kExecutionQuantityOffset, Word, e.quantity)>>
            [] type = "cancel_accepted" ->
                  <<Field(kSequenceOffset, Word, e.sequence), Field(kOrderIdOffset, Word, e.order_id),
                    Field(kQuantityOffset, Word, e.cancelled_quantity)>>
            [] type = "protocol_error" ->
                  <<Field(kProtocolErrorCodeOffset, 2, e.error_code),
                    Field(kProtocolErrorTypeOffset, 1, e.offending_type)>>)

DecodeAccepted(in) ==
    LET e == [sequence |-> ReadWord(in, kSequenceOffset), order_id |-> ReadWord(in, kOrderIdOffset),
              remaining_quantity |-> ReadWord(in, kQuantityOffset)]
    IN  Checked(<<Check(\E v \in {e.sequence, e.order_id} : ~Representable(v), "invalid_field")>>, e)

\* decode_order_rejected: identifier 0 becomes 1.
DecodeRejected(in) ==
    LET id == ReadWord(in, kOrderIdOffset)
        e == [sequence |-> ReadWord(in, kSequenceOffset), order_id |-> IF id = 0 THEN 1 ELSE id,
              error_code |-> ReadUnsigned(in, kRejectErrorCodeOffset, 2)]
    IN  Checked(<<Check(~ReservedClear(in, kRejectReserved), "invalid_field"),
                  Check(~Representable(e.sequence), "invalid_field")>>, e)

DecodeExecution(in) ==
    LET e == [sequence |-> ReadWord(in, kSequenceOffset),
              resting_order_id |-> ReadWord(in, kOrderIdOffset),
              incoming_order_id |-> ReadWord(in, kExecutionIncomingIdOffset),
              price |-> ReadSigned(in, kPriceOffset),
              quantity |-> ReadWord(in, kExecutionQuantityOffset)]
    IN  Checked(<<Check(\E f \in DOMAIN e : ~Representable(e[f]), "invalid_field")>>, e)

DecodeCancelAccepted(in) ==
    LET e == [sequence |-> ReadWord(in, kSequenceOffset), order_id |-> ReadWord(in, kOrderIdOffset),
              cancelled_quantity |-> ReadWord(in, kQuantityOffset)]
    IN  Checked(<<Check(\E f \in DOMAIN e : ~Representable(e[f]), "invalid_field")>>, e)

DecodeProtocolError(in) ==
    Checked(<<Check(~ReservedClear(in, kProtocolErrorReserved), "invalid_field")>>,
            [error_code |-> ReadUnsigned(in, kProtocolErrorCodeOffset, 2),
             offending_type |-> in[kProtocolErrorTypeOffset]])

\* decode_order_accepted and so on, by the type in the header
DecodeEvent(type, in) ==
    IF Size(in) # PayloadSize(type) THEN [error |-> "payload_length_invalid"]
    ELSE CASE type \in Acknowledgement -> DecodeAccepted(in)
           [] type \in Rejection -> DecodeRejected(in)
           [] type = "execution" -> DecodeExecution(in)
           [] type = "cancel_accepted" -> DecodeCancelAccepted(in)
           [] type = "protocol_error" -> DecodeProtocolError(in)

EncodeBody(type, body) ==
    IF type \in Inbound THEN EncodeCommand(type, body) ELSE EncodeEvent(type, body)

\* encode_frame: the header, then the payload.
EncodeFrame(type, flags, payload) ==
    LET header == EncodeHeader([magic |-> kMagic, version |-> kVersion, type |-> MessageType[type],
                                flags |-> flags, payload_length |-> Size(payload)])
    IN  [k \in 0 .. kHeaderSize + Size(payload) - 1 |->
            IF k < kHeaderSize THEN header[k] ELSE payload[k - kHeaderSize]]
==============================================================================
