---------------------------- MODULE MCByteFormats ----------------------------
(***************************************************************************)
(* The two uses of the codecs: a frame on the wire and the file of the      *)
(* event log.  They share no state, so a behaviour is about one of them.    *)
(*                                                                         *)
(* Bytes have five bits and fields four bytes.  Identifiers and quantities  *)
(* are the least and the largest of their range and one in between with a   *)
(* different value in each byte; prices the least and the largest.  A log   *)
(* has up to two records, with records of every size, and is cut at every   *)
(* length and altered in every byte.                                        *)
(***************************************************************************)
EXTENDS Protocol

CONSTANTS kRecordMagic, kFnvOffsetBasis, kFnvPrime, MaxRecords

VARIABLES sent, wire, altered, stage, header, outcome,             \* Wire
          written, file, damage, replay, position, replayed        \* LogFile

frameVars == <<sent, wire, altered, stage, header, outcome>>
logVars == <<written, file, damage, replay, position, replayed>>

Largest == Base ^ Word - 1
Mixed == 1 + 2 * Base + 3 * Base ^ 2 + 4 * Base ^ 3
Number == {1, Mixed, Largest}
Ticks == {1, Base ^ Word \div 2 - 1}

SmallCommand ==
    [t \in Inbound |->
       CASE t = "new_order" ->
               [sequence : {1, Mixed}, order_id : Number, quantity : Number,
                side : {"buy", "sell"}, type : {"limit"}, limit_price : Ticks]
               \cup [sequence : {1}, order_id : {1}, quantity : Number,
                     side : {"buy", "sell"}, type : {"market"}, limit_price : {NoPrice}]
         [] t = "cancel_order" -> [sequence : Number, order_id : Number]
         [] t = "replace_order" ->
               [sequence : {1, Mixed}, order_id : Number, new_quantity : Number,
                new_price : Ticks]]

SmallEvent ==
    [t \in DOMAIN MessageType \ Inbound |->
       CASE t \in Acknowledgement ->
               [sequence : Number, order_id : Number, remaining_quantity : {0, Mixed}]
         [] t \in Rejection ->
               [sequence : Number, order_id : Number,
                error_code : {ErrorCode[e] : e \in {"invalid_order", "order_not_found"}}]
         [] t = "execution" ->
               [sequence : {1, Mixed}, resting_order_id : {1, Mixed},
                incoming_order_id : {2, Largest}, price : Ticks, quantity : {1, Mixed}]
         [] t = "cancel_accepted" ->
               [sequence : {1, Mixed}, order_id : Number, cancelled_quantity : Number]
         [] t = "protocol_error" ->
               [error_code : {ErrorCode[e] : e \in DOMAIN ErrorCode},
                offending_type : {0, 1, 23}]]

SmallCaptured ==
    {[type |-> "new_order",
      body |-> [sequence |-> 1, order_id |-> 33, quantity |-> 2, side |-> "sell",
                type |-> "limit", limit_price |-> 5]],
     [type |-> "new_order",
      body |-> [sequence |-> 2, order_id |-> 3, quantity |-> Base ^ Word - 1, side |-> "buy",
                type |-> "market", limit_price |-> NoPrice]],
     [type |-> "cancel_order", body |-> [sequence |-> 3, order_id |-> 33]],
     [type |-> "replace_order",
      body |-> [sequence |-> 4, order_id |-> 33, new_quantity |-> 1, new_price |-> 64]]}

Frame == INSTANCE Wire
            WITH Command <- SmallCommand, Event <- SmallEvent,
                 Altered <- {0, 1, 2, Base \div 2, Base - 1}

Log == INSTANCE LogFile WITH Captured <- SmallCaptured, Altered <- {0, 1, Base - 1}

Init == Frame!Init /\ Log!Init

Next == \/ written = <<>> /\ replay = "no" /\ Frame!Next /\ UNCHANGED logVars
        \/ stage = "idle" /\ Log!Next /\ UNCHANGED frameVars

Spec == Init /\ [][Next]_<<frameVars, logVars>>

------------------------------------------------------------------------------
\* Properties

\* A message is decoded to what was encoded, see Wire.
RoundTrip == Frame!RoundTrip

\* Frames that are accepted are canonical and hold valid commands, see Wire.
CommandsValid == Frame!CommandsValid

\* Replay of any file hands out a prefix of what was written, see LogFile.
ReplaysPrefix == Log!ReplaysPrefix

\* Replay succeeds only on an undamaged file or whole records, see LogFile.
SuccessVouches == Log!SuccessVouches

\* Replay of a file that was cut does not succeed, see LogFile.
TruncationReported == Log!TruncationReported
==============================================================================
