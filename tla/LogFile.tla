------------------------------- MODULE LogFile -------------------------------
(***************************************************************************)
(* The file of the event log, byte by byte: EventLogWriter::append writes   *)
(* records, afterwards the file may lose its end or have one byte changed,  *)
(* and replay_event_log reads it record by record.  That the book accepts   *)
(* the commands again is the subject of EventLog; here a replayed command   *)
(* is one handed to the book.                                               *)
(***************************************************************************)
EXTENDS Protocol, Bitwise, SequencesExt

CONSTANTS kRecordMagic,      \* 0x474C584C
          kFnvOffsetBasis,   \* 14695981039346656037
          kFnvPrime,         \* 1099511628211, an odd number
          Captured,          \* commands with their message type
          Altered,           \* the values a byte may be changed to
          MaxRecords         \* bound on the number of records

VARIABLES written,    \* the commands appended
          file,       \* the bytes of the file
          damage,     \* "none", "cut" or "altered"
          replay,     \* "no", "reading", "succeeded" or an error
          position,   \* read position of the replay
          replayed    \* the commands handed to the book

vars == <<written, file, damage, replay, position, replayed>>

kRecordVersion == 1
kRecordHeaderSize == 8 + Word
kRecordPayloadMax == PayloadSize("new_order")

XorByte == [a, b \in 0 .. Base - 1 |-> a ^^ b]

\* One step of FNV-1a: the xor changes the last byte of the hash only.
Mix(hash, byte) ==
    ((hash - (hash % Base) + XorByte[hash % Base, byte]) * kFnvPrime) % (Base ^ Word)

\* FNV-1a of a buffer.  Each hash is bound, to be computed once.
Fnv(basis, bytes) ==
    LET hash[n \in 0 .. Size(bytes)] ==
           IF n = 0 THEN basis
           ELSE CHOOSE next \in {Mix(h, bytes[n - 1]) : h \in {hash[n - 1]}} : TRUE
    IN  hash[Size(bytes)]

HeaderHash(type, size) ==
    Fnv(kFnvOffsetBasis, Write(4, <<Field(0, 1, kRecordVersion), Field(1, 1, type),
                                    Field(2, 2, size)>>))

\* Version, type, length and payload are covered.
Checksum(type, payload) == Fnv(HeaderHash(type, Size(payload)), payload)

Concat(a, b) == [k \in 0 .. Size(a) + Size(b) - 1 |->
                    IF k < Size(a) THEN a[k] ELSE b[k - Size(a)]]

\* The bytes of the record of command c.
Record(c) ==
    LET type == MessageType[c.type]
        payload == EncodeCommand(c.type, c.body)
        header == Write(kRecordHeaderSize,
                        <<Field(0, 4, kRecordMagic), Field(4, 1, kRecordVersion),
                          Field(5, 1, type), Field(6, 2, Size(payload)),
                          Field(8, Word, Checksum(type, payload))>>)
    IN  Concat(header, payload)

Init == /\ written = <<>> /\ file = Write(0, <<>>) /\ damage = "none"
        /\ replay = "no" /\ position = 0 /\ replayed = <<>>

\* EventLogWriter::append
AppendRecord(c) ==
    /\ replay = "no" /\ damage = "none" /\ Len(written) < MaxRecords
    /\ written' = Append(written, c)
    /\ file' = Concat(file, Record(c))
    /\ UNCHANGED <<damage, replay, position, replayed>>

\* The process ended before the whole file was written.
Cut(size) ==
    /\ replay = "no" /\ damage = "none" /\ size < Size(file)
    /\ damage' = "cut"
    /\ file' = Slice(file, 0, size)
    /\ UNCHANGED <<written, replay, position, replayed>>

\* A byte was changed on the medium.
Alter(k, v) ==
    /\ replay = "no" /\ damage = "none" /\ file[k] # v
    /\ damage' = "altered"
    /\ file' = [file EXCEPT ![k] = v]
    /\ UNCHANGED <<written, replay, position, replayed>>

StartReplay == /\ replay = "no" /\ replay' = "reading"
               /\ UNCHANGED <<written, file, damage, position, replayed>>

------------------------------------------------------------------------------
\* read_record

Remaining == Size(file) - position

\* Fault: a header cut short is taken for the end.
AtEndEarly == Remaining < kRecordHeaderSize

AtEnd == Remaining = 0

\* Fault: the stored checksum is not compared.
ChecksumIgnored(type, payload, stored) == TRUE

ChecksumMatches(type, payload, stored) == Checksum(type, payload) = stored

WellFormed(h) ==
    /\ ReadUnsigned(h, 0, 4) = kRecordMagic /\ h[4] = kRecordVersion
    /\ TypesOf(h[5]) # {} /\ TypesOf(h[5]) \subseteq Inbound
    /\ \A t \in TypesOf(h[5]) : ReadUnsigned(h, 6, 2) = PayloadSize(t)
    /\ ReadUnsigned(h, 6, 2) <= kRecordPayloadMax

Fail(error) == replay' = error /\ UNCHANGED <<position, replayed>>

\* The body of the record whose header h is well formed.
ReadBody(h) ==
    LET size == ReadUnsigned(h, 6, 2) IN
    IF Remaining < kRecordHeaderSize + size THEN Fail("truncated_payload")
    ELSE LET payload == Slice(file, position + kRecordHeaderSize, size)
             type == CHOOSE t \in TypesOf(h[5]) : TRUE
             command == DecodeCommand(type, payload)
         IN  IF ~ChecksumMatches(h[5], payload, ReadWord(h, 8)) THEN Fail("checksum_mismatch")
             ELSE IF command.error # "none" THEN Fail("invalid_command")
             ELSE /\ replayed' = Append(replayed, [type |-> type, body |-> command.value])
                  /\ position' = position + kRecordHeaderSize + size
                  /\ UNCHANGED replay

\* One turn of the loop of replay_event_log.
ReadRecord ==
    /\ replay = "reading"
    /\ IF AtEnd THEN replay' = "succeeded" /\ UNCHANGED <<position, replayed>>
       ELSE IF Remaining < kRecordHeaderSize THEN Fail("truncated_header")
       ELSE LET h == Slice(file, position, kRecordHeaderSize)
            IN  IF WellFormed(h) THEN ReadBody(h) ELSE Fail("malformed_header")
    /\ UNCHANGED <<written, file, damage>>

Replayed == replay \notin {"no", "reading"} /\ UNCHANGED vars

Next == \/ \E c \in Captured : AppendRecord(c)
        \/ \E size \in 0 .. Size(file) - 1 : Cut(size)
        \/ \E k \in DOMAIN file, v \in Altered : Alter(k, v)
        \/ StartReplay \/ ReadRecord \/ Replayed

Spec == Init /\ [][Next]_vars

------------------------------------------------------------------------------
\* Properties

\* Whatever happened to the file, replay hands the book only commands that
\* were written, in their order and without a gap.
ReplaysPrefix == IsPrefix(replayed, written)

\* Success vouches for the file: it consists of whole records, all of them were
\* replayed, and no byte of it was changed.  The FNV step is injective in the
\* byte and in the hash so far, and what it does not cover is compared.  It does
\* not vouch for the length: a file cut between two records passes for whole.
SuccessVouches ==
    replay = "succeeded" =>
       /\ Size(file) = MapThenSumSet(LAMBDA i : kRecordHeaderSize + PayloadSize(replayed[i].type),
                                     DOMAIN replayed)
       /\ damage # "altered"
       /\ damage = "none" => replayed = written

\* "It fails with a specific error for a ... truncated ... log": the replay of a
\* file that was cut does not succeed, wherever it was cut.
TruncationReported == damage = "cut" => replay # "succeeded"
==============================================================================
