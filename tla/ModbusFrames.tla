---------------------------- MODULE ModbusFrames ----------------------------
(***************************************************************************)
(* The frames of system/rs485.c, byte by byte: the requests that a master  *)
(* builds, the answers of the slave and the check of a reply, over a bus   *)
(* that cuts frames short and damages bytes.  On the bus are a master and  *)
(* a slave of this firmware, another master and other devices; those two   *)
(* follow the standard.  The buffers keep what they held before.           *)
(***************************************************************************)
EXTENDS Crc16, Integers

CONSTANTS
  Asks,          \* what the caller of master_send_req may ask for
  OtherAsks,     \* what the other master asks of the slave
  NoisyAsks,     \* those of both whose frames noise may reach
  SlaveAddress,  \* slave_rs485_rtu.slave_address
  Banks,         \* contents of rs485_slave_holding_register_memory_area, eight words
  Places,        \* noise cuts a frame to so many bytes, or hits the byte after
  Damages,       \* what noise adds to a byte
  MaxFaults,     \* bound: frames that noise reaches
  MaxExchanges   \* bound: requests, in a behaviour

READ_COILS == 1
READ_DISCRETE_INPUTS == 2
READ_HOLDING_REGISTERS == 3
READ_INPUT_REGISTERS == 4
WRITE_SINGLE_COIL == 5
WRITE_SINGLE_REGISTER == 6
WRITE_MULTIPLE_COILS == 15
WRITE_MULTIPLE_REGISTERS == 16
READ_OR_WRITE_MULTIPLE_REGISTERS == 23

ReadsBits == {READ_COILS, READ_DISCRETE_INPUTS}
ReadsWords == {READ_HOLDING_REGISTERS, READ_INPUT_REGISTERS}
WritesOne == {WRITE_SINGLE_COIL, WRITE_SINGLE_REGISTER}
WritesMany == {WRITE_MULTIPLE_COILS, WRITE_MULTIPLE_REGISTERS}
Functions == ReadsBits \cup ReadsWords \cup WritesOne \cup WritesMany
             \cup {READ_OR_WRITE_MULTIPLE_REGISTERS}

AskType == [address : Byte, function : 0 .. 127, memory : Uint16, n : Uint16,
            wmemory : Uint16, nwrite : Uint16, by : {"master", "other"}]

ASSUME MastersAssumption == /\ Asks \cup OtherAsks \subseteq AskType
                            /\ Asks \cap OtherAsks = {}
                            /\ NoisyAsks \subseteq Asks \cup OtherAsks
ASSUME SlaveAssumption == /\ SlaveAddress \in 1 .. 247
                          /\ Banks \subseteq [1 .. 8 -> Uint16]
ASSUME NoiseAssumption == Places \subseteq Nat /\ Damages \subseteq Nat

VARIABLES
  phase,                \* of the exchange on the bus
  asked,                \* the request of this exchange
  bank,                 \* rs485_slave_holding_register_memory_area
  request,              \* the frame of the request, <<>> when it was refused
  modbus_slave_buffer,  \* its first eight bytes, all that the slave reads
  reply,                \* the frame of the reply, <<>> when nobody answers
  modbus_master_buffer, \* all of it that was ever written
  result,               \* what master_check_receive returns and hands over
  wholeRequest, wholeReply,  \* this frame came as it was sent
  earlier,              \* what was asked before: requests, and the replies sent
  faults, exchanges

vars == <<phase, asked, bank, request, modbus_slave_buffer, reply, modbus_master_buffer,
          result, wholeRequest, wholeReply, earlier, faults, exchanges>>

-----------------------------------------------------------------------------
BE(x) == <<x \div 256, x % 256>>
Word(bytes, i) == 256 * bytes[i] + bytes[i + 1]
Words(bytes) == [k \in 1 .. Len(bytes) \div 2 |-> Word(bytes, 2 * k - 1)]
BytesOf(words) == [i \in 1 .. 2 * Len(words) |->
                     BE(words[(i + 1) \div 2])[IF i % 2 = 1 THEN 1 ELSE 2]]
First(n, s) == SubSeq(s, 1, n)
Over(buffer, frame) ==
  [i \in 1 .. (IF Len(buffer) > Len(frame) THEN Len(buffer) ELSE Len(frame)) |->
     IF i <= Len(frame) THEN frame[i] ELSE buffer[i]]
BytesFor(bits) == (bits + 7) \div 8

\* A frame ends in its CRC, low byte first.
WithCrc(bytes) == LET crc == crc16(bytes) IN bytes \o <<crc % 256, crc \div 256>>
CrcOfLongEnough(bytes, n) == Len(bytes) >= n + 2

CrcOf(bytes, n) == Len(bytes) >= n + 2 /\ WithCrc(First(n, bytes)) = First(n + 2, bytes)

\* What the caller of a write hands over, as bytes of the frame.
WriteBytes(a) == IF a.function = WRITE_MULTIPLE_COILS
                 THEN [i \in 1 .. BytesFor(a.n) |-> (16 + i) % 256]
                 ELSE BytesOf([i \in 1 .. (IF a.function = WRITE_MULTIPLE_REGISTERS
                                           THEN a.n ELSE a.nwrite) |->
                                 (4096 * i + 7) % 65536])

\* One byte of a frame says how many bytes are written.
ASSUME FrameAssumption ==
  \A a \in OtherAsks : a.function \in WritesMany \cup {READ_OR_WRITE_MULTIPLE_REGISTERS} =>
                        Len(WriteBytes(a)) < 256

-----------------------------------------------------------------------------
(***************************************************************************)
(* master_prepare_to_send.                                                 *)
(***************************************************************************)
Refused(a) ==
  \/ a.address > 247
  \/ a.function \notin Functions
  \/ a.function \in ReadsWords /\ a.n \notin 1 .. 125
  \/ a.function \in ReadsBits /\ a.n \notin 1 .. 2000
  \/ a.function = WRITE_SINGLE_COIL /\ a.n \notin {0, \hFF00}
  \/ a.function = WRITE_MULTIPLE_COILS /\ a.n \notin 1 .. 1968
  \/ a.function = WRITE_MULTIPLE_REGISTERS /\ a.n \notin 1 .. 123
  \/ a.function = READ_OR_WRITE_MULTIPLE_REGISTERS
     /\ (a.n \notin 1 .. 123 \/ a.nwrite \notin 1 .. 121)

Fields(a, n) == <<a.address, a.function>> \o BE(a.memory) \o BE(n)

\* The CRC of the frames that carry data begins two bytes before their end.
WriteFrame(head, bytes) ==
  LET frame == head \o <<Len(bytes)>> \o bytes IN WithCrc(First(Len(frame) - 2, frame))

PreparedLittleEndian(a) == WithCrc(<<a.address, a.function>> \o BE(a.memory) \o
                                   <<a.n % 256, a.n \div 256>>)

Prepared(a) ==
  CASE a.function \in ReadsWords \cup WritesOne -> WithCrc(Fields(a, a.n))
    [] a.function \in ReadsBits -> WithCrc(Fields(a, BytesFor(a.n)))
    [] a.function \in WritesMany -> WriteFrame(Fields(a, a.n), WriteBytes(a))
    [] OTHER -> WriteFrame(Fields(a, a.n) \o BE(a.wmemory) \o BE(a.nwrite), WriteBytes(a))

(***************************************************************************)
(* slave_send_resp on the buffer b: the answer, or nothing.                *)
(***************************************************************************)
Exception(b, code) == WithCrc(<<b[1], (128 + b[2]) % 256, code>>)

SlaveAnswer(b) ==
  IF b[1] # SlaveAddress \/ ~ CrcOf(b, 6) THEN <<>>
  ELSE IF b[2] # READ_HOLDING_REGISTERS THEN Exception(b, 1)
  ELSE IF Word(b, 5) \notin 1 .. 125 THEN Exception(b, 3)
  ELSE IF Word(b, 3) < \h4000 \/ Word(b, 3) + Word(b, 5) > \h4008 THEN Exception(b, 2)
  ELSE LET start == Word(b, 3) - \h4000
       IN WithCrc(<<b[1], b[2], 2 * Word(b, 5)>> \o
                  BytesOf(SubSeq(bank, start + 1, start + Word(b, 5))))

(***************************************************************************)
(* master_check_receive on the buffer b, for the request a.                *)
(***************************************************************************)
Rejects == [status |-> "error", data |-> <<>>]
Accepts(status, data) == [status |-> status, data |-> data]

CheckedException(b) == IF CrcOf(b, 3) /\ b[3] \in 1 .. 4
                       THEN Accepts("exception", <<b[2], b[3]>>) ELSE Rejects

CheckedWrite(b, a) == IF Word(b, 3) = a.memory /\ Word(b, 5) = a.n /\ CrcOf(b, 6)
                      THEN Accepts("success", <<a.n>>) ELSE Rejects

CheckedBits(b) == IF b[3] \in 1 .. 251 /\ CrcOf(b, 3 + b[3])
                  THEN Accepts("success", SubSeq(b, 4, 3 + b[3])) ELSE Rejects

CheckedWords(b) == IF b[3] \in 2 .. 250 /\ CrcOf(b, 3 + b[3])
                   THEN Accepts("success", Words(SubSeq(b, 4, 3 + b[3]))) ELSE Rejects

Checked(b, a) ==
  CASE First(4, b) = <<0, 0, 0, 0>> \/ b[1] # a.address -> Rejects
    [] OTHER ->
       CASE b[2] = a.function + 128 -> CheckedException(b)
         [] b[2] \notin {a.function, a.function + 128} -> Rejects
         [] b[2] = a.function /\ a.function \in WritesOne \cup WritesMany -> CheckedWrite(b, a)
         [] b[2] = a.function /\ a.function \in ReadsBits -> CheckedBits(b)
         [] OTHER -> CheckedWords(b)

-----------------------------------------------------------------------------
(***************************************************************************)
(* The standard, for the other master and the devices on the bus.          *)
(***************************************************************************)
StandardCrc(bytes) ==
  LET crc == PolynomialCrc(bytes) IN bytes \o <<crc % 256, crc \div 256>>

StandardRequest(a) ==
  LET data == IF a.function \in WritesMany \cup {READ_OR_WRITE_MULTIPLE_REGISTERS}
              THEN <<Len(WriteBytes(a))>> \o WriteBytes(a) ELSE <<>>
      write == IF a.function = READ_OR_WRITE_MULTIPLE_REGISTERS
               THEN BE(a.wmemory) \o BE(a.nwrite) ELSE <<>>
  IN StandardCrc(<<a.address, a.function>> \o BE(a.memory) \o BE(a.n) \o write \o data)

StandardRead(a, bytes) == StandardCrc(<<a.address, a.function, Len(bytes)>> \o bytes)
StandardException(a, code) == StandardCrc(<<a.address, 128 + a.function, code>>)

\* A device whose registers repeat those of bank, and whose bits are all set.
DeviceReply(a) ==
  CASE a.function \in WritesOne \cup WritesMany ->
         StandardCrc(<<a.address, a.function>> \o BE(a.memory) \o BE(a.n))
    [] a.function \in ReadsBits -> StandardRead(a, [i \in 1 .. BytesFor(a.n) |-> 255])
    [] OTHER -> StandardRead(a, BytesOf([i \in 1 .. a.n |-> bank[((i - 1) % 8) + 1]]))

\* What the standard wants of a slave with eight holding registers from \h4000.
SlaveStandard(a) ==
  IF a.function # READ_HOLDING_REGISTERS THEN StandardException(a, 1)
  ELSE IF a.n \notin 1 .. 125 THEN StandardException(a, 3)
  ELSE IF ~ (a.memory >= \h4000 /\ a.memory + a.n <= \h4008) THEN StandardException(a, 2)
  ELSE StandardRead(a, BytesOf(SubSeq(bank, a.memory - \h4000 + 1,
                                       a.memory - \h4000 + a.n)))

-----------------------------------------------------------------------------
NoRequest == [function |-> 0]

Init == /\ phase = "idle" /\ asked = NoRequest /\ bank \in Banks
        /\ request = <<>> /\ reply = <<>> /\ result = Rejects
        /\ modbus_slave_buffer = [i \in 1 .. 8 |-> 0] /\ modbus_master_buffer = <<>>
        /\ wholeRequest = TRUE /\ wholeReply = TRUE
        /\ earlier = [requests |-> {}, replies |-> {}]
        /\ faults = 0 /\ exchanges = 0

\* What a frame looks like to who hears it.
Heard(frame) ==
  {First(k, frame) : k \in {p \in Places : p < Len(frame)}} \cup
  {[frame EXCEPT ![k + 1] = (@ + d) % 256] :
     k \in {p \in Places : p < Len(frame)}, d \in Damages}

\* The noise on the way of frame: heard is what arrives.
Noise(frame, heard) ==
  \/ heard = frame /\ faults' = faults
  \/ asked \in NoisyAsks /\ faults < MaxFaults /\ heard \in Heard(frame)
     /\ faults' = faults + 1

\* master_send_req, whose frame goes through modbus_master_buffer.
MasterSends(a) ==
  /\ phase = "idle" /\ exchanges < MaxExchanges
  /\ exchanges' = exchanges + 1
  /\ asked' = a /\ phase' = "sent" /\ bank' \in Banks
  /\ request' = IF Refused(a) THEN <<>> ELSE Prepared(a)
  /\ modbus_master_buffer' = Over(modbus_master_buffer, request')
  /\ UNCHANGED <<modbus_slave_buffer, reply, result, wholeRequest, wholeReply, earlier, faults>>

\* The other master sends whatever it likes.
OtherSends(a) ==
  /\ phase = "idle" /\ exchanges < MaxExchanges
  /\ exchanges' = exchanges + 1
  /\ asked' = a /\ phase' = "sent" /\ bank' \in Banks
  /\ request' = StandardRequest(a)
  /\ UNCHANGED <<modbus_slave_buffer, reply, modbus_master_buffer, result, wholeRequest,
                 wholeReply, earlier, faults>>

\* Every frame on the bus reaches modbus_slave_buffer.  The idle line ends it
\* for the slave, if any byte of it came.
SlaveHears ==
  /\ phase = "sent" /\ request # <<>>
  /\ \E heard \in {request} \cup Heard(request) :
        /\ Noise(request, heard)
        /\ modbus_slave_buffer' = First(8, Over(modbus_slave_buffer, heard))
        /\ wholeRequest' = (heard = request)
        /\ phase' = IF heard = <<>> THEN "answered" ELSE "heard"
  /\ UNCHANGED <<asked, bank, request, reply, modbus_master_buffer, result, wholeReply,
                 earlier, exchanges>>

SlaveSendResp ==
  /\ phase = "heard"
  /\ reply' = SlaveAnswer(modbus_slave_buffer)
  /\ modbus_slave_buffer' = First(8, Over(modbus_slave_buffer, reply'))
  /\ phase' = "answered"
  /\ UNCHANGED <<asked, bank, request, modbus_master_buffer, result, wholeRequest, wholeReply,
                 earlier, faults, exchanges>>

\* A device, whose address the slave does not have, answers or does not.  Its
\* reply reaches the slave, too; noise on the way there is left out.
DeviceAnswers ==
  /\ phase = "answered" /\ reply = <<>>
  /\ asked \in Asks /\ asked.address # SlaveAddress
  /\ reply' \in {DeviceReply(asked)} \cup {StandardException(asked, c) : c \in 1 .. 4}
  /\ modbus_slave_buffer' = First(8, Over(modbus_slave_buffer, reply'))
  /\ phase' = "device"
  /\ UNCHANGED <<asked, bank, request, modbus_master_buffer, result, wholeRequest, wholeReply,
                 earlier, faults, exchanges>>

\* TIM2 clears the first four bytes of the buffer, DMA1 channel 5 fills it
\* and the master checks what it finds.
MasterReceives ==
  /\ phase \in {"answered", "device"} /\ asked \in Asks /\ reply # <<>>
  /\ earlier' = [earlier EXCEPT !.replies = @ \cup {[to |-> asked, frame |-> reply]}]
  /\ \E heard \in {reply} \cup Heard(reply) :
        /\ Noise(reply, heard)
        /\ wholeReply' = (heard = reply)
        /\ heard # <<>>
        /\ modbus_master_buffer' = Over(Over(modbus_master_buffer, <<0, 0, 0, 0>>), heard)
        /\ result' = Checked(modbus_master_buffer', asked)
  /\ phase' = "checked"
  /\ UNCHANGED <<asked, bank, request, modbus_slave_buffer, reply, wholeRequest, exchanges>>

\* The request was refused, or served, or nothing came within the timeout.
Ends ==
  /\ \/ phase = "sent" /\ request = <<>>
     \/ phase \in {"answered", "device", "checked"}
  /\ phase' = "idle"
  /\ earlier' = [earlier EXCEPT !.requests = @ \cup {asked}]
  /\ request' = <<>> /\ reply' = <<>> /\ result' = Rejects
  /\ wholeRequest' = TRUE /\ wholeReply' = TRUE
  /\ asked' = NoRequest
  /\ UNCHANGED <<bank, modbus_slave_buffer, modbus_master_buffer, faults, exchanges>>

Next == \/ \E a \in Asks : MasterSends(a)
        \/ \E a \in OtherAsks : OtherSends(a)
        \/ SlaveHears \/ SlaveSendResp \/ DeviceAnswers \/ MasterReceives \/ Ends

Spec == Init /\ [][Next]_vars

-----------------------------------------------------------------------------
StandardAllows(a) ==
  /\ a.address \in 0 .. 247
  /\ \/ a.function \in ReadsWords /\ a.n \in 1 .. 125
     \/ a.function \in ReadsBits /\ a.n \in 1 .. 2000
     \/ a.function = WRITE_SINGLE_COIL /\ a.n \in {0, \hFF00}
     \/ a.function = WRITE_SINGLE_REGISTER
     \/ a.function = WRITE_MULTIPLE_COILS /\ a.n \in 1 .. 1968
     \/ a.function = WRITE_MULTIPLE_REGISTERS /\ a.n \in 1 .. 123
     \/ a.function = READ_OR_WRITE_MULTIPLE_REGISTERS /\ a.n \in 1 .. 125
        /\ a.nwrite \in 1 .. 121

(***************************************************************************)
(* What master_send_req refuses is what the standard does not allow, and   *)
(* what it sends is the frame of the standard, byte by byte.  The code     *)
(* departs from the standard in these cases and no others: it reads and    *)
(* writes at most 123 registers at once; it asks for the bytes that the    *)
(* bits fill in place of the bits (rs485.c:216); and it sends two bytes    *)
(* of data too few with each write of several values (rs485.c:127, 165).   *)
(***************************************************************************)
TooFewAllowed(a) == a.function = READ_OR_WRITE_MULTIPLE_REGISTERS /\ a.n \in 124 .. 125
CountsBytes(a) == a.function \in ReadsBits /\ a.n # 1
CutsData(a) == a.function \in WritesMany \cup {READ_OR_WRITE_MULTIPLE_REGISTERS}
RequestsStandard ==
  phase = "sent" /\ asked \in Asks =>
    /\ request = <<>> <=> ~ StandardAllows(asked) \/ TooFewAllowed(asked)
    /\ request # <<>> =>
         (request = StandardRequest(asked) <=> ~ (CountsBytes(asked) \/ CutsData(asked)))

(***************************************************************************)
(* The slave answers each request of eight bytes that reaches it whole     *)
(* with the answer of the standard, and no other master's slave.  Noise    *)
(* never makes it answer what nobody asked; but a frame that was cut short *)
(* is checked together with what the buffer held (rs485.c:725), so it may  *)
(* answer an earlier request, that noise had damaged, in its place.        *)
(***************************************************************************)
Addressed(a) == a.address = SlaveAddress

\* No longer request to the slave has by chance, in its seventh and eighth
\* byte, the CRC of those before.
ByChance(frame) == Len(frame) > 8 /\ WithCrc(First(6, frame)) = First(8, frame)
NothingByChance ==
  /\ \A a \in Asks : Addressed(a) /\ ~ Refused(a) => ~ ByChance(Prepared(a))
  /\ \A a \in OtherAsks : Addressed(a) => ~ ByChance(StandardRequest(a))

WholeAnswered ==
  phase = "answered" /\ wholeRequest =>
    reply = IF Addressed(asked) /\ Len(request) = 8 THEN SlaveStandard(asked) ELSE <<>>
OnlyAskedAnswered ==
  phase = "answered" /\ reply # <<>> =>
    \E a \in {asked} \cup earlier.requests : Addressed(a) /\ reply = SlaveStandard(a)
SlaveAnswersRequests == WholeAnswered /\ OnlyAskedAnswered

(***************************************************************************)
(* Data that the master hands to a driver is what an answer carried.  An   *)
(* answer that arrives whole is taken, and no damaged byte ever is; but an *)
(* answer that was cut short is checked together with what the buffer held *)
(* (hal_uart.c:143 clears four bytes of it), so that what a driver gets    *)
(* may be an older answer to a request of the same function.               *)
(***************************************************************************)
Content(r) ==
  IF r.frame[2] > 128 THEN Accepts("exception", SubSeq(r.frame, 2, 3))
  ELSE Accepts("success",
         IF r.to.function \in WritesOne \cup WritesMany THEN <<Word(r.frame, 5)>>
         ELSE LET data == SubSeq(r.frame, 4, Len(r.frame) - 2)
              IN IF r.to.function \in ReadsBits THEN data ELSE Words(data))
WholeTaken ==
  phase = "checked" /\ wholeReply /\ wholeRequest =>
    result = Content([to |-> asked, frame |-> reply])
OnlySentTaken ==
  phase = "checked" /\ result # Rejects =>
    \E r \in earlier.replies : /\ result = Content(r)
                               /\ wholeReply => r.frame = reply
                               /\ r.frame[1] = asked.address
                               /\ r.frame[2] % 128 = asked.function
RepliesExact == WholeTaken /\ OnlySentTaken
=============================================================================
