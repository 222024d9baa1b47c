--------------------------- MODULE MCModbusFrames ---------------------------
(***************************************************************************)
(* Requests of every function at the borders of what is allowed, and short *)
(* ones whose frames noise reaches.                                        *)
(***************************************************************************)
EXTENDS ModbusFrames

Device == 10
MCSlaveAddress == 1

Ask(address, function, memory, n) ==
  [address |-> address, function |-> function, memory |-> memory, n |-> n,
   wmemory |-> 258, nwrite |-> 0, by |-> "master"]
Write(a, n) == [a EXCEPT !.nwrite = n]
Other(a) == [a EXCEPT !.by = "other"]

MCBanks == {<<1, 2, 3, 4, 5, 6, 7, 65535>>, <<1, 2, 3, 4, 5, 6, 7, 8>>}

\* The borders of each quantity and address.
Borders ==
  {Ask(Device, f, 258, n) : f \in ReadsWords, n \in {0, 1, 8, 126}} \cup
  {Ask(Device, f, 258, n) : f \in ReadsBits, n \in {0, 1, 8, 9, 2001}} \cup
  {Ask(Device, WRITE_SINGLE_COIL, 258, n) : n \in {0, 1, 65280}} \cup
  {Ask(Device, WRITE_SINGLE_REGISTER, 0, n) : n \in {0, 65535}} \cup
  {Ask(Device, WRITE_MULTIPLE_COILS, 258, n) : n \in {0, 1, 8, 9, 1969}} \cup
  {Ask(Device, WRITE_MULTIPLE_REGISTERS, 258, n) : n \in {0, 1, 2, 124}} \cup
  {Write(Ask(Device, READ_OR_WRITE_MULTIPLE_REGISTERS, 258, n), w) :
     n \in {1, 2}, w \in {0, 1, 2, 122}} \cup
  {Write(Ask(Device, READ_OR_WRITE_MULTIPLE_REGISTERS, 258, n), 1) : n \in {0, 124, 126}} \cup
  {Ask(Device, 7, 0, 1), Ask(248, READ_HOLDING_REGISTERS, 0, 1),
   Ask(MCSlaveAddress, READ_HOLDING_REGISTERS, 16384, 125)}

NoisyMaster == {Ask(Device, READ_INPUT_REGISTERS, 258, 8),
                Ask(Device, WRITE_SINGLE_COIL, 258, 65280),
                Ask(MCSlaveAddress, READ_HOLDING_REGISTERS, 16384, 8)}
NoisyOther == {Other(Ask(MCSlaveAddress, READ_HOLDING_REGISTERS, 16384, 2)),
               Other(Ask(MCSlaveAddress, READ_HOLDING_REGISTERS, 16391, 1))}

MCAsks == Borders \cup NoisyMaster
MCOtherAsks ==
  NoisyOther \cup
  {Other(Ask(MCSlaveAddress, READ_HOLDING_REGISTERS, m, n)) :
     m \in {16383, 16384, 16391, 16392}, n \in {0, 1, 2, 8, 9, 126}} \cup
  {Other(Ask(MCSlaveAddress, READ_INPUT_REGISTERS, 16384, 1)),
   Other(Ask(MCSlaveAddress, WRITE_MULTIPLE_REGISTERS, 16384, 2)),
   Other(Ask(2, READ_HOLDING_REGISTERS, 16384, 1))}
MCNoisyAsks == NoisyMaster \cup NoisyOther

\* What the theorems about exchanges suppose.
ASSUME ChanceAssumption == NothingByChance
=============================================================================
