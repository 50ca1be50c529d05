-------------------------- MODULE Dw1000Registers --------------------------
(***************************************************************************)
(* Access to the registers of the DW1000: the driver's functions compose a *)
(* header of one to three bytes and a body, the port shifts them over the  *)
(* SPI bus with interrupts locked, and the chip decodes them byte by byte. *)
(*                                                                         *)
(* The callers are a thread and the interrupt routine, or two threads:     *)
(* where a transfer suspends its thread the bus itself is locked.          *)
(***************************************************************************)
EXTENDS Integers, Sequences

CONSTANTS
  Callers,
  Files,         \* register files
  Addresses,     \* bytes of a file
  Requests       \* op, file, index, n and, for a write, value

\* Six bits of the header name a file, at most fifteen an index in it.
FileNumbers == 0..63
Indices == 0..32767

RegistersAssumption ==
  /\ Files \subseteq FileNumbers
  /\ Addresses \subseteq Indices
  /\ \A req \in Requests:
        /\ req.op \in {"write", "read"} /\ req.file \in Files /\ req.index \in Addresses
        /\ req.n \in {1, 2, 4}
        /\ req.index..req.index + req.n - 1 \subseteq Addresses
        /\ req.op = "write" => req.value \in Nat

VARIABLES
  mem,       \* the chip's registers
  chip,      \* how far the chip has decoded the transfer
  locked,    \* decamutexon
  calls      \* of each caller

vars == <<mem, chip, locked, calls>>

-----------------------------------------------------------------------------
\* Bytes of a value, least significant first, and the value of bytes.
Weight == <<1, 256, 65536, 16777216>>

BytesOf(value, n) == [j \in 1..n |-> (value \div Weight[j]) % 256]

ValueOf(bytes) ==
    LET from[j \in 1..Len(bytes) + 1] ==
          IF j > Len(bytes) THEN 0 ELSE from[j + 1] * 256 + bytes[j]
    IN  from[1]

\* A sub-index up to 127 takes one byte, a greater one two.
SubIndex(index) ==
    IF index <= 127 THEN <<index>> ELSE <<128 + (index % 128), index \div 128>>

Header(op, file, index) ==
    LET writing == IF op = "write" THEN 128 ELSE 0
    IN  IF index = 0 THEN <<writing + file>>
                     ELSE <<writing + 64 + file>> \o SubIndex(index)

-----------------------------------------------------------------------------
\* The chip between two transfers.
Ready == [stage |-> "header", op |-> "read", file |-> 0, index |-> 0]

\* What the chip makes of a byte of the header.
Decoded(c, byte) ==
    CASE c.stage = "header" ->
           [stage |-> IF byte % 128 >= 64 THEN "sub" ELSE "data",
            op |-> IF byte >= 128 THEN "write" ELSE "read",
            file |-> byte % 64, index |-> 0]
      [] c.stage = "sub" ->
           [stage |-> IF byte >= 128 THEN "extended" ELSE "data",
            op |-> c.op, file |-> c.file, index |-> byte % 128]
      [] c.stage = "extended" ->
           [stage |-> "data",
            op |-> c.op, file |-> c.file, index |-> c.index + 128 * byte]

Idle == [pc |-> "idle"]

Init ==
    /\ mem = [f \in Files |-> [a \in Addresses |-> 0]]
    /\ chip = Ready
    /\ locked = FALSE
    /\ calls = [c \in Callers |-> Idle]

\* dwt_writetodevice, dwt_readfromdevice and the functions for 8, 16 and 32
\* bits: a read shifts a byte out for each byte it shifts in.
Call(c, req) ==
    /\ calls[c] = Idle
    /\ calls' = [calls EXCEPT ![c] =
         [pc |-> "waiting", req |-> req, in |-> <<>>,
          out |-> Header(req.op, req.file, req.index)
                  \o IF req.op = "write" THEN BytesOf(req.value, req.n)
                                         ELSE [j \in 1..req.n |-> 0]]]
    /\ UNCHANGED <<mem, chip, locked>>

\* Mutant of Begin: the transfer does not lock.
BeginUnlocked(c) ==
    /\ calls[c].pc = "waiting"
    /\ calls' = [calls EXCEPT ![c].pc = "shifting"]
    /\ UNCHANGED <<mem, chip, locked>>

\* writetospi and readfromspi.
Begin(c) ==
    /\ calls[c].pc = "waiting" /\ ~locked
    /\ locked' = TRUE
    /\ calls' = [calls EXCEPT ![c].pc = "shifting"]
    /\ UNCHANGED <<mem, chip>>

Shift(c) ==
    /\ calls[c].pc = "shifting" /\ calls[c].out # <<>>
    /\ LET byte == Head(calls[c].out)
           rest == Tail(calls[c].out)
       IN  IF chip.stage # "data"
           THEN /\ chip' = Decoded(chip, byte)
                /\ calls' = [calls EXCEPT ![c].out = rest]
                /\ UNCHANGED mem
           ELSE /\ chip' = [chip EXCEPT !.index = @ + 1]
                /\ IF chip.op = "write"
                   THEN /\ mem' = [mem EXCEPT ![chip.file][chip.index] = byte]
                        /\ calls' = [calls EXCEPT ![c].out = rest]
                   ELSE /\ calls' = [calls EXCEPT ![c] =
                             [pc |-> @.pc, req |-> @.req, out |-> rest,
                              in |-> Append(@.in, mem[chip.file][chip.index])]]
                        /\ UNCHANGED mem
    /\ UNCHANGED locked

\* The chip select is released: the next byte begins a header.
End(c) ==
    /\ calls[c].pc = "shifting" /\ calls[c].out = <<>>
    /\ locked' = FALSE
    /\ chip' = Ready
    /\ calls' = [calls EXCEPT ![c] =
         [pc |-> "ended", value |-> IF @.req.op = "write" THEN @.req.value ELSE ValueOf(@.in)]]
    /\ UNCHANGED mem

Return(c) ==
    /\ calls[c].pc = "ended"
    /\ calls' = [calls EXCEPT ![c] = Idle]
    /\ UNCHANGED <<mem, chip, locked>>

Next == \E c \in Callers: \/ \E req \in Requests: Call(c, req)
                          \/ Begin(c)
                          \/ Shift(c)
                          \/ End(c)
                          \/ Return(c)

Spec == Init /\ [][Next]_vars

-----------------------------------------------------------------------------
\* A store with the bytes of a value written at their places, and the value of
\* the bytes found there.
Stored(store, req) ==
    [store EXCEPT ![req.file] = [a \in Addresses |->
       IF a \in req.index..req.index + req.n - 1
       THEN BytesOf(req.value, req.n)[a - req.index + 1] ELSE @[a]]]

Found(store, req) == ValueOf([j \in 1..req.n |-> store[req.file][req.index + j - 1]])

\* A transfer takes effect when it begins: the registers as they will be when
\* the one in progress has ended.
Writers == {c \in Callers: calls[c].pc = "shifting" /\ calls[c].req.op = "write"}

StoreOf == IF Writers = {} THEN mem ELSE Stored(mem, calls[CHOOSE c \in Writers: TRUE].req)

AccessOf(c) ==
    CASE calls[c].pc = "idle" -> [state |-> "none"]
      [] calls[c].pc = "waiting" -> [state |-> "called", req |-> calls[c].req]
      [] calls[c].pc = "shifting" ->
           [state |-> "ended", value |-> IF calls[c].req.op = "write" THEN calls[c].req.value
                                         ELSE Found(mem, calls[c].req)]
      [] calls[c].pc = "ended" -> [state |-> "ended", value |-> calls[c].value]

File == INSTANCE RegisterFile
          WITH store <- StoreOf, access <- [c \in Callers |-> AccessOf(c)],
               Initial <- [f \in Files |-> [a \in Addresses |-> 0]]

\* Whatever the callers do and however their transfers are shifted, it is as if
\* each value had been read or written as a whole: the header names the place
\* for every index, the bytes keep their order, and no transfer comes between
\* the bytes of another.
ImplementsRegisterFile == File!Spec
=============================================================================
