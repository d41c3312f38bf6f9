---------------------------- MODULE SocketMemory ----------------------------
(***************************************************************************)
(* One direction of the memory of a W5500 socket, as w5500.c drives it: a  *)
(* ring that the chip and the library address with 16-bit pointers, a size *)
(* register that the library reads byte by byte while the chip changes it, *)
(* and the RECV or SEND command that tells the chip of a pointer's change. *)
(***************************************************************************)
EXTENDS Integers, Sequences

CONSTANTS
    BYTE,    \* 2^8, made small
    SIZE     \* of the ring

Word == BYTE * BYTE

\* Every size that Sn_RXBUF_SIZE can name divides 2^16.
ASSUME MemoryAssumption == BYTE \in Nat /\ SIZE \in 1 .. Word - 1 /\ Word % SIZE = 0

VARIABLES
    receives,    \* the direction: the chip writes, the library reads
    ring,        \* the memory: a byte is its number in the stream, modulo 2^16
    Sn_RD, Sn_WR,    \* Sn_RX_RD and Sn_RX_WR, or Sn_TX_RD and Sn_TX_WR
    commanded,   \* the library's pointer at the last RECV or SEND
    mem_pc,      \* how far the library is
    val1, val,   \* its two readings of the size
    wizdata,     \* the caller's data
    moved        \* the bytes handed over last, to the caller or to the peer

chipMem == <<ring, Sn_RD, Sn_WR, commanded>>
libMem  == <<mem_pc, val1, val, wizdata>>
memVars == <<receives, chipMem, libMem, moved>>

MemInit ==
    /\ receives \in BOOLEAN
    /\ ring = [i \in 0 .. SIZE - 1 |-> 0]
    /\ Sn_RD = 0 /\ Sn_WR = 0 /\ commanded = 0
    /\ mem_pc = "idle" /\ val1 = 0 /\ val = 0 /\ wizdata = << >> /\ moved = << >>

Bytes16(from, n) == [i \in 1 .. n |-> (from + i - 1) % Word]
Stored(from, n)  == [i \in 1 .. n |-> ring[(from + i - 1) % SIZE]]
WithBytes(from, n) ==
    [a \in 0 .. SIZE - 1 |->
        IF (a - from) % SIZE < n THEN (from + ((a - from) % SIZE)) % Word ELSE ring[a]]

\* Sn_RX_RSR, or Sn_TX_FSR.
SizeRegister == IF receives THEN (Sn_WR - commanded) % Word ELSE SIZE - ((Sn_WR - Sn_RD) % Word)

----------------------------------------------------------------------------
(* getSn_RX_RSR and getSn_TX_FSR: four reads of a byte.                    *)

High == SizeRegister \div BYTE
Low  == SizeRegister % BYTE

Begins ==
    /\ mem_pc = "idle"
    /\ mem_pc' = "high" /\ val1' = 0 /\ val' = 0 /\ wizdata' = << >>

\* A first reading of 0 is believed if the last second reading was 0 too.
FirstReading ==
    \/ mem_pc = "high" /\ val1' = High /\ mem_pc' = "low" /\ UNCHANGED <<val, wizdata>>
    \/ /\ mem_pc = "low" /\ val1' = val1 * BYTE + Low
       /\ mem_pc' = IF val1' # 0 THEN "high again" ELSE IF val = 0 THEN "idle" ELSE "high"
       /\ UNCHANGED <<val, wizdata>>

SecondReading ==
    \/ mem_pc = "high again" /\ val' = High /\ mem_pc' = "low again" /\ UNCHANGED <<val1, wizdata>>
    \/ /\ mem_pc = "low again" /\ val' = val * BYTE + Low
       /\ mem_pc' = IF val' = val1 THEN "sized" ELSE "high"
       /\ UNCHANGED <<val1, wizdata>>

ReadsSize ==
    /\ Begins \/ FirstReading \/ SecondReading
    /\ UNCHANGED <<receives, chipMem, moved>>

----------------------------------------------------------------------------
(* wiz_recv_data and wiz_send_data, and the command their caller gives.    *)

\* Any length up to the size that was read.
WIZCHIP_READ_BUF ==
    /\ mem_pc = "sized" /\ receives
    /\ \E n \in 1 .. val : wizdata' = Stored(Sn_RD, n)
    /\ mem_pc' = "copied"
    /\ UNCHANGED <<receives, chipMem, val1, val, moved>>

WIZCHIP_WRITE_BUF ==
    /\ mem_pc = "sized" /\ ~receives
    /\ \E n \in 1 .. val :
           /\ wizdata' = Bytes16(Sn_WR, n)
           /\ ring' = WithBytes(Sn_WR, n)
    /\ mem_pc' = "copied"
    /\ UNCHANGED <<receives, Sn_RD, Sn_WR, commanded, val1, val, moved>>

\* Mutant: the pointer passes everything received, not only what was read.
wiz_recv_data_All ==
    /\ mem_pc = "copied" /\ receives
    /\ Sn_RD' = (Sn_RD + val) % Word
    /\ moved' = wizdata /\ mem_pc' = "moved"
    /\ UNCHANGED <<receives, ring, Sn_WR, commanded, val1, val, wizdata>>

wiz_recv_data ==
    /\ mem_pc = "copied" /\ receives
    /\ Sn_RD' = (Sn_RD + Len(wizdata)) % Word
    /\ moved' = wizdata /\ mem_pc' = "moved"
    /\ UNCHANGED <<receives, ring, Sn_WR, commanded, val1, val, wizdata>>

wiz_send_data ==
    /\ mem_pc = "copied" /\ ~receives
    /\ Sn_WR' = (Sn_WR + Len(wizdata)) % Word
    /\ mem_pc' = "moved"
    /\ UNCHANGED <<receives, ring, Sn_RD, commanded, val1, val, wizdata, moved>>

\* setSn_CR(sn, Sn_CR_RECV) or Sn_CR_SEND, and the wait until it is accepted.
Command ==
    /\ mem_pc = "moved"
    /\ commanded' = IF receives THEN Sn_RD ELSE Sn_WR
    /\ mem_pc' = "idle" /\ val1' = 0 /\ val' = 0 /\ wizdata' = << >>
    /\ UNCHANGED <<receives, ring, Sn_RD, Sn_WR, moved>>

----------------------------------------------------------------------------
(* The chip.                                                               *)

SegmentArrives ==
    /\ receives
    /\ \E n \in 1 .. SIZE - ((Sn_WR - commanded) % Word) :
           ring' = WithBytes(Sn_WR, n) /\ Sn_WR' = (Sn_WR + n) % Word
    /\ UNCHANGED <<receives, Sn_RD, commanded, libMem, moved>>

\* Some of what a SEND gave has arrived, and its room is free again.
SegmentAcknowledged ==
    /\ ~receives
    /\ \E n \in 1 .. (commanded - Sn_RD) % Word :
           moved' = Stored(Sn_RD, n) /\ Sn_RD' = (Sn_RD + n) % Word
    /\ UNCHANGED <<receives, ring, Sn_WR, commanded, libMem>>

MemNext ==
    \/ ReadsSize \/ WIZCHIP_READ_BUF \/ WIZCHIP_WRITE_BUF \/ wiz_recv_data \/ wiz_send_data
    \/ Command \/ SegmentArrives \/ SegmentAcknowledged

MemSpec == MemInit /\ [][MemNext]_memVars

----------------------------------------------------------------------------

MemTypeOK ==
    /\ ring \in [0 .. SIZE - 1 -> 0 .. Word - 1]
    /\ {Sn_RD, Sn_WR, commanded} \subseteq 0 .. Word - 1
    /\ mem_pc \in {"idle", "high", "low", "high again", "low again", "sized", "copied", "moved"}
    /\ val1 \in 0 .. SIZE /\ val \in 0 .. SIZE /\ Len(wizdata) <= SIZE /\ Len(moved) <= SIZE

Pipe == INSTANCE BytePipe WITH
    Size <- SIZE, Period <- Word,
    held <- Stored(Sn_RD, (Sn_WR - Sn_RD) % Word), count <- Sn_WR, out <- moved

\* The ring, its pointers and its torn sizes are a pipe: no byte is lost, taken
\* twice or overwritten, wherever the pointers wrap and whenever the chip
\* writes: this is what WizSocket assumes of rx and tx.
PipeSpec == Pipe!Spec
=============================================================================
