------------------------------- MODULE Chunks -------------------------------
(***************************************************************************)
(* Messages of the server on the wire: a message is cut into chunks, each  *)
(* with a 16 bit length field whose two highest bits are flags.            *)
(*                                                                         *)
(* The field is scaled down with ChunkSiz, which is CHUNKSIZ, the largest  *)
(* length without flags.  Payloads are only counted, and never empty.      *)
(***************************************************************************)
EXTENDS Integers, Sequences, SeqFilter

CONSTANT ChunkSiz

ASSUME ChunkSizAssumption == ChunkSiz \in Nat \ {0}

ChunkReserved == ChunkSiz + 1
ChunkExt      == 2 * ChunkReserved
Field         == 0 .. 2 * ChunkExt - 1       \* what 16 bits can hold

\* A message is a reply or the notification of an event, and has a length.
Message(kind, len) == [kind |-> kind, len |-> len]

-----------------------------------------------------------------------------
(* The server. *)

\* More chunks follow the one at this offset.
Continues_AtEnd(off, len) == len - off >= ChunkSiz
Continues(off, len) == len - off > ChunkSiz

\* send_message: the k-th chunk begins at offset (k - 1) * ChunkSiz.
send_message(m, cid) ==
    LET off(k) == (k - 1) * ChunkSiz
        count  == (m.len + ChunkSiz - 1) \div ChunkSiz
    IN  [k \in 1 .. count |->
            LET n == IF Continues(off(k), m.len) THEN ChunkSiz ELSE m.len - off(k)
            IN  [field |-> IF Continues(off(k), m.len) THEN ChunkExt + n ELSE n,
                 cid |-> cid, size |-> n, of |-> m]]

\* send_notification: always one chunk; a length that does not fit spills
\* into the flags.
notification(m, cid) ==
    [field |-> m.len % (2 * ChunkExt), cid |-> cid, size |-> m.len, of |-> m]

-----------------------------------------------------------------------------
(* The clients. *)

\* read_reply of client.c takes CHUNKEXT off the field, wait of ubervisor.py
\* masks everything but the length.
IsExtended(field) == field \div ChunkExt = 1
LengthInC(field)  == IF IsExtended(field) THEN field - ChunkExt ELSE field
LengthInPy(field) == field % ChunkReserved
=============================================================================
