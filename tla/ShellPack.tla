------------------------------- MODULE ShellPack -------------------------------
(***************************************************************************)
(* pkg/shell/shell_pack.go: how messages go over a stream.  packet puts    *)
(* two bytes of length before a message; unPacket takes them apart again   *)
(* through a bufio.Reader, whose Read makes at most one read of the        *)
(* connection and may return less than was asked for; so may the read of   *)
(* the connection, which returns any beginning of what was written.        *)
(***************************************************************************)
EXTENDS Integers, Sequences, SequencesExt

CONSTANTS
  Radix,        \* the values of a byte (256)
  Texts,        \* what is sent: commands and replies, text without a zero byte
  MaxMessages,  \* bound: how many are sent
  BufSize,      \* the buffer of a bufio.Reader (4096)
  InFlight      \* bound: bytes written and not read from the connection

ShellPackAssumption ==
  /\ Radix \in Nat \ {0, 1}
  /\ \A m \in Texts : m \in Seq(1..(Radix - 1))
  /\ MaxMessages \in Nat
  /\ BufSize \in Nat /\ BufSize >= 2
  /\ InFlight \in Nat

VARIABLES
  sent,   \* the messages written
  wire,   \* the bytes in the connection
  buf,    \* the bytes in the reader's buffer
  size,   \* unPacket: -1 before binary.Read has read size
  got     \* the messages unPacket has returned

vars == <<sent, wire, buf, size, got>>

Init ==
  /\ sent = << >> /\ wire = << >> /\ buf = << >>
  /\ size = -1
  /\ got = << >>
-----------------------------------------------------------------------------
\* uint16(len(message)), big end first, and the message if that is not 0.
packet(message) ==
  <<(Len(message) \div Radix) % Radix, Len(message) % Radix>> \o
  IF Len(message) % (Radix * Radix) = 0 THEN << >> ELSE message

Smaller(m, n) == IF m < n THEN m ELSE n
Take(s, n) == SubSeq(s, 1, n)
Drop(s, n) == SubSeq(s, n + 1, Len(s))

\* The packet is on its way as a whole; a read may still see a part of it (Part).
Write(message) ==
  /\ Len(sent) < MaxMessages
  /\ Len(wire) + Len(packet(message)) <= InFlight
  /\ sent' = Append(sent, message)
  /\ wire' = wire \o packet(message)
  /\ UNCHANGED <<buf, size, got>>

\* One read of the connection, with room for n bytes, returns the first k on the wire.
Part(n) == 1..Smaller(n, Len(wire))

\* The reader has nothing: it fills its buffer, unless Read is given as much
\* room as the buffer itself (ReadDirect).
Fill ==
  /\ \/ size = -1 /\ Len(buf) < 2
     \/ size > 0 /\ size < BufSize /\ buf = << >>
  /\ \E k \in Part(BufSize) : buf' = buf \o Take(wire, k) /\ wire' = Drop(wire, k)
  /\ UNCHANGED <<sent, size, got>>

\* binary.Read, which goes on until it has both bytes.
ReadSize ==
  /\ size = -1 /\ Len(buf) >= 2
  /\ size' = Radix * buf[1] + buf[2]
  /\ buf' = Drop(buf, 2)
  /\ UNCHANGED <<sent, wire, got>>

\* buffer has size bytes, whatever Read put into it.
Filled(bytes) == bytes \o [i \in 1..(size - Len(bytes)) |-> 0]

\* Mutant of ReadBody: every message is read through a bufio.Reader of its own.
ReadBodyAnew ==
  /\ size = 0 \/ (size > 0 /\ buf # << >>)
  /\ got' = Append(got, Filled(Take(buf, Smaller(size, Len(buf)))))
  /\ buf' = << >>
  /\ size' = -1
  /\ UNCHANGED <<sent, wire>>

\* r.Read(buffer) from the buffer; an empty message is not read at all.
ReadBody ==
  /\ size = 0 \/ (size > 0 /\ buf # << >>)
  /\ got' = Append(got, Filled(Take(buf, Smaller(size, Len(buf)))))
  /\ buf' = Drop(buf, Smaller(size, Len(buf)))
  /\ size' = -1
  /\ UNCHANGED <<sent, wire>>

\* r.Read(buffer) from the connection.
ReadDirect ==
  /\ size >= BufSize /\ buf = << >>
  /\ \E k \in Part(size) : got' = Append(got, Filled(Take(wire, k))) /\ wire' = Drop(wire, k)
  /\ size' = -1
  /\ UNCHANGED <<sent, buf>>
-----------------------------------------------------------------------------
unPacket == Fill \/ ReadSize \/ ReadBody \/ ReadDirect

Next == unPacket \/ \E message \in Texts : Write(message)

Spec == Init /\ [][Next]_vars
-----------------------------------------------------------------------------
\* Another message than m, but with m's length: m's first bytes, zeros for the others.
Torn(message, m) ==
  /\ Len(message) = Len(m)
  /\ \E k \in 1..(Len(m) - 1) : \A j \in DOMAIN m : message[j] = IF j <= k THEN m[j] ELSE 0

\* shell.go: "write to server": unPacket returns the messages written, one for one and in
\* their order, however reads cut them up, until one is too long for its two bytes of
\* length, or is read in part because not all of it has come: then the first wrong one is
\* its own beginning, not another's and not made up.
FirstWrongIsTorn ==
  \A i \in DOMAIN got :
    IsPrefix(Take(got, i - 1), sent) /\ ~IsPrefix(Take(got, i), sent) =>
      i <= Len(sent) /\ (Len(sent[i]) >= Radix * Radix \/ Torn(got[i], sent[i]))
=============================================================================
