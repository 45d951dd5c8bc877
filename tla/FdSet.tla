------------------------------- MODULE FdSet --------------------------------
(***************************************************************************)
(* Descriptor sets and select() as the server uses them on a UNIX build.   *)
(*                                                                         *)
(* Socket::Select (src/socket/socket.h) is a thin wrapper over select(),   *)
(* and Server::FillReadyRead/FillReadyWrite/ReadData/SendData use the      *)
(* FD_SET and FD_ISSET macros.  Neither the macros nor the system call are *)
(* in the repository; they are modelled here from the way src/ uses them.  *)
(* An fd_set is the set of its bits that are 1.                            *)
(***************************************************************************)
EXTENDS Integers

CONSTANTS
  WordBits,     \* bits in one word of an fd_set (64 on x86-64)
  UIntRange     \* number of values of an unsigned int (2^32)

ASSUME WordBitsAssumption  == WordBits \in Nat \ {0}
ASSUME UIntRangeAssumption == UIntRange \in Nat \ {0}

\* Socket::kInvalidSocket, what accept() and socket() return on failure.
InvalidSocket == -1

\* The int to unsigned int conversion of a descriptor compared with m_maxFd.
AsUnsigned(h) == IF h < 0 THEN UIntRange + h ELSE h

(***************************************************************************)
(* The bit that FD_SET(h) sets and FD_ISSET(h) tests.  The macros index    *)
(* word h/WordBits and shift by h%WordBits; for h = -1 C rounds the word   *)
(* index to 0, and the shift count, taken modulo the word size by the      *)
(* shift instruction, selects the last bit of that word.                   *)
(***************************************************************************)
FdBit(h) == IF h = InvalidSocket THEN WordBits - 1 ELSE h

\* select(n, ...) copies whole words: it writes back the words that hold a
\* bit below n and leaves the other words of the caller's sets as they were.
CopiedBack(b, n) == \E c \in 0 .. (n - 1) : c \div WordBits = b \div WordBits

\* What select(n, ...) leaves in a set that asked for the bits requested,
\* when the bits in ready are the ones that are ready.
SelectResult(requested, n, ready) ==
  { b \in requested : CopiedBack(b, n) => (b < n /\ b \in ready) }

=============================================================================
